---------------------------- MODULE MqttConsumer ----------------------------
(***************************************************************************)
(* The mqtt_consumer input, plugins/inputs/mqtt_consumer.  connect is      *)
(* called by Start and, when the connection was lost, by the next Gather;  *)
(* the client library calls onConnectionLost and recvMessage from          *)
(* goroutines of its own.  The fields state and messages are shared        *)
(* without a lock: each assignment is a step.                              *)
(*                                                                         *)
(* After a reconnection a message of the old connection may still be in    *)
(* recvMessage while the first of the new one arrives, hence more than one *)
(* receiver.                                                               *)
(***************************************************************************)
EXTENDS Integers, Sequences, FiniteSets

CONSTANTS
    Receiver,        \* calls of recvMessage that may be under way together
    MqttMaxUndelivered,  \* max_undelivered_messages
    MaxMqttMessages, \* bound: messages of a behaviour
    MaxLosses        \* bound: how often the connection is lost

ASSUME MqttConstants ==
    /\ IsFiniteSet(Receiver)
    /\ MqttMaxUndelivered \in Nat \ {0}
    /\ MaxMqttMessages \in Nat /\ MaxLosses \in Nat

VARIABLES
    persistent,   \* persistent_session: the broker keeps the subscriptions
    mqttState,    \* the field state
    link,         \* the client is connected
    subscribed,   \* the broker sends messages on this connection
    lostCalls,    \* calls of onConnectionLost yet to run
    losses,
    connector,    \* where connect is
    receiver,     \* where each recvMessage is
    made,         \* m.messages is a map, not nil
    messages,     \* the tracking IDs in it
    count,        \* messages received so far; an ID is the number of its message
    holds,        \* holds[r]: the ID it is about to save
    mqttSem,      \* tokens in the semaphore
    mqttInFlight, \* groups the pipeline has not settled
    mqttResults,  \* the channel of the tracking accumulator
    mqttStopped,
    overwritten,  \* onConnectionLost ran before connect set the state
    mqttPanicked  \* onMessage wrote into a nil map: the process has ended

mqttVars == <<persistent, mqttState, link, subscribed, lostCalls, losses,
              connector, receiver, made, messages, count, holds, mqttSem,
              mqttInFlight, mqttResults, mqttStopped, overwritten, mqttPanicked>>
connVars == <<mqttState, link, subscribed, lostCalls, losses, connector,
              overwritten>>
recvVars == <<receiver, messages, count, holds, mqttSem, mqttInFlight,
              mqttResults, mqttPanicked>>

\* Start: Connecting, and the first call of connect.
MqttInit ==
    /\ persistent \in BOOLEAN
    /\ mqttState = "Connecting" /\ connector = "connect"
    /\ link = FALSE /\ subscribed = FALSE
    /\ lostCalls = 0 /\ losses = 0
    /\ receiver = [r \in Receiver |-> "off"] /\ holds = [r \in Receiver |-> 0]
    /\ made = FALSE /\ messages = {} /\ count = 0
    /\ mqttSem = 0 /\ mqttInFlight = {} /\ mqttResults = <<>>
    /\ mqttStopped = FALSE /\ overwritten = FALSE /\ mqttPanicked = FALSE

-----------------------------------------------------------------------------
\* connect: the token of Connect is ready.  A session the broker has kept
\* delivers messages from now on.
ConnectDone ==
    /\ connector = "connect"
    /\ link' = TRUE
    /\ subscribed' \in {FALSE, persistent}
    /\ connector' = "connected"
    /\ UNCHANGED <<persistent, mqttState, lostCalls, losses, made, recvVars,
                   mqttStopped, overwritten>>

ConnectRefused ==
    /\ connector = "connect"
    /\ mqttState' = "Disconnected"
    /\ connector' = "idle"
    /\ UNCHANGED <<persistent, link, subscribed, lostCalls, losses, made,
                   recvVars, mqttStopped, overwritten>>

\* m.state = Connected
SetConnected ==
    /\ connector = "connected"
    /\ mqttState' = "Connected"
    /\ connector' = "make"
    /\ overwritten' = (overwritten \/ (~link /\ lostCalls = 0))
    /\ UNCHANGED <<persistent, link, subscribed, lostCalls, losses, made,
                   recvVars, mqttStopped>>

\* m.messages = make(...); a session that was present needs no subscription
\* (one that is lost meanwhile gains nothing by it either).
MakeMessages ==
    /\ connector = "make"
    /\ made' = TRUE /\ messages' = {}
    /\ connector' = IF subscribed THEN "idle" ELSE "subscribe"
    /\ UNCHANGED <<persistent, mqttState, link, subscribed, lostCalls, losses,
                   receiver, count, holds, mqttSem, mqttInFlight, mqttResults,
                   mqttPanicked, mqttStopped, overwritten>>

\* SubscribeMultiple succeeds or its error is logged.
Subscribe ==
    /\ connector = "subscribe"
    /\ subscribed' \in {link, FALSE}
    /\ connector' = "idle"
    /\ UNCHANGED <<persistent, mqttState, link, lostCalls, losses, made,
                   recvVars, mqttStopped, overwritten>>

ConnectionBreaks ==
    /\ link
    /\ losses < MaxLosses
    /\ losses' = losses + 1
    /\ link' = FALSE /\ subscribed' = FALSE
    /\ lostCalls' = lostCalls + 1
    /\ UNCHANGED <<persistent, mqttState, connector, made, recvVars,
                   mqttStopped, overwritten>>

\* Mutant: the loss of the connection is only logged.
onConnectionLostLogs ==
    /\ lostCalls > 0
    /\ lostCalls' = lostCalls - 1
    /\ UNCHANGED <<persistent, mqttState, link, subscribed, losses, connector,
                   made, recvVars, mqttStopped, overwritten>>

onConnectionLost ==
    /\ lostCalls > 0
    /\ lostCalls' = lostCalls - 1
    /\ mqttState' = "Disconnected"
    /\ UNCHANGED <<persistent, link, subscribed, losses, connector, made,
                   recvVars, mqttStopped, overwritten>>

\* Gather reconnects.
GatherMqtt ==
    /\ connector = "idle" /\ ~mqttStopped
    /\ mqttState = "Disconnected"
    /\ mqttState' = "Connecting"
    /\ connector' = "connect"
    /\ UNCHANGED <<persistent, link, subscribed, lostCalls, losses, made,
                   recvVars, mqttStopped, overwritten>>

\* Stop, after the last Gather has returned: Disconnect waits for what is being
\* received, but not longer than 200 ms.
StopMqtt ==
    /\ connector = "idle" /\ ~mqttStopped
    /\ mqttStopped' = TRUE
    /\ IF mqttState = "Connected"
       THEN /\ link' = FALSE /\ subscribed' = FALSE
            /\ mqttState' = "Disconnected"
       ELSE UNCHANGED <<link, subscribed, mqttState>>
    /\ UNCHANGED <<persistent, lostCalls, losses, connector, made, recvVars,
                   overwritten>>

-----------------------------------------------------------------------------
\* recvMessage

MessageArrives(r) ==
    /\ receiver[r] = "off"
    /\ subscribed
    /\ count < MaxMqttMessages
    /\ receiver' = [receiver EXCEPT ![r] = "select"]
    /\ count' = count + 1
    /\ UNCHANGED <<persistent, connVars, made, messages, holds, mqttSem,
                   mqttInFlight, mqttResults, mqttStopped, mqttPanicked>>

\* Mutant: the slot of a message of a previous connection is not given back.
TakeDeliveredKnown(r) ==
    /\ receiver[r] = "select"
    /\ mqttResults # <<>>
    /\ mqttResults' = Tail(mqttResults)
    /\ mqttSem' = IF Head(mqttResults) \in messages THEN mqttSem - 1 ELSE mqttSem
    /\ messages' = messages \ {Head(mqttResults)}
    /\ UNCHANGED <<persistent, connVars, made, receiver, count, holds,
                   mqttInFlight, mqttStopped, mqttPanicked>>

\* A result: its slot is given back whether or not this connection added it.
TakeDelivered(r) ==
    /\ receiver[r] = "select"
    /\ mqttResults # <<>>
    /\ mqttSem > 0
    /\ mqttResults' = Tail(mqttResults)
    /\ mqttSem' = mqttSem - 1
    /\ messages' = messages \ {Head(mqttResults)}
    /\ UNCHANGED <<persistent, connVars, made, receiver, count, holds,
                   mqttInFlight, mqttStopped, mqttPanicked>>

\* A slot: onMessage adds the group, or cannot parse the message and gives the
\* slot back.
TakeSlot(r) ==
    /\ receiver[r] = "select"
    /\ mqttSem < MqttMaxUndelivered
    /\ \/ /\ mqttSem' = mqttSem + 1
          /\ receiver' = [receiver EXCEPT ![r] = "add"]
       \/ /\ receiver' = [receiver EXCEPT ![r] = "off"]
          /\ UNCHANGED mqttSem
    /\ UNCHANGED <<persistent, connVars, made, messages, count, holds,
                   mqttInFlight, mqttResults, mqttStopped, mqttPanicked>>

\* A tracking ID that is in use nowhere.
Fresh(id) ==
    /\ id \notin mqttInFlight \union messages
    /\ \A i \in 1 .. Len(mqttResults) : mqttResults[i] # id
    /\ \A r \in Receiver : holds[r] # id

\* The least one: which one it is makes no difference.
AddGroup(r) ==
    /\ receiver[r] = "add"
    /\ \E id \in 1 .. 2 * MaxMqttMessages + 1 :
          /\ Fresh(id) /\ \A lower \in 1 .. (id - 1) : ~Fresh(lower)
          /\ mqttInFlight' = mqttInFlight \union {id}
          /\ holds' = [holds EXCEPT ![r] = id]
    /\ receiver' = [receiver EXCEPT ![r] = "save"]
    /\ UNCHANGED <<persistent, connVars, made, messages, count, mqttSem,
                   mqttResults, mqttStopped, mqttPanicked>>

\* m.messages[id] = true
SaveId(r) ==
    /\ receiver[r] = "save"
    /\ messages' = IF made THEN messages \union {holds[r]} ELSE messages
    /\ mqttPanicked' = ~made
    /\ holds' = [holds EXCEPT ![r] = 0]
    /\ receiver' = [receiver EXCEPT ![r] = "off"]
    /\ UNCHANGED <<persistent, connVars, made, count, mqttSem, mqttInFlight,
                   mqttResults, mqttStopped>>

\* The pipeline settles a group.
SettleMqtt(id) ==
    /\ id \in mqttInFlight
    /\ mqttInFlight' = mqttInFlight \ {id}
    /\ mqttResults' = Append(mqttResults, id)
    /\ UNCHANGED <<persistent, connVars, made, receiver, messages, count,
                   holds, mqttSem, mqttStopped, mqttPanicked>>

Connector == ConnectDone \/ ConnectRefused \/ SetConnected \/ MakeMessages
                \/ Subscribe
Receives(r) == TakeDelivered(r) \/ TakeSlot(r) \/ AddGroup(r) \/ SaveId(r)

MqttNext ==
    /\ ~mqttPanicked
    /\ \/ Connector \/ ConnectionBreaks \/ onConnectionLost \/ GatherMqtt
       \/ StopMqtt
       \/ \E r \in Receiver : MessageArrives(r) \/ Receives(r)
       \/ \E id \in mqttInFlight : SettleMqtt(id)

\* Gather is called every interval; the library calls back and its tokens get
\* ready; a broker asked again and again answers in the end.
MqttFairness ==
    /\ WF_mqttVars(~mqttPanicked /\ Connector)
    /\ SF_mqttVars(~mqttPanicked /\ ConnectDone)
    /\ WF_mqttVars(~mqttPanicked /\ onConnectionLost)
    /\ WF_mqttVars(~mqttPanicked /\ GatherMqtt)

MqttSpec == MqttInit /\ [][MqttNext]_mqttVars /\ MqttFairness

-----------------------------------------------------------------------------
\* A slot of the semaphore is taken for exactly the groups whose result has not
\* been read and the messages about to become one, whichever connection they
\* came by: a slot lost with a connection would in the end silence the input.
\* In particular a result always has room in its channel and a slot to give
\* back.  And without a persistent session no message arrives before connect
\* has made the map its tracking ID goes to.
SlotsSurviveReconnect ==
    /\ mqttSem = Cardinality(mqttInFlight) + Len(mqttResults)
                   + Cardinality({r \in Receiver : receiver[r] = "add"})
    /\ mqttPanicked => persistent

\* A lost connection is made again by a later Gather, unless onConnectionLost
\* came between the connection and the assignment of Connected, which then
\* hides the loss for good.
Reconnects ==
    (losses > 0 /\ ~link) ~> link \/ mqttStopped \/ overwritten \/ mqttPanicked
=============================================================================
