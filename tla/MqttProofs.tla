---------------------------- MODULE MqttProofs -----------------------------
(***************************************************************************)
(* A theorem about module MqttConsumer, for every number of receivers,     *)
(* messages and losses of the connection, and every limit of undelivered   *)
(* messages.                                                               *)
(***************************************************************************)
EXTENDS MqttConsumer, FiniteSetTheorems, SequenceTheorems, TLAPS

\* Receivers that have a slot and have yet to add a group.
Adding == {r \in Receiver : receiver[r] = "add"}

MqttTypeOK ==
    /\ receiver \in [Receiver -> {"off", "select", "add", "save"}]
    /\ IsFiniteSet(mqttInFlight)
    /\ mqttResults \in Seq(Int) /\ mqttInFlight \in SUBSET Int

\* Without a persistent session nothing is received before the map is made,
\* because connect subscribes after it has made the map.
MadeInTime ==
    /\ persistent \in BOOLEAN /\ made \in BOOLEAN
    /\ subscribed = TRUE => made \/ persistent
    /\ connector = "subscribe" => made
    /\ \A r \in Receiver : receiver[r] # "off" => made \/ persistent
    /\ mqttPanicked = TRUE => persistent

SlotsTaken ==
    mqttSem = Cardinality(mqttInFlight) + Len(mqttResults) + Cardinality(Adding)

MqttInv == MqttTypeOK /\ MadeInTime /\ SlotsTaken

-----------------------------------------------------------------------------
LEMMA Counts ==
    ASSUME MqttTypeOK
    PROVE  /\ Cardinality(mqttInFlight) \in Nat /\ Len(mqttResults) \in Nat
           /\ IsFiniteSet(Adding) /\ Cardinality(Adding) \in Nat
<1>1. IsFiniteSet(Adding)
  BY MqttConstants, FS_Subset DEF Adding
<1> QED
  BY <1>1, FS_CardinalityType, LenProperties DEF MqttTypeOK

LEMMA MqttInitInv == MqttInit => MqttInv
<1> SUFFICES ASSUME MqttInit PROVE MqttInv
  OBVIOUS
<1>1. MqttTypeOK
  BY FS_EmptySet, EmptySeq DEF MqttInit, MqttTypeOK
<1>2. MadeInTime
  BY Zenon DEF MqttInit, MadeInTime
<1>3. Adding = {}
  BY DEF MqttInit, Adding
<1>4. SlotsTaken
  BY <1>3, FS_EmptySet, EmptySeq DEF MqttInit, SlotsTaken
<1> QED
  BY <1>1, <1>2, <1>4 DEF MqttInv

\* connect, the loss of the connection, Gather and Stop touch no slot.
LEMMA ConnectionStep ==
    ASSUME MqttInv, Connector \/ ConnectionBreaks \/ onConnectionLost \/ GatherMqtt
                      \/ StopMqtt \/ UNCHANGED mqttVars
    PROVE  MqttInv'
<1>1. UNCHANGED <<persistent, receiver, mqttSem, mqttInFlight, mqttResults, mqttPanicked>>
  BY Zenon
     DEF Connector, ConnectDone, ConnectRefused, SetConnected, MakeMessages, Subscribe,
         ConnectionBreaks, onConnectionLost, GatherMqtt, StopMqtt, mqttVars, recvVars
<1>2. made' \in {made, TRUE}
  BY Zenon
     DEF Connector, ConnectDone, ConnectRefused, SetConnected, MakeMessages, Subscribe,
         ConnectionBreaks, onConnectionLost, GatherMqtt, StopMqtt, mqttVars
<1>3. connector' = "subscribe" => made' = TRUE \/ (connector = "subscribe" /\ made' = made)
  BY DEF Connector, ConnectDone, ConnectRefused, SetConnected, MakeMessages, Subscribe,
         ConnectionBreaks, onConnectionLost, GatherMqtt, StopMqtt, mqttVars
<1>4. subscribed' = TRUE => \/ subscribed = TRUE
                            \/ persistent = TRUE
                            \/ connector = "subscribe"
  BY Zenon
     DEF Connector, ConnectDone, ConnectRefused, SetConnected, MakeMessages, Subscribe,
         ConnectionBreaks, onConnectionLost, GatherMqtt, StopMqtt, mqttVars
<1>5. MadeInTime'
  BY Zenon, <1>1, <1>2, <1>3, <1>4 DEF MqttInv, MadeInTime
<1>6. MqttTypeOK' /\ SlotsTaken'
  BY <1>1 DEF MqttInv, MqttTypeOK, SlotsTaken, Adding
<1> QED
  BY <1>5, <1>6 DEF MqttInv

\* recvMessage
LEMMA ReceiverStep ==
    ASSUME MqttInv, ~mqttPanicked, NEW r \in Receiver, MessageArrives(r) \/ Receives(r)
    PROVE  MqttInv'
<1>0. /\ Cardinality(mqttInFlight) \in Nat /\ Len(mqttResults) \in Nat
      /\ IsFiniteSet(Adding) /\ Cardinality(Adding) \in Nat
  BY Counts DEF MqttInv
<1>1. UNCHANGED <<persistent, made, subscribed, connector>>
  BY DEF MessageArrives, Receives, TakeDelivered, TakeSlot, AddGroup, SaveId, connVars
<1>2. PICK pc \in {"off", "select", "add", "save"} :
          receiver' = [receiver EXCEPT ![r] = pc]
  <2>1. CASE TakeDelivered(r)
    <3>1. receiver' = [receiver EXCEPT ![r] = "select"]
      BY <2>1 DEF TakeDelivered, MqttInv, MqttTypeOK
    <3> QED
      BY <3>1
  <2>2. CASE ~TakeDelivered(r)
    BY <2>2 DEF MessageArrives, Receives, TakeSlot, AddGroup, SaveId
  <2> QED
    BY <2>1, <2>2
<1>3. \A s \in Receiver : receiver'[s] = IF s = r THEN pc ELSE receiver[s]
  BY <1>2 DEF MqttInv, MqttTypeOK
<1>4. /\ pc = "add" => Adding' = Adding \union {r}
      /\ pc # "add" => Adding' = Adding \ {r}
      /\ r \in Adding <=> receiver[r] = "add"
  BY <1>3 DEF Adding
<1>5. MadeInTime'
  <2>1. receiver[r] # "off" \/ subscribed = TRUE
    BY DEF MessageArrives, Receives, TakeDelivered, TakeSlot, AddGroup, SaveId
  <2>2. made \/ persistent
    BY <2>1 DEF MqttInv, MadeInTime
  <2>3. mqttPanicked' = TRUE => mqttPanicked = TRUE \/ ~made
    BY Zenon DEF MessageArrives, Receives, TakeDelivered, TakeSlot, AddGroup, SaveId
  <2> QED
    BY <1>1, <1>3, <2>2, <2>3 DEF MqttInv, MadeInTime
<1>6. CASE MessageArrives(r) \/ SaveId(r)
  <2>1. /\ receiver[r] # "add" /\ receiver'[r] # "add"
        /\ UNCHANGED <<mqttSem, mqttInFlight, mqttResults>>
    BY <1>6 DEF MessageArrives, SaveId, MqttInv, MqttTypeOK
  <2>2. Adding' = Adding
    BY <1>3, <1>4, <2>1
  <2> QED
    BY <1>2, <1>5, <2>1, <2>2 DEF MqttInv, MqttTypeOK, SlotsTaken
<1>7. CASE TakeDelivered(r)
  <2>1. /\ UNCHANGED <<receiver, mqttInFlight>> /\ mqttSem' = mqttSem - 1
        /\ mqttResults # <<>> /\ mqttResults' = Tail(mqttResults)
    BY <1>7 DEF TakeDelivered
  <2>2. mqttResults' \in Seq(Int) /\ Len(mqttResults') = Len(mqttResults) - 1
    BY <2>1, HeadTailProperties DEF MqttInv, MqttTypeOK
  <2>3. Adding' = Adding
    BY <2>1 DEF Adding
  <2> QED
    BY <1>0, <1>5, <2>1, <2>2, <2>3 DEF MqttInv, MqttTypeOK, SlotsTaken
<1>8. CASE TakeSlot(r)
  <2>1. receiver[r] = "select" /\ UNCHANGED <<mqttInFlight, mqttResults>>
    BY <1>8 DEF TakeSlot
  <2>2. \/ mqttSem' = mqttSem + 1 /\ receiver'[r] = "add"
        \/ mqttSem' = mqttSem /\ receiver'[r] = "off"
    BY <1>8 DEF TakeSlot, MqttInv, MqttTypeOK
  <2>3. receiver'[r] = "add" => Cardinality(Adding') = Cardinality(Adding) + 1
    BY <1>0, <1>3, <1>4, <2>1, FS_AddElement
  <2>4. receiver'[r] # "add" => Adding' = Adding
    BY <1>3, <1>4, <2>1
  <2>5. SlotsTaken'
    BY <1>0, <2>1, <2>2, <2>3, <2>4 DEF MqttInv, SlotsTaken
  <2> QED
    BY <1>2, <1>5, <2>1, <2>5 DEF MqttInv, MqttTypeOK
<1>9. CASE AddGroup(r)
  <2>1. /\ receiver[r] = "add" /\ receiver'[r] = "save"
        /\ UNCHANGED <<mqttSem, mqttResults>>
    BY <1>9 DEF AddGroup, MqttInv, MqttTypeOK
  <2>2. PICK id \in Int : id \notin mqttInFlight /\ mqttInFlight' = mqttInFlight \union {id}
    BY <1>9, MqttConstants DEF AddGroup, Fresh
  <2>3. IsFiniteSet(mqttInFlight')
          /\ Cardinality(mqttInFlight') = Cardinality(mqttInFlight) + 1
    BY <2>2, FS_AddElement DEF MqttInv, MqttTypeOK
  <2>4. Cardinality(Adding') = Cardinality(Adding) - 1
    BY <1>0, <1>3, <1>4, <2>1, FS_RemoveElement
  <2>5. SlotsTaken'
    BY <1>0, <2>1, <2>3, <2>4 DEF MqttInv, SlotsTaken
  <2> QED
    BY <1>2, <1>5, <2>1, <2>2, <2>3, <2>5 DEF MqttInv, MqttTypeOK
<1> QED
  BY <1>6, <1>7, <1>8, <1>9 DEF Receives

LEMMA MqttSettleStep ==
    ASSUME MqttInv, NEW id \in mqttInFlight, SettleMqtt(id)
    PROVE  MqttInv'
<1>0. /\ Cardinality(mqttInFlight) \in Nat /\ Len(mqttResults) \in Nat
      /\ IsFiniteSet(Adding) /\ Cardinality(Adding) \in Nat
  BY Counts DEF MqttInv
<1>1. /\ mqttInFlight' = mqttInFlight \ {id} /\ mqttResults' = Append(mqttResults, id)
      /\ UNCHANGED <<persistent, made, subscribed, connector, receiver, mqttSem,
                     mqttPanicked>>
  BY DEF SettleMqtt, connVars
<1>2. mqttResults' \in Seq(Int) /\ Len(mqttResults') = Len(mqttResults) + 1
  BY <1>1, AppendProperties DEF MqttInv, MqttTypeOK
<1>3. IsFiniteSet(mqttInFlight')
        /\ Cardinality(mqttInFlight') = Cardinality(mqttInFlight) - 1
  BY <1>1, FS_RemoveElement DEF MqttInv, MqttTypeOK
<1>4. MadeInTime' /\ Adding' = Adding
  BY <1>1 DEF MqttInv, MadeInTime, Adding
<1>5. SlotsTaken'
  BY <1>0, <1>1, <1>2, <1>3, <1>4 DEF MqttInv, SlotsTaken
<1> QED
  BY <1>1, <1>2, <1>3, <1>4, <1>5 DEF MqttInv, MqttTypeOK

\* The slots of the mqtt consumer are taken for exactly the groups under way,
\* over any number of reconnections, and recvMessage meets a nil map only with
\* a persistent session.
THEOREM SlotsOutliveConnections == MqttSpec => []SlotsSurviveReconnect
<1>1. MqttInv /\ [MqttNext]_mqttVars => MqttInv'
  BY ConnectionStep, ReceiverStep, MqttSettleStep DEF MqttNext
<1>2. MqttInv => SlotsSurviveReconnect
  BY DEF MqttInv, MadeInTime, SlotsTaken, SlotsSurviveReconnect, Adding
<1> QED
  BY <1>1, <1>2, MqttInitInv, PTL DEF MqttSpec
=============================================================================
