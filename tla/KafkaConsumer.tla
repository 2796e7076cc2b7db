--------------------------- MODULE KafkaConsumer ---------------------------
(***************************************************************************)
(* The kafka_consumer input, plugins/inputs/kafka_consumer: a goroutine    *)
(* per claim turns messages into tracked metric groups, and a goroutine of *)
(* the session marks the messages whose metrics were delivered.  A         *)
(* semaphore keeps the number of groups under way within what was asked of *)
(* WithTracking: a result that finds its channel full panics the process   *)
(* (agent/accumulator.go).                                                 *)
(*                                                                         *)
(* A session ends when the broker rebalances or the input is stopped; the  *)
(* next one has a handler of its own and starts after the last mark.       *)
(***************************************************************************)
EXTENDS Integers, Sequences, FiniteSets

CONSTANTS
    Claim,           \* the claims of a session
    MaxOffset,       \* bound: messages of a claim
    MaxUndelivered,  \* max_undelivered_messages
    MaxSessions      \* bound

Nobody == "nobody"

ASSUME KafkaConstants ==
    /\ IsFiniteSet(Claim) /\ Nobody \notin Claim
    /\ MaxOffset \in Nat /\ MaxSessions \in Nat
    /\ MaxUndelivered \in Nat \ {0}

VARIABLES
    stopping,     \* k.cancel() has been called
    session,      \* "on", "ending", "cleanup", "off", or "stopped"
    sessions,     \* how many there have been
    claim,        \* claim[c]: where ConsumeClaim is
    offset,       \* offset[c]: the last message it has received
    sem,          \* tokens taken from the semaphore
    mu,           \* who holds the handler's mutex, a claim or nobody
    undelivered,  \* messages by tracking ID; an ID is the message here
    inFlight,     \* groups the pipeline has not settled
    results,      \* the channel of the tracking accumulator
    track,        \* the result that run has received, as a sequence of at most one
    marked,       \* messages marked as consumed
    written,      \* messages whose metrics were delivered or that had none
    missed,       \* a result whose message onDelivery did not find
    overflowed    \* a result found the channel full

kafkaVars == <<stopping, session, sessions, claim, offset, sem, mu,
               undelivered, inFlight, results, track, marked, written,
               missed, overflowed>>

Message == Claim \X (1 .. MaxOffset)

\* Where a claim starts: after the last message marked.
Committed(c) ==
    CHOOSE o \in 0 .. MaxOffset :
        /\ o = 0 \/ <<c, o>> \in marked
        /\ \A p \in (o + 1) .. MaxOffset : <<c, p>> \notin marked

KafkaInit ==
    /\ stopping = FALSE
    /\ session = "off" /\ sessions = 0
    /\ claim = [c \in Claim |-> "done"]
    /\ offset = [c \in Claim |-> 0]
    /\ sem = 0 /\ mu = Nobody
    /\ undelivered = {} /\ inFlight = {}
    /\ results = <<>> /\ track = <<>>
    /\ marked = {} /\ written = {}
    /\ missed = FALSE /\ overflowed = FALSE

-----------------------------------------------------------------------------
\* The loop of Start: a new handler, and Consume, whose session calls Setup and
\* then ConsumeClaim for every claim.  The loop looks at the context before
\* Consume does; a Stop in between is the same as one right after Setup, for the
\* session it finds ends at once.
Setup ==
    /\ session = "off" /\ ~stopping
    /\ sessions < MaxSessions
    /\ sessions' = sessions + 1
    /\ session' = "on"
    /\ claim' = [c \in Claim |-> "reserve"]
    /\ offset' = [c \in Claim |-> Committed(c)]
    /\ sem' = 0
    /\ undelivered' = {} /\ inFlight' = {}
    /\ results' = <<>> /\ track' = <<>>
    /\ UNCHANGED <<stopping, mu, marked, written, missed, overflowed>>

\* The broker rebalances.
SessionEnds ==
    /\ session = "on"
    /\ session' = "ending"
    /\ UNCHANGED <<stopping, sessions, claim, offset, sem, mu, undelivered,
                   inFlight, results, track, marked, written, missed,
                   overflowed>>

\* Stop: cancel, and wait for the goroutines.
StopKafka ==
    /\ ~stopping
    /\ stopping' = TRUE
    /\ session' = IF session = "on" THEN "ending" ELSE session
    /\ UNCHANGED <<sessions, claim, offset, sem, mu, undelivered, inFlight,
                   results, track, marked, written, missed, overflowed>>

\* Cleanup, once every ConsumeClaim has returned: cancel, then wait for run.
Cleanup ==
    /\ session = "ending"
    /\ \A c \in Claim : claim[c] = "done"
    /\ session' = "cleanup"
    /\ UNCHANGED <<stopping, sessions, claim, offset, sem, mu, undelivered,
                   inFlight, results, track, marked, written, missed,
                   overflowed>>

RunReturnsK ==
    /\ session = "cleanup"
    /\ track = <<>>
    /\ session' = "off"
    /\ UNCHANGED <<stopping, sessions, claim, offset, sem, mu, undelivered,
                   inFlight, results, track, marked, written, missed,
                   overflowed>>

StopReturnsK ==
    /\ session = "off" /\ stopping
    /\ session' = "stopped"
    /\ UNCHANGED <<stopping, sessions, claim, offset, sem, mu, undelivered,
                   inFlight, results, track, marked, written, missed,
                   overflowed>>

-----------------------------------------------------------------------------
\* ConsumeClaim

\* Mutant: a claim that waits for a slot does not look at the context.
ReserveBlindly(c) ==
    /\ claim[c] = "reserve"
    /\ sem < MaxUndelivered
    /\ sem' = sem + 1
    /\ claim' = [claim EXCEPT ![c] = "receive"]
    /\ UNCHANGED <<stopping, session, sessions, offset, mu, undelivered,
                   inFlight, results, track, marked, written, missed,
                   overflowed>>

\* Reserve waits for a slot or for the end of the session.
Reserve(c) ==
    /\ claim[c] = "reserve"
    /\ \/ /\ sem < MaxUndelivered
          /\ sem' = sem + 1
          /\ claim' = [claim EXCEPT ![c] = "receive"]
       \/ /\ session = "ending"
          /\ claim' = [claim EXCEPT ![c] = "done"]
          /\ UNCHANGED sem
    /\ UNCHANGED <<stopping, session, sessions, offset, mu, undelivered,
                   inFlight, results, track, marked, written, missed,
                   overflowed>>

\* A message, or the end of the session, with the slot still taken.
NextMessage(c) ==
    /\ claim[c] = "receive"
    /\ \/ /\ offset[c] < MaxOffset
          /\ offset' = [offset EXCEPT ![c] = @ + 1]
          /\ claim' = [claim EXCEPT ![c] = "handle"]
       \/ /\ session = "ending"
          /\ claim' = [claim EXCEPT ![c] = "done"]
          /\ UNCHANGED offset
    /\ UNCHANGED <<stopping, session, sessions, sem, mu, undelivered, inFlight,
                   results, track, marked, written, missed, overflowed>>

\* Handle: the message is too long and is marked at once.
HandleTooLong(c) ==
    /\ claim[c] = "handle"
    /\ marked' = marked \union {<<c, offset[c]>>}
    /\ sem' = sem - 1
    /\ claim' = [claim EXCEPT ![c] = "reserve"]
    /\ UNCHANGED <<stopping, session, sessions, offset, mu, undelivered,
                   inFlight, results, track, written, missed, overflowed>>

\* Mutant: the slot of a message that does not parse is not given back.
HandleUnparsableLeaks(c) ==
    /\ claim[c] = "handle"
    /\ claim' = [claim EXCEPT ![c] = "reserve"]
    /\ UNCHANGED <<stopping, session, sessions, offset, sem, mu, undelivered,
                   inFlight, results, track, marked, written, missed,
                   overflowed>>

HandleUnparsable(c) ==
    /\ claim[c] = "handle"
    /\ sem' = sem - 1
    /\ claim' = [claim EXCEPT ![c] = "reserve"]
    /\ UNCHANGED <<stopping, session, sessions, offset, mu, undelivered,
                   inFlight, results, track, marked, written, missed,
                   overflowed>>

\* notify: a result is put into the channel, which must have room for it.
Notified(m, ok) ==
    /\ written' = IF ok THEN written \union {m} ELSE written
    /\ IF Len(results) < MaxUndelivered
       THEN results' = Append(results, [id |-> m, ok |-> ok]) /\ UNCHANGED overflowed
       ELSE overflowed' = TRUE /\ UNCHANGED results

\* Mutant: the group is added before the mutex is taken.
HandleAddsUnlocked(c) ==
    /\ claim[c] = "handle"
    /\ claim' = [claim EXCEPT ![c] = "save"]
    /\ inFlight' = inFlight \union {<<c, offset[c]>>}
    /\ UNCHANGED <<stopping, session, sessions, offset, sem, mu, undelivered,
                   results, track, marked, written, missed, overflowed>>

\* AddTrackingMetricGroup with the mutex held.  A message without metrics is
\* settled there and then.
HandleAdds(c) ==
    /\ claim[c] = "handle"
    /\ mu = Nobody
    /\ mu' = c
    /\ claim' = [claim EXCEPT ![c] = "save"]
    /\ \/ /\ inFlight' = inFlight \union {<<c, offset[c]>>}
          /\ UNCHANGED <<results, written, overflowed>>
       \/ /\ Notified(<<c, offset[c]>>, TRUE)
          /\ UNCHANGED inFlight
    /\ UNCHANGED <<stopping, session, sessions, offset, sem, undelivered,
                   track, marked, missed>>

\* h.undelivered[id] = ...; h.mu.Unlock()
HandleSaves(c) ==
    /\ claim[c] = "save"
    /\ mu' = IF mu = c THEN Nobody ELSE mu
    /\ undelivered' = undelivered \union {<<c, offset[c]>>}
    /\ claim' = [claim EXCEPT ![c] = "reserve"]
    /\ UNCHANGED <<stopping, session, sessions, offset, sem, inFlight, results,
                   track, marked, written, missed, overflowed>>

ConsumeClaim(c) ==
    \/ Reserve(c) \/ NextMessage(c)
    \/ HandleTooLong(c) \/ HandleUnparsable(c) \/ HandleAdds(c) \/ HandleSaves(c)

-----------------------------------------------------------------------------
\* The pipeline settles a group, in any order, well or badly.
SettleGroup(m) ==
    /\ m \in inFlight
    /\ inFlight' = inFlight \ {m}
    /\ \E ok \in BOOLEAN : Notified(m, ok)
    /\ UNCHANGED <<stopping, session, sessions, claim, offset, sem, mu,
                   undelivered, track, marked, missed>>

\* run receives a result while the session lasts; its select may still take
\* one after Cleanup has cancelled it.
RunReceives ==
    /\ session \in {"on", "ending", "cleanup"}
    /\ track = <<>> /\ results # <<>>
    /\ track' = <<Head(results)>>
    /\ results' = Tail(results)
    /\ UNCHANGED <<stopping, session, sessions, claim, offset, sem, mu,
                   undelivered, inFlight, marked, written, missed, overflowed>>

\* Mutant: every settled message is marked.
onDeliveryMarksAll ==
    /\ track # <<>> /\ mu = Nobody
    /\ track' = <<>>
    /\ LET m == Head(track).id
       IN IF m \in undelivered
          THEN /\ marked' = marked \union {m}
               /\ undelivered' = undelivered \ {m}
               /\ sem' = sem - 1
               /\ UNCHANGED missed
          ELSE /\ missed' = TRUE
               /\ UNCHANGED <<marked, undelivered, sem>>
    /\ UNCHANGED <<stopping, session, sessions, claim, offset, mu, inFlight,
                   results, written, overflowed>>

\* Under the mutex: mark the message if it was delivered, forget it, and give
\* its slot back.
onDelivery ==
    /\ track # <<>> /\ mu = Nobody
    /\ track' = <<>>
    /\ LET m == Head(track).id
       IN IF m \in undelivered
          THEN /\ marked' = IF Head(track).ok THEN marked \union {m} ELSE marked
               /\ undelivered' = undelivered \ {m}
               /\ sem' = sem - 1
               /\ UNCHANGED missed
          ELSE /\ missed' = TRUE
               /\ UNCHANGED <<marked, undelivered, sem>>
    /\ UNCHANGED <<stopping, session, sessions, claim, offset, mu, inFlight,
                   results, written, overflowed>>

KafkaNext ==
    \/ Setup \/ SessionEnds \/ StopKafka \/ Cleanup \/ RunReturnsK
    \/ StopReturnsK
    \/ \E c \in Claim : ConsumeClaim(c)
    \/ \E m \in Message : SettleGroup(m)
    \/ RunReceives \/ onDelivery

\* The input's goroutines go on when they can; claims offered the end of the
\* session again and again take it.  Whether the pipeline ever settles a group
\* is left open.
KafkaFairness ==
    /\ WF_kafkaVars(Cleanup \/ RunReturnsK \/ StopReturnsK)
    /\ WF_kafkaVars(onDelivery)
    /\ \A c \in Claim : WF_kafkaVars(ConsumeClaim(c))

KafkaSpec == KafkaInit /\ [][KafkaNext]_kafkaVars /\ KafkaFairness

-----------------------------------------------------------------------------
\* Claims that hold a slot for a message that is not yet in undelivered.
Holding == {c \in Claim : claim[c] \in {"receive", "handle", "save"}}

\* The semaphore counts exactly the messages under way: a slot that leaked
\* would in the end stop the consumer, and one given back twice would let more
\* groups out than the channel of results has room for, which is the contract
\* of WithTracking that module Tracking relies on.
SlotsBalance ==
    /\ session = "on" => sem = Cardinality(undelivered) + Cardinality(Holding)
    /\ ~overflowed

\* A group may be settled before AddTrackingMetricGroup has returned its ID:
\* onDelivery nevertheless finds the message.
FindsMessage == ~missed

\* A message is marked as consumed only if its metrics were delivered, or it
\* was too long to be parsed; one whose metrics were dropped is not.
MarkIsDeserved ==
    [][\A m \in marked' \ marked : m \in written \/ claim[m[1]] = "handle"]_kafkaVars

\* Stop returns although slots may all be taken by groups that the outputs
\* never settle.
StopReturns == stopping ~> session = "stopped"
=============================================================================
