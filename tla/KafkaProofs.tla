---------------------------- MODULE KafkaProofs ----------------------------
(***************************************************************************)
(* Theorems about module KafkaConsumer, for every number of claims,        *)
(* messages and sessions, and every limit of undelivered messages.         *)
(*                                                                         *)
(* The argument: a message under way, from its group's being added to      *)
(* onDelivery, is in exactly one place on its way, and meanwhile it is in  *)
(* undelivered or about to be put there under the mutex.  So the results   *)
(* in the channel are no more than the slots taken.                        *)
(***************************************************************************)
EXTENDS KafkaConsumer, FiniteSetTheorems, SequenceTheorems, TLAPS

Result == [id : Message, ok : BOOLEAN]

KafkaTypeOK ==
    /\ claim \in [Claim -> {"reserve", "receive", "handle", "save", "done"}]
    /\ offset \in [Claim -> 0 .. MaxOffset]
    /\ undelivered \in SUBSET Message /\ inFlight \in SUBSET Message
    /\ results \in Seq(Result) /\ track \in Seq(Result)

\* The mutex is held by the claim that is about to save its message, and no
\* claim is at work unless there is a session.
Locks ==
    /\ mu \in Claim \union {Nobody}
    /\ \A c \in Claim : claim[c] = "save" <=> mu = c
    /\ session \in {"cleanup", "off", "stopped"} =>
          \A c \in Claim : claim[c] = "done"

\* m is in undelivered or will be before the mutex is free.
Known(m) ==
    m \in undelivered \/ (claim[m[1]] = "save" /\ m[2] = offset[m[1]])

\* Every message that is under way is known, and in one place.
UnderWay ==
    /\ \A m \in inFlight : Known(m)
    /\ \A i \in 1 .. Len(results) :
          /\ Known(results[i].id) /\ results[i].id \notin inFlight
          /\ \A j \in 1 .. Len(results) : results[i].id = results[j].id => i = j
    /\ track # <<>> =>
          /\ Known(Head(track).id) /\ Head(track).id \notin inFlight
          /\ \A i \in 1 .. Len(results) : results[i].id # Head(track).id

\* The message a claim is about to add is one, and is newer than those it has
\* saved.
Behind ==
    /\ \A m \in undelivered :
          /\ m[2] <= offset[m[1]]
          /\ claim[m[1]] \in {"handle", "save"} => m[2] < offset[m[1]]
    /\ \A c \in Claim : claim[c] \in {"handle", "save"} => offset[c] > 0

\* A good result is one of a message whose metrics were delivered.
ResultsTrue ==
    /\ \A i \in 1 .. Len(results) : results[i].ok => results[i].id \in written
    /\ track # <<>> => (Head(track).ok => Head(track).id \in written)

\* A session that ends may keep slots that its claims had taken.
Slots ==
    /\ sem \in 0 .. MaxUndelivered
    /\ sem >= Cardinality(undelivered) + Cardinality(Holding)
    /\ session = "on" => sem = Cardinality(undelivered) + Cardinality(Holding)

KafkaInv ==
    /\ KafkaTypeOK /\ Locks /\ UnderWay /\ Behind /\ ResultsTrue /\ Slots
    /\ ~missed /\ ~overflowed

-----------------------------------------------------------------------------
LEMMA Finiteness ==
    /\ IsFiniteSet(Claim) /\ IsFiniteSet(Message)
    /\ \A S \in SUBSET Message : IsFiniteSet(S) /\ Cardinality(S) \in Nat
    /\ \A S \in SUBSET Claim : IsFiniteSet(S) /\ Cardinality(S) \in Nat
<1>1. IsFiniteSet(1 .. MaxOffset)
  BY KafkaConstants, FS_Interval
<1>2. IsFiniteSet(Message)
  BY <1>1, KafkaConstants, FS_Product DEF Message
<1> QED
  BY <1>2, KafkaConstants, FS_Subset, FS_CardinalityType

\* The parts of a message.
LEMMA Parts ==
    /\ \A m \in Message : /\ m[1] \in Claim /\ m[2] \in 1 .. MaxOffset
                          /\ m = <<m[1], m[2]>>
    /\ \A c \in Claim, o \in 1 .. MaxOffset : <<c, o>> \in Message
BY DEF Message

\* There is a last message marked, or none: the offset a claim starts at.
LEMMA CommittedExists ==
    ASSUME NEW c \in Claim
    PROVE  Committed(c) \in 0 .. MaxOffset
<1> DEFINE S == {o \in 0 .. MaxOffset : o = 0 \/ <<c, o>> \in marked}
           D == {o \in 0 .. MaxOffset : \E p \in S : o <= p}
           n == Cardinality(D)
<1>0. MaxOffset \in Nat
  BY KafkaConstants
<1>1. IsFiniteSet(D) /\ n \in Nat
  <2>1. IsFiniteSet(0 .. MaxOffset)
    BY <1>0, FS_Interval
  <2> QED
    BY Zenon, <2>1, FS_Subset, FS_CardinalityType
<1>2. ASSUME NEW k \in D PROVE k \in 0 .. (n - 1)
  <2>0. k \in Nat
    BY <1>0
  <2>1. 0 .. k \in SUBSET D
    BY <1>0
  <2>2. Cardinality(0 .. k) = k + 1
    BY <2>0, FS_Interval
  <2>3. Cardinality(0 .. k) <= n
    BY <2>1, <1>1, FS_Subset
  <2> HIDE DEF n
  <2> QED
    BY <2>0, <2>2, <2>3, <1>1
<1>3. D \in SUBSET (0 .. (n - 1))
  BY <1>2
<1>4. 0 \in D
  BY <1>0
<1>5. IsFiniteSet(0 .. (n - 1)) /\ Cardinality(0 .. (n - 1)) = n
  <2>1. n > 0
    <3> HIDE DEF n, D
    <3> QED
      BY <1>2, <1>4, <1>1
  <2> HIDE DEF n
  <2> QED
    BY <2>1, <1>1, FS_Interval
<1>6. n - 1 \in D
  <2>1. D = 0 .. (n - 1)
    BY Zenon, <1>3, <1>5, FS_Subset
  <2>2. n - 1 >= 0
    <3> HIDE DEF n, D
    <3> QED
      BY <1>2, <1>4, <1>1
  <2> HIDE DEF n, D
  <2> QED
    BY <2>1, <2>2, <1>1
<1>7. PICK p \in S : n - 1 <= p
  BY Zenon, <1>6
<1>8. \A q \in (p + 1) .. MaxOffset : <<c, q>> \notin marked
  <2> SUFFICES ASSUME NEW q \in (p + 1) .. MaxOffset, <<c, q>> \in marked PROVE FALSE
    OBVIOUS
  <2>1. q \in D
    BY <1>0
  <2>2. q <= n - 1
    <3> HIDE DEF n, D
    <3> QED
      BY <2>1, <1>2, <1>1
  <2>3. p \in Nat /\ q >= p + 1
    BY <1>0
  <2> HIDE DEF n
  <2> QED
    BY <2>2, <2>3, <1>7, <1>1
<1>9. \E o \in 0 .. MaxOffset :
          /\ o = 0 \/ <<c, o>> \in marked
          /\ \A q \in (o + 1) .. MaxOffset : <<c, q>> \notin marked
  BY <1>8
<1> QED
  BY <1>9 DEF Committed

-----------------------------------------------------------------------------
\* Injectivity of the results bounds their number.
LEMMA FewResults ==
    ASSUME NEW f, NEW n \in Nat, NEW T, IsFiniteSet(T),
           \A i \in 1 .. n : f[i] \in T,
           \A i, j \in 1 .. n : f[i] = f[j] => i = j
    PROVE  n <= Cardinality(T)
<1> DEFINE g == [i \in 1 .. n |-> f[i]]
<1>1. g \in Injection(1 .. n, T)
  BY DEF Injection, IsInjective
<1>2. Cardinality(1 .. n) = n
  BY FS_Interval
<1> QED
  BY <1>1, <1>2, FS_Injection

\* Results and their messages.
LEMMA ResultParts ==
    ASSUME KafkaTypeOK
    PROVE  /\ Len(results) \in Nat
           /\ \A i \in 1 .. Len(results) : results[i] \in Result
           /\ \A i \in 1 .. Len(results) : results[i].id \in Message
           /\ track # <<>> => Head(track) \in Result /\ Head(track).id \in Message
<1>1. Len(results) \in Nat /\ \A i \in 1 .. Len(results) : results[i] \in Result
  BY LenProperties, ElementOfSeq DEF KafkaTypeOK
<1>2. track # <<>> => Head(track) \in Result
  BY HeadTailProperties DEF KafkaTypeOK
<1>3. \A r \in Result : r.id \in Message
  BY DEF Result
<1> QED
  BY <1>1, <1>2, <1>3

\* A step that leaves the way of the messages alone, and forgets none.
LEMMA KeepUnderWay ==
    ASSUME KafkaInv, UNCHANGED <<inFlight, results, track>>,
           \A m \in Message : Known(m) => Known(m)'
    PROVE  UnderWay'
<1>1. \A m \in inFlight : m \in Message
  BY DEF KafkaInv, KafkaTypeOK
<1>2. /\ \A i \in 1 .. Len(results) : results[i].id \in Message
      /\ track # <<>> => Head(track).id \in Message
  BY ResultParts DEF KafkaInv
<1>3. (\A m \in inFlight : Known(m))'
  BY <1>1 DEF KafkaInv, UnderWay
<1>4. (\A i \in 1 .. Len(results) :
          /\ Known(results[i].id) /\ results[i].id \notin inFlight
          /\ \A j \in 1 .. Len(results) : results[i].id = results[j].id => i = j)'
  BY <1>2 DEF KafkaInv, UnderWay
<1>5. (track # <<>> =>
          /\ Known(Head(track).id) /\ Head(track).id \notin inFlight
          /\ \A i \in 1 .. Len(results) : results[i].id # Head(track).id)'
  BY <1>2 DEF KafkaInv, UnderWay
<1> QED
  BY <1>3, <1>4, <1>5 DEF UnderWay

\* Claims that hold a slot.
LEMMA HoldingStep ==
    ASSUME KafkaTypeOK, NEW c \in Claim, NEW pc, claim' = [claim EXCEPT ![c] = pc]
    PROVE  /\ IsFiniteSet(Holding) /\ Cardinality(Holding) \in Nat
           /\ claim[c] \in {"receive", "handle", "save"} =>
                 c \in Holding /\ Cardinality(Holding) > 0
           /\ (claim[c] \in {"receive", "handle", "save"}
                 /\ pc \in {"receive", "handle", "save"}) => Holding' = Holding
           /\ (claim[c] \in {"receive", "handle", "save"}
                 /\ pc \notin {"receive", "handle", "save"}) =>
                 Cardinality(Holding') = Cardinality(Holding) - 1
           /\ (claim[c] \notin {"receive", "handle", "save"}
                 /\ pc \in {"receive", "handle", "save"}) =>
                 Cardinality(Holding') = Cardinality(Holding) + 1
           /\ (claim[c] \notin {"receive", "handle", "save"}
                 /\ pc \notin {"receive", "handle", "save"}) => Holding' = Holding
<1> DEFINE H == {"receive", "handle", "save"}
<1>1. \A d \in Claim : claim'[d] = IF d = c THEN pc ELSE claim[d]
  BY DEF KafkaTypeOK
<1>2. IsFiniteSet(Holding) /\ Cardinality(Holding) \in Nat
  BY Finiteness DEF Holding
<1>3. c \in Holding <=> claim[c] \in H
  BY DEF Holding
<1>4. pc \in H => Holding' = Holding \union {c}
  BY <1>1 DEF Holding
<1>5. pc \notin H => Holding' = Holding \ {c}
  BY <1>1 DEF Holding
<1>6. c \in Holding => Cardinality(Holding) > 0
  BY <1>2, FS_EmptySet
<1>7. c \in Holding => Holding \union {c} = Holding
  OBVIOUS
<1>8. c \notin Holding => Holding \ {c} = Holding
  OBVIOUS
<1>9. c \notin Holding => Cardinality(Holding \union {c}) = Cardinality(Holding) + 1
  BY Zenon, <1>2, FS_AddElement
<1>10. c \in Holding => Cardinality(Holding \ {c}) = Cardinality(Holding) - 1
  BY Zenon, <1>2, FS_RemoveElement
<1> QED
  BY Zenon, <1>2, <1>3, <1>4, <1>5, <1>6, <1>7, <1>8, <1>9, <1>10

\* The channel has room for one more result of a message that is known.
LEMMA Room ==
    ASSUME KafkaInv, NEW m, NEW T, IsFiniteSet(T), Cardinality(T) <= sem, m \in T,
           \A i \in 1 .. Len(results) : results[i].id \in T /\ results[i].id # m
    PROVE  Len(results) < MaxUndelivered
<1> DEFINE n == Len(results) + 1
           f == [i \in 1 .. n |-> IF i <= Len(results) THEN results[i].id ELSE m]
<1>1. Len(results) \in Nat
  BY ResultParts DEF KafkaInv
<1>2. \A i \in 1 .. n : f[i] \in T
  BY <1>1
<1>3. \A i, j \in 1 .. n : f[i] = f[j] => i = j
  <2>1. \A i, j \in 1 .. Len(results) : results[i].id = results[j].id => i = j
    BY DEF KafkaInv, UnderWay
  <2>2. \A i \in 1 .. n : i \in 1 .. Len(results) \/ i = n
    BY <1>1
  <2>3. \A i \in 1 .. Len(results) : f[i] = results[i].id
    BY <1>1
  <2>4. f[n] = m
    BY <1>1
  <2> HIDE DEF f
  <2> QED
    BY <2>1, <2>2, <2>3, <2>4
<1>4. n \in Nat
  BY <1>1
<1>5. n <= Cardinality(T)
  <2> HIDE DEF f, n
  <2> QED
    BY <1>2, <1>3, <1>4, FewResults
<1>6. Cardinality(T) \in Nat
  BY FS_CardinalityType
<1> QED
  BY <1>1, <1>5, <1>6, KafkaConstants DEF KafkaInv, Slots

\* A result put into the channel.
LEMMA NotifiedStep ==
    ASSUME KafkaInv, NEW m \in Message, NEW ok \in BOOLEAN, Notified(m, ok),
           Len(results) < MaxUndelivered
    PROVE  /\ results' \in Seq(Result)
           /\ Len(results') = Len(results) + 1
           /\ \A i \in 1 .. Len(results) : results'[i] = results[i]
           /\ results'[Len(results) + 1].id = m
           /\ results'[Len(results) + 1].ok = ok
           /\ overflowed' = overflowed
           /\ \A x \in written : x \in written'
           /\ ok => m \in written'
<1> DEFINE r == [id |-> m, ok |-> ok]
<1>1. r \in Result /\ r.id = m /\ r.ok = ok
  BY DEF Result
<1>2. results' = Append(results, r) /\ overflowed' = overflowed
  BY DEF Notified
<1>3. /\ \A x \in written : x \in written'
      /\ ok => m \in written'
  BY DEF Notified
<1> HIDE DEF r
<1> QED
  BY <1>1, <1>2, <1>3, AppendProperties DEF KafkaInv, KafkaTypeOK

-----------------------------------------------------------------------------
LEMMA KafkaInitInv == KafkaInit => KafkaInv
<1> SUFFICES ASSUME KafkaInit PROVE KafkaInv
  OBVIOUS
<1>1. KafkaTypeOK
  BY EmptySeq, KafkaConstants DEF KafkaInit, KafkaTypeOK
<1>2. Locks /\ Behind
  BY KafkaConstants DEF KafkaInit, Locks, Behind
<1>3. UnderWay /\ ResultsTrue
  BY EmptySeq DEF KafkaInit, UnderWay, ResultsTrue
<1>4. Slots
  <2>1. Holding = {}
    BY DEF KafkaInit, Holding
  <2> QED
    BY <2>1, FS_EmptySet, KafkaConstants DEF KafkaInit, Slots
<1> QED
  BY <1>1, <1>2, <1>3, <1>4 DEF KafkaInv, KafkaInit

\* A new handler starts with nothing under way.
LEMMA SetupStep == ASSUME KafkaInv, Setup PROVE KafkaInv'
<1>1. KafkaTypeOK'
  <2>1. offset' \in [Claim -> 0 .. MaxOffset]
    BY CommittedExists DEF Setup
  <2> QED
    BY <2>1, EmptySeq DEF Setup, KafkaTypeOK
<1>2. \A c \in Claim : claim[c] = "done" /\ claim'[c] = "reserve"
  BY DEF KafkaInv, Locks, Setup
<1>3. Locks'
  BY <1>2 DEF KafkaInv, Locks, Setup
<1>4. UnderWay' /\ ResultsTrue' /\ Behind'
  BY <1>2, EmptySeq DEF Setup, UnderWay, ResultsTrue, Behind
<1>5. Slots'
  <2>1. Holding' = {}
    BY <1>2 DEF Holding
  <2> QED
    BY <2>1, FS_EmptySet, KafkaConstants DEF Setup, Slots
<1> QED
  BY <1>1, <1>3, <1>4, <1>5 DEF KafkaInv, Setup

\* The session ends step by step.
LEMMA SessionStep ==
    ASSUME KafkaInv,
           SessionEnds \/ StopKafka \/ Cleanup \/ RunReturnsK \/ StopReturnsK
              \/ UNCHANGED kafkaVars
    PROVE  KafkaInv'
<1>1. UNCHANGED <<claim, offset, sem, mu, undelivered, inFlight, results, track,
                  written, missed, overflowed>>
  BY DEF SessionEnds, StopKafka, Cleanup, RunReturnsK, StopReturnsK, kafkaVars
<1>2. /\ session' = "on" => session = "on"
      /\ session' \in {"cleanup", "off", "stopped"} =>
            \A c \in Claim : claim[c] = "done"
  BY DEF SessionEnds, StopKafka, Cleanup, RunReturnsK, StopReturnsK, kafkaVars,
         KafkaInv, Locks
<1>3. KafkaTypeOK' /\ Behind' /\ ResultsTrue'
  BY <1>1 DEF KafkaInv, KafkaTypeOK, Behind, ResultsTrue
<1>4. Locks'
  BY <1>1, <1>2 DEF KafkaInv, Locks
<1>5. UnderWay'
  BY <1>1, KeepUnderWay DEF Known
<1>6. Slots'
  BY <1>1, <1>2 DEF KafkaInv, Slots, Holding
<1> QED
  BY <1>1, <1>3, <1>4, <1>5, <1>6 DEF KafkaInv

\* A claim takes a slot, receives a message, or gives the slot back.
LEMMA ClaimStep ==
    ASSUME KafkaInv, NEW c \in Claim,
           Reserve(c) \/ NextMessage(c) \/ HandleTooLong(c) \/ HandleUnparsable(c)
    PROVE  KafkaInv'
<1>1. UNCHANGED <<session, mu, undelivered, inFlight, results, track, written,
                  missed, overflowed>>
  BY DEF Reserve, NextMessage, HandleTooLong, HandleUnparsable
<1>2. PICK pc \in {"reserve", "receive", "handle", "done"} :
          claim' = [claim EXCEPT ![c] = pc]
  BY DEF Reserve, NextMessage, HandleTooLong, HandleUnparsable
<1>3. claim[c] \in {"reserve", "receive", "handle"}
  BY DEF Reserve, NextMessage, HandleTooLong, HandleUnparsable
<1>4. \A d \in Claim : claim'[d] = IF d = c THEN pc ELSE claim[d]
  BY <1>2 DEF KafkaInv, KafkaTypeOK
<1>5. /\ offset[c] \in 0 .. MaxOffset /\ MaxOffset \in Nat
      /\ offset' \in [Claim -> 0 .. MaxOffset]
      /\ \A d \in Claim : d # c => offset'[d] = offset[d]
      /\ offset'[c] >= offset[c]
      /\ pc = "handle" => offset'[c] = offset[c] + 1
  <2>1. offset \in [Claim -> 0 .. MaxOffset] /\ MaxOffset \in Nat
    BY KafkaConstants DEF KafkaInv, KafkaTypeOK
  <2>2. claim'[c] = pc
    BY <1>4
  <2>3. CASE Reserve(c) \/ HandleTooLong(c) \/ HandleUnparsable(c)
    <3>1. offset' = offset
      BY <2>3 DEF Reserve, HandleTooLong, HandleUnparsable
    <3>2. claim'[c] # "handle"
      BY <2>3 DEF Reserve, HandleTooLong, HandleUnparsable, KafkaInv, KafkaTypeOK
    <3> QED
      BY <2>1, <2>2, <3>1, <3>2
  <2>4. CASE NextMessage(c)
    <3>1. CASE offset[c] < MaxOffset /\ offset' = [offset EXCEPT ![c] = @ + 1]
      BY <2>1, <3>1
    <3>2. CASE offset' = offset /\ claim' = [claim EXCEPT ![c] = "done"]
      <4>1. claim'[c] = "done"
        BY <3>2 DEF KafkaInv, KafkaTypeOK
      <4> QED
        BY <2>1, <2>2, <3>2, <4>1
    <3> QED
      BY <2>4, <3>1, <3>2 DEF NextMessage
  <2> QED
    BY <2>3, <2>4
<1>6. KafkaTypeOK'
  BY Zenon, <1>1, <1>2, <1>5 DEF KafkaInv, KafkaTypeOK
<1>7. session \notin {"cleanup", "off", "stopped"}
  BY <1>3 DEF KafkaInv, Locks
<1>8. Locks'
  BY <1>1, <1>3, <1>4, <1>7 DEF KafkaInv, Locks
<1>9. \A m \in Message : Known(m) => Known(m)'
  BY <1>1, <1>3, <1>4, <1>5, Parts DEF Known
<1>10. UnderWay'
  BY <1>1, <1>9, KeepUnderWay
<1>11. Behind'
  <2>0. \A d \in Claim : claim'[d] \in {"handle", "save"} => offset'[d] > 0
    BY <1>4, <1>5 DEF KafkaInv, Behind
  <2> SUFFICES ASSUME NEW m \in undelivered
               PROVE  /\ m[2] <= offset'[m[1]]
                      /\ claim'[m[1]] \in {"handle", "save"} => m[2] < offset'[m[1]]
    BY <1>1, <2>0 DEF Behind
  <2>1. m[1] \in Claim /\ m[2] \in 1 .. MaxOffset
    BY Parts DEF KafkaInv, KafkaTypeOK
  <2>2. /\ m[2] <= offset[m[1]]
        /\ claim[m[1]] \in {"handle", "save"} => m[2] < offset[m[1]]
    BY DEF KafkaInv, Behind
  <2>3. CASE m[1] = c
    BY <2>1, <2>2, <2>3, <1>4, <1>5, <1>6 DEF KafkaTypeOK
  <2>4. CASE m[1] # c
    BY <2>1, <2>2, <2>4, <1>4, <1>5
  <2> QED
    BY <2>3, <2>4
<1>12. ResultsTrue'
  BY <1>1 DEF KafkaInv, ResultsTrue
<1>13. Slots'
  <2>0. /\ sem \in Nat /\ MaxUndelivered \in Nat /\ sem <= MaxUndelivered
        /\ Cardinality(undelivered) \in Nat /\ undelivered' = undelivered
        /\ session' = session
    BY <1>1, Finiteness, KafkaConstants DEF KafkaInv, Slots, KafkaTypeOK
  <2> DEFINE h == Cardinality(Holding)
             h2 == Cardinality(Holding')
  <2>1. h \in Nat
    BY Zenon, HoldingStep, <1>2 DEF KafkaInv
  <2>2. \/ sem < MaxUndelivered /\ sem' = sem + 1 /\ h2 = h + 1
        \/ sem' = sem /\ h2 = h
        \/ sem' = sem - 1 /\ h2 = h - 1 /\ h > 0
        \/ sem' = sem /\ h2 = h - 1 /\ session = "ending"
    <3>0. KafkaTypeOK
      BY DEF KafkaInv
    <3>1. CASE Reserve(c)
      BY <3>0, <3>1, HoldingStep DEF Reserve
    <3>2. CASE NextMessage(c)
      BY <3>0, <3>2, HoldingStep DEF NextMessage
    <3>3. CASE HandleTooLong(c) \/ HandleUnparsable(c)
      BY <3>0, <3>3, HoldingStep DEF HandleTooLong, HandleUnparsable
    <3> QED
      BY <3>1, <3>2, <3>3
  <2>3. sem >= Cardinality(undelivered) + h
          /\ (session = "on" => sem = Cardinality(undelivered) + h)
    BY DEF KafkaInv, Slots
  <2>4. /\ sem' \in 0 .. MaxUndelivered
        /\ sem' >= Cardinality(undelivered) + h2
        /\ session = "on" => sem' = Cardinality(undelivered) + h2
    <3> HIDE DEF h, h2
    <3> QED
      BY <2>0, <2>1, <2>2, <2>3
  <2> QED
    BY <2>0, <2>4 DEF Slots
<1> QED
  BY <1>1, <1>6, <1>8, <1>10, <1>11, <1>12, <1>13 DEF KafkaInv

LEMMA HandledIsMessage ==
    ASSUME KafkaInv, NEW c \in Claim, claim[c] \in {"handle", "save"}
    PROVE  offset[c] \in 1 .. MaxOffset
BY KafkaConstants DEF KafkaInv, KafkaTypeOK, Behind

\* The group of a new message is added under the mutex: the message is known
\* from now on, and was not under way.
LEMMA AddsStep == ASSUME KafkaInv, NEW c \in Claim, HandleAdds(c) PROVE KafkaInv'
<1>0. PICK x : x = <<c, offset[c]>>
  BY Zenon
<1>1. /\ claim[c] = "handle" /\ mu = Nobody /\ mu' = c
      /\ claim' = [claim EXCEPT ![c] = "save"]
      /\ UNCHANGED <<session, offset, sem, undelivered, track, missed>>
  BY DEF HandleAdds
<1>2. \A d \in Claim : claim'[d] = IF d = c THEN "save" ELSE claim[d]
  BY <1>1 DEF KafkaInv, KafkaTypeOK
<1>3. \A m \in Message : Known(m) <=> m \in undelivered
  BY <1>1, KafkaConstants, Parts DEF Known, KafkaInv, Locks
<1>4. x[1] = c /\ x[2] = offset[c]
  BY <1>0
<1>5. \A m \in Message : Known(m) => m # x
  <2>1. \A m \in undelivered : m[1] = c => m[2] < offset[c]
    BY <1>1 DEF KafkaInv, Behind
  <2>2. offset[c] \in Int
    BY KafkaConstants DEF KafkaInv, KafkaTypeOK
  <2> QED
    BY <1>3, <1>4, <2>1, <2>2
<1>6. Known(x)'
  BY <1>1, <1>2, <1>4 DEF Known
<1>7. \A m \in Message : Known(m) => Known(m)'
  BY <1>1, <1>3 DEF Known
<1>8. /\ Len(results) \in Nat
      /\ \A i \in 1 .. Len(results) : results[i].id \in Message /\ Known(results[i].id)
      /\ track # <<>> => Head(track).id \in Message /\ Known(Head(track).id)
      /\ \A m \in inFlight : m \in Message /\ Known(m)
  BY ResultParts DEF KafkaInv, UnderWay, KafkaTypeOK
<1>9. Locks'
  BY <1>1, <1>2, KafkaConstants DEF KafkaInv, Locks
<1>10. Behind'
  <2>1. \A m \in undelivered : m[1] \in Claim
    BY Parts DEF KafkaInv, KafkaTypeOK
  <2> QED
    BY <1>1, <1>2, <2>1 DEF KafkaInv, Behind
<1>11. Slots'
  <2>1. Holding' = Holding
    BY Zenon, <1>1, HoldingStep DEF KafkaInv
  <2> QED
    BY <1>1, <2>1 DEF KafkaInv, Slots
<1>12. CASE inFlight' = inFlight \union {x} /\ UNCHANGED <<results, written, overflowed>>
  <2>1. KafkaTypeOK'
    <3>1. x \in Message
      <4>1. offset[c] \in 1 .. MaxOffset
        BY HandledIsMessage, <1>1
      <4> QED
        BY <1>0, <4>1, Parts
    <3> QED
      BY <1>1, <1>12, <3>1 DEF KafkaInv, KafkaTypeOK
  <2>2. UnderWay'
    <3>1. (\A m \in inFlight : Known(m))'
      BY <1>6, <1>7, <1>8, <1>12
    <3>2. (\A i \in 1 .. Len(results) :
              /\ Known(results[i].id) /\ results[i].id \notin inFlight
              /\ \A j \in 1 .. Len(results) : results[i].id = results[j].id => i = j)'
      BY <1>5, <1>7, <1>8, <1>12 DEF KafkaInv, UnderWay
    <3>3. (track # <<>> =>
              /\ Known(Head(track).id) /\ Head(track).id \notin inFlight
              /\ \A i \in 1 .. Len(results) : results[i].id # Head(track).id)'
      BY <1>1, <1>5, <1>7, <1>8, <1>12 DEF KafkaInv, UnderWay
    <3> QED
      BY <3>1, <3>2, <3>3 DEF UnderWay
  <2>3. ResultsTrue'
    BY <1>1, <1>12 DEF KafkaInv, ResultsTrue
  <2> QED
    BY <1>1, <1>9, <1>10, <1>11, <1>12, <2>1, <2>2, <2>3 DEF KafkaInv
<1>13. CASE Notified(x, TRUE) /\ inFlight' = inFlight
  <2>0. x \in Message
    <3>1. offset[c] \in 1 .. MaxOffset
      BY HandledIsMessage, <1>1
    <3> QED
      BY <1>0, <3>1, Parts
  <2>1. Len(results) < MaxUndelivered
    <3> DEFINE T == undelivered \union {x}
    <3>1. IsFiniteSet(undelivered) /\ Cardinality(undelivered) \in Nat
      BY Finiteness DEF KafkaInv, KafkaTypeOK
    <3>2. Cardinality(Holding) \in Nat /\ Cardinality(Holding) > 0
      BY Zenon, <1>1, HoldingStep DEF KafkaInv
    <3>0. x \notin undelivered
      BY <1>3, <1>5, <2>0
    <3>3. IsFiniteSet(T) /\ Cardinality(T) = Cardinality(undelivered) + 1
      BY <3>0, <3>1, FS_AddElement
    <3>4. Cardinality(T) \in Nat
      BY <3>3, FS_CardinalityType
    <3>5. Cardinality(T) <= sem
      <4> HIDE DEF T
      <4> QED
        BY <3>1, <3>2, <3>3, <3>4, KafkaConstants DEF KafkaInv, Slots
    <3>6. \A i \in 1 .. Len(results) : results[i].id \in T /\ results[i].id # x
      BY <1>3, <1>5, <1>8
    <3> QED
      BY <3>3, <3>5, <3>6, Room
  <2>2. /\ results' \in Seq(Result)
        /\ Len(results') = Len(results) + 1
        /\ \A i \in 1 .. Len(results) : results'[i] = results[i]
        /\ results'[Len(results) + 1].id = x
        /\ overflowed' = overflowed
        /\ \A y \in written : y \in written'
        /\ x \in written'
    BY Zenon, <1>13, <2>0, <2>1, NotifiedStep
  <2>3. KafkaTypeOK'
    BY <1>1, <1>13, <2>2 DEF KafkaInv, KafkaTypeOK
  <2>4. \A i \in 1 .. Len(results') : i \in 1 .. Len(results) \/ i = Len(results) + 1
    BY <1>8, <2>2
  <2>5. UnderWay'
    <3>1. (\A m \in inFlight : Known(m))'
      BY <1>7, <1>8, <1>13
    <3>2. ASSUME NEW i \in 1 .. Len(results')
          PROVE  /\ Known(results[i].id)' /\ results'[i].id \notin inFlight
                 /\ \A j \in 1 .. Len(results') :
                       results'[i].id = results'[j].id => i = j
      <4>1. /\ \A j \in 1 .. Len(results) :
                  results[j].id \notin inFlight /\ results[j].id # x
            /\ \A j, k \in 1 .. Len(results) : results[j].id = results[k].id => j = k
        BY <1>5, <1>7, <1>8 DEF KafkaInv, UnderWay
      <4>2. x \notin inFlight
        BY <1>5, <1>8
      <4>3. CASE i \in 1 .. Len(results)
        <5>1. results'[i] = results[i]
          BY <4>3, <2>2
        <5>2. \A m : m = results[i].id => Known(m)'
          BY <4>3, <1>7, <1>8
        <5>3. \A j \in 1 .. Len(results') : results'[i].id = results'[j].id => i = j
          BY <4>1, <4>3, <5>1, <2>2, <2>4
        <5> QED
          BY <4>1, <4>3, <5>1, <5>2, <5>3
      <4>4. CASE i = Len(results) + 1
        BY <4>1, <4>2, <4>4, <1>6, <2>2, <2>4
      <4> QED
        BY <4>3, <4>4, <2>4
    <3>3. (track # <<>> =>
              /\ Known(Head(track).id) /\ Head(track).id \notin inFlight
              /\ \A i \in 1 .. Len(results) : results[i].id # Head(track).id)'
      BY <1>1, <1>5, <1>7, <1>8, <1>13, <2>2, <2>4 DEF KafkaInv, UnderWay
    <3> QED
      BY <1>13, <3>1, <3>2, <3>3 DEF UnderWay
  <2>6. ResultsTrue'
    BY <1>1, <2>2, <2>4 DEF KafkaInv, ResultsTrue
  <2> QED
    BY <1>1, <1>9, <1>10, <1>11, <2>2, <2>3, <2>5, <2>6 DEF KafkaInv
<1> QED
  BY Zenon, <1>0, <1>12, <1>13 DEF HandleAdds

\* The message is saved and the mutex given back.
LEMMA SavesStep == ASSUME KafkaInv, NEW c \in Claim, HandleSaves(c) PROVE KafkaInv'
<1>0. PICK x : x = <<c, offset[c]>>
  BY Zenon
<1>1. /\ claim[c] = "save" /\ mu = c /\ mu' = Nobody
      /\ claim' = [claim EXCEPT ![c] = "reserve"]
      /\ undelivered' = undelivered \union {x}
      /\ UNCHANGED <<session, offset, sem, inFlight, results, track, written,
                     missed, overflowed>>
  BY <1>0 DEF HandleSaves, KafkaInv, Locks
<1>2. \A d \in Claim : claim'[d] = IF d = c THEN "reserve" ELSE claim[d]
  BY <1>1 DEF KafkaInv, KafkaTypeOK
<1>3. x[1] = c /\ x[2] = offset[c] /\ offset[c] \in 1 .. MaxOffset /\ x \in Message
  BY <1>0, <1>1, HandledIsMessage, Parts
<1>4. x \notin undelivered
  BY <1>1, <1>3 DEF KafkaInv, Behind
<1>5. KafkaTypeOK'
  BY <1>1, <1>3 DEF KafkaInv, KafkaTypeOK
<1>6. Locks'
  BY <1>1, <1>2, KafkaConstants DEF KafkaInv, Locks
<1>7. \A m \in Message : Known(m) => Known(m)'
  BY <1>0, <1>1, <1>2, Parts DEF Known, KafkaInv, Locks
<1>8. UnderWay'
  BY <1>1, <1>7, KeepUnderWay
<1>9. Behind'
  <2>1. \A m \in undelivered : m[1] \in Claim
    BY Parts DEF KafkaInv, KafkaTypeOK
  <2> QED
    BY <1>1, <1>2, <1>3, <2>1 DEF KafkaInv, Behind
<1>10. ResultsTrue'
  BY <1>1 DEF KafkaInv, ResultsTrue
<1>11. Slots'
  <2>1. IsFiniteSet(undelivered) /\ Cardinality(undelivered) \in Nat
    BY Finiteness DEF KafkaInv, KafkaTypeOK
  <2>2. Cardinality(undelivered') = Cardinality(undelivered) + 1
    BY <1>1, <1>4, <2>1, FS_AddElement
  <2>3. Cardinality(Holding) \in Nat /\ Cardinality(Holding') = Cardinality(Holding) - 1
    <3>1. KafkaTypeOK /\ claim' = [claim EXCEPT ![c] = "reserve"]
      BY <1>1 DEF KafkaInv
    <3>2. claim[c] \in {"receive", "handle", "save"}
            /\ "reserve" \notin {"receive", "handle", "save"}
      BY <1>1
    <3> QED
      BY Zenon, <3>1, <3>2, HoldingStep
  <2> QED
    BY <1>1, <2>1, <2>2, <2>3, KafkaConstants DEF KafkaInv, Slots
<1> QED
  BY <1>1, <1>5, <1>6, <1>8, <1>9, <1>10, <1>11 DEF KafkaInv

\* The pipeline settles a group: the channel has room for the result.
LEMMA SettleStep == ASSUME KafkaInv, NEW m \in Message, SettleGroup(m) PROVE KafkaInv'
<1>1. /\ m \in inFlight /\ inFlight' = inFlight \ {m}
      /\ UNCHANGED <<session, claim, offset, sem, mu, undelivered, track, missed>>
  BY DEF SettleGroup
<1>2. PICK ok \in BOOLEAN : Notified(m, ok)
  BY DEF SettleGroup
<1>3. \A x \in Message : Known(x) => Known(x)'
  BY <1>1 DEF Known
<1>4. /\ Len(results) \in Nat
      /\ \A i \in 1 .. Len(results) :
            /\ results[i].id \in Message /\ Known(results[i].id)
            /\ results[i].id \notin inFlight
      /\ \A i, j \in 1 .. Len(results) : results[i].id = results[j].id => i = j
      /\ Known(m)
  BY <1>1, ResultParts DEF KafkaInv, UnderWay
<1>5. Len(results) < MaxUndelivered
  <2>1. /\ IsFiniteSet(undelivered) /\ Cardinality(undelivered) \in Nat
        /\ IsFiniteSet(Holding) /\ Cardinality(Holding) \in Nat
        /\ sem \in Nat /\ sem >= Cardinality(undelivered) + Cardinality(Holding)
    BY Finiteness, KafkaConstants DEF KafkaInv, KafkaTypeOK, Holding, Slots
  <2>2. CASE mu = Nobody
    <3>1. \A x \in Message : Known(x) => x \in undelivered
      BY <2>2, Parts, KafkaConstants DEF Known, KafkaInv, Locks
    <3>2. Cardinality(undelivered) <= sem
      BY <2>1
    <3> QED
      BY <3>1, <3>2, <1>1, <1>4, <2>1, Room
  <2>3. CASE mu # Nobody
    <3>0. mu \in Claim /\ claim[mu] = "save"
      BY <2>3 DEF KafkaInv, Locks
    <3> DEFINE T == undelivered \union {<<mu, offset[mu]>>}
    <3>1. \A x \in Message : Known(x) => x \in T
      <4>1. \A d \in Claim : claim[d] = "save" => d = mu
        BY DEF KafkaInv, Locks
      <4> QED
        BY <4>1, Parts DEF Known
    <3>2. Cardinality(Holding) > 0
      <4>1. mu \in Holding
        BY <3>0 DEF Holding
      <4> QED
        BY <4>1, <2>1, FS_EmptySet
    <3>3. IsFiniteSet(T)
            /\ (Cardinality(T) = Cardinality(undelivered)
                  \/ Cardinality(T) = Cardinality(undelivered) + 1)
      <4>1. IsFiniteSet(T)
              /\ Cardinality(T) = IF <<mu, offset[mu]>> \in undelivered
                   THEN Cardinality(undelivered) ELSE Cardinality(undelivered) + 1
        BY ZenonT(30), <2>1, FS_AddElement
      <4> HIDE DEF T
      <4> QED
        BY <4>1
    <3>4. Cardinality(T) <= sem
      <4> HIDE DEF T
      <4> QED
        BY <2>1, <3>2, <3>3
    <3> HIDE DEF T
    <3> QED
      BY <3>1, <3>3, <3>4, <1>1, <1>4, Room
  <2> QED
    BY <2>2, <2>3
<1>6. /\ results' \in Seq(Result)
      /\ Len(results') = Len(results) + 1
      /\ \A i \in 1 .. Len(results) : results'[i] = results[i]
      /\ results'[Len(results) + 1].id = m
      /\ results'[Len(results) + 1].ok = ok
      /\ overflowed' = overflowed
      /\ \A y \in written : y \in written'
      /\ ok => m \in written'
  BY <1>2, <1>5, NotifiedStep
<1>7. \A i \in 1 .. Len(results') : i \in 1 .. Len(results) \/ i = Len(results) + 1
  BY <1>4, <1>6
<1>8. KafkaTypeOK'
  BY <1>1, <1>6 DEF KafkaInv, KafkaTypeOK
<1>9. UnderWay'
  <2>1. (\A x \in inFlight : Known(x))'
    BY <1>1, <1>3 DEF KafkaInv, KafkaTypeOK, UnderWay
  <2>2. ASSUME NEW i \in 1 .. Len(results')
        PROVE  /\ Known(results[i].id)' /\ results'[i].id \notin inFlight'
               /\ \A j \in 1 .. Len(results') : results'[i].id = results'[j].id => i = j
    <3>0. \A j \in 1 .. Len(results) : results[j].id # m
      BY <1>1, <1>4
    <3>1. CASE i \in 1 .. Len(results)
      <4>1. results'[i] = results[i]
        BY <3>1, <1>6
      <4>2. \A x : x = results[i].id => Known(x)'
        BY <3>1, <1>3, <1>4
      <4>3. \A j \in 1 .. Len(results') : results'[i].id = results'[j].id => i = j
        BY <3>0, <3>1, <4>1, <1>4, <1>6, <1>7
      <4> QED
        BY <3>1, <4>1, <4>2, <4>3, <1>1, <1>4
    <3>2. CASE i = Len(results) + 1
      BY <3>0, <3>2, <1>1, <1>3, <1>4, <1>6, <1>7
    <3> QED
      BY <3>1, <3>2, <1>7
  <2>3. (track # <<>> =>
            /\ Known(Head(track).id) /\ Head(track).id \notin inFlight
            /\ \A i \in 1 .. Len(results) : results[i].id # Head(track).id)'
    <3> SUFFICES ASSUME track # <<>>
                 PROVE  /\ Known(Head(track).id)' /\ Head(track).id \notin inFlight'
                        /\ \A i \in 1 .. Len(results') :
                              results'[i].id # Head(track).id
      BY <1>1
    <3>1. /\ Head(track).id \in Message /\ Known(Head(track).id)
          /\ Head(track).id \notin inFlight
          /\ \A i \in 1 .. Len(results) : results[i].id # Head(track).id
      BY ResultParts DEF KafkaInv, UnderWay
    <3>2. \A x : x = Head(track).id => Known(x)'
      BY <3>1, <1>3
    <3> QED
      BY <3>1, <3>2, <1>1, <1>6, <1>7
  <2> QED
    BY <2>1, <2>2, <2>3 DEF UnderWay
<1>10. ResultsTrue'
  BY <1>1, <1>6, <1>7 DEF KafkaInv, ResultsTrue
<1>11. Locks' /\ Behind'
  BY <1>1 DEF KafkaInv, Locks, Behind
<1>12. Slots'
  BY <1>1 DEF KafkaInv, Slots, Holding
<1> QED
  BY <1>1, <1>6, <1>8, <1>9, <1>10, <1>11, <1>12 DEF KafkaInv

\* run receives the oldest result.
LEMMA ReceivesStep == ASSUME KafkaInv, RunReceives PROVE KafkaInv'
<1>1. /\ track = <<>> /\ results # <<>>
      /\ track' = <<Head(results)>> /\ results' = Tail(results)
      /\ UNCHANGED <<session, claim, offset, sem, mu, undelivered, inFlight, written,
                     missed, overflowed>>
  BY DEF RunReceives
<1>2. /\ Len(results) \in Nat /\ Len(results) > 0
      /\ results' \in Seq(Result) /\ Len(results') = Len(results) - 1
      /\ \A i \in 1 .. Len(results') : results'[i] = results[i + 1]
      /\ Head(results) = results[1] /\ results[1] \in Result
  BY <1>1, HeadTailProperties, LenProperties, ElementOfSeq, EmptySeq
    DEF KafkaInv, KafkaTypeOK
<1>3. track' \in Seq(Result) /\ Head(track') = results[1]
  BY <1>1, <1>2
<1>4. \A i \in 1 .. Len(results') : i + 1 \in 1 .. Len(results) /\ i + 1 # 1
  BY <1>2
<1>5. 1 \in 1 .. Len(results)
  BY <1>2
<1>6. \A m \in Message : Known(m) => Known(m)'
  BY <1>1 DEF Known
<1>7. /\ \A i \in 1 .. Len(results) :
            /\ results[i].id \in Message /\ Known(results[i].id)
            /\ results[i].id \notin inFlight
      /\ \A i, j \in 1 .. Len(results) : results[i].id = results[j].id => i = j
      /\ \A m \in inFlight : m \in Message /\ Known(m)
  BY ResultParts DEF KafkaInv, UnderWay, KafkaTypeOK
<1>8. \A i \in 1 .. Len(results), m \in Message : m = results[i].id => Known(m)'
  BY <1>6, <1>7
<1>9. KafkaTypeOK'
  BY <1>1, <1>2, <1>3 DEF KafkaInv, KafkaTypeOK
<1>10. UnderWay'
  <2>1. (\A m \in inFlight : Known(m))'
    BY <1>1, <1>6, <1>7
  <2>2. ASSUME NEW i \in 1 .. Len(results')
        PROVE  /\ Known(results[i].id)' /\ results'[i].id \notin inFlight'
               /\ \A j \in 1 .. Len(results') : results'[i].id = results'[j].id => i = j
    <3>1. results'[i] = results[i + 1] /\ i + 1 \in 1 .. Len(results)
      BY <1>2, <1>4
    <3>2. ASSUME NEW j \in 1 .. Len(results'), results'[i].id = results'[j].id
          PROVE  i = j
      <4>1. results'[j] = results[j + 1] /\ j + 1 \in 1 .. Len(results)
        BY <1>2, <1>4
      <4>2. i + 1 = j + 1
        BY <3>1, <3>2, <4>1, <1>7
      <4> QED
        BY <4>2, <1>2
    <3> QED
      BY <3>1, <3>2, <1>1, <1>7, <1>8
  <2>3. (track # <<>> =>
            /\ Known(Head(track).id) /\ Head(track).id \notin inFlight
            /\ \A i \in 1 .. Len(results) : results[i].id # Head(track).id)'
    BY <1>1, <1>2, <1>3, <1>4, <1>5, <1>7, <1>8
  <2> QED
    BY <2>1, <2>2, <2>3 DEF UnderWay
<1>11. ResultsTrue'
  BY <1>1, <1>2, <1>3, <1>4, <1>5 DEF KafkaInv, ResultsTrue
<1>12. Locks' /\ Behind'
  BY <1>1 DEF KafkaInv, Locks, Behind
<1>13. Slots'
  BY <1>1 DEF KafkaInv, Slots, Holding
<1> QED
  BY <1>1, <1>9, <1>10, <1>11, <1>12, <1>13 DEF KafkaInv

\* onDelivery has the mutex, so the message it looks for has been saved.
LEMMA DeliveryStep == ASSUME KafkaInv, onDelivery PROVE KafkaInv'
<1>0. PICK x : x = Head(track).id
  OBVIOUS
<1>1. /\ track # <<>> /\ mu = Nobody /\ track' = <<>>
      /\ UNCHANGED <<session, claim, offset, mu, inFlight, results, written, overflowed>>
  BY DEF onDelivery
<1>2. \A m \in Message : Known(m) => m \in undelivered
  BY <1>1, Parts, KafkaConstants DEF Known, KafkaInv, Locks
<1>3. /\ x \in Message /\ x \in undelivered /\ x \notin inFlight
      /\ \A i \in 1 .. Len(results) : results[i].id # x
  BY <1>0, <1>1, <1>2, ResultParts DEF KafkaInv, UnderWay
<1>4. undelivered' = undelivered \ {x} /\ sem' = sem - 1 /\ missed' = missed
  BY <1>0, <1>3 DEF onDelivery
<1>5. \A m \in Message : Known(m) /\ m # x => Known(m)'
  BY <1>1, <1>2, <1>4 DEF Known
<1>6. KafkaTypeOK'
  BY <1>1, <1>4, EmptySeq DEF KafkaInv, KafkaTypeOK
<1>7. UnderWay'
  <2>1. (\A m \in inFlight : Known(m))'
    BY <1>1, <1>3, <1>5 DEF KafkaInv, UnderWay, KafkaTypeOK
  <2>2. (\A i \in 1 .. Len(results) :
            /\ Known(results[i].id) /\ results[i].id \notin inFlight
            /\ \A j \in 1 .. Len(results) : results[i].id = results[j].id => i = j)'
    <3>1. \A i \in 1 .. Len(results), m \in Message : m = results[i].id => Known(m)'
      BY <1>3, <1>5, ResultParts DEF KafkaInv, UnderWay
    <3>2. \A i \in 1 .. Len(results) : results[i].id \in Message
      BY ResultParts DEF KafkaInv
    <3> QED
      BY <3>1, <3>2, <1>1 DEF KafkaInv, UnderWay
  <2> QED
    BY <1>1, <2>1, <2>2 DEF UnderWay
<1>8. ResultsTrue'
  BY <1>1 DEF KafkaInv, ResultsTrue
<1>9. Locks' /\ Behind'
  BY <1>1, <1>4 DEF KafkaInv, Locks, Behind
<1>10. Slots'
  <2>1. IsFiniteSet(undelivered) /\ Cardinality(undelivered) \in Nat
    BY Finiteness DEF KafkaInv, KafkaTypeOK
  <2>2. Cardinality(undelivered') = Cardinality(undelivered) - 1
    BY Zenon, <1>3, <1>4, <2>1, FS_RemoveElement
  <2>3. Cardinality(undelivered) > 0
    BY <1>3, <2>1, FS_EmptySet
  <2>4. Holding' = Holding /\ Cardinality(Holding) \in Nat
    BY <1>1, Finiteness DEF Holding
  <2> QED
    BY <1>1, <1>4, <2>1, <2>2, <2>3, <2>4, KafkaConstants DEF KafkaInv, Slots
<1> QED
  BY <1>1, <1>4, <1>6, <1>7, <1>8, <1>9, <1>10 DEF KafkaInv

LEMMA KafkaInductive == KafkaInit /\ [][KafkaNext]_kafkaVars => []KafkaInv
<1>1. KafkaInv /\ [KafkaNext]_kafkaVars => KafkaInv'
  BY SetupStep, SessionStep, ClaimStep, AddsStep, SavesStep, SettleStep,
     ReceivesStep, DeliveryStep DEF KafkaNext, ConsumeClaim
<1> QED
  BY <1>1, KafkaInitInv, PTL

\* The semaphore of the kafka consumer counts exactly the messages under way,
\* and the channel of results never overflows.
THEOREM SlotsAreBalanced == KafkaSpec => []SlotsBalance
<1>1. KafkaInv => SlotsBalance
  BY DEF KafkaInv, Slots, SlotsBalance
<1> QED
  BY <1>1, KafkaInductive, PTL DEF KafkaSpec

\* onDelivery finds the message of every result, however early it comes.
THEOREM DeliveryFindsMessage == KafkaSpec => []FindsMessage
<1>1. KafkaInv => FindsMessage
  BY DEF KafkaInv, FindsMessage
<1> QED
  BY <1>1, KafkaInductive, PTL DEF KafkaSpec

\* A message is marked as consumed only when it deserves it.
THEOREM MarksAreDeserved == KafkaSpec => MarkIsDeserved
<1>1. KafkaInv /\ [KafkaNext]_kafkaVars =>
        [\A m \in marked' \ marked : m \in written \/ claim[m[1]] = "handle"]_kafkaVars
  <2> SUFFICES ASSUME KafkaInv, KafkaNext, NEW m \in marked' \ marked
               PROVE  m \in written \/ claim[m[1]] = "handle"
    OBVIOUS
  <2>1. CASE \E c \in Claim : HandleTooLong(c)
    BY <2>1 DEF HandleTooLong
  <2>2. CASE onDelivery
    BY <2>2 DEF onDelivery, KafkaInv, ResultsTrue
  <2> QED
    BY ZenonT(30), <2>1, <2>2
       DEF KafkaNext, ConsumeClaim, Setup, SessionEnds, StopKafka, Cleanup,
      RunReturnsK, StopReturnsK, Reserve, NextMessage, HandleUnparsable, HandleAdds,
      HandleSaves, SettleGroup, RunReceives
<1> QED
  BY <1>1, KafkaInductive, PTL DEF KafkaSpec, MarkIsDeserved
=============================================================================
