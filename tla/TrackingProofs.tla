--------------------------- MODULE TrackingProofs ---------------------------
(***************************************************************************)
(* Tracking is correct for any number of groups, metrics and copies.       *)
(*                                                                         *)
(* The argument: the reference count of a group is the number of its       *)
(* handles that have not given up their reference, so the handle whose     *)
(* decr reaches zero is the last one, no other handle can follow it, and   *)
(* every outcome has been counted before it reads the counts.  The channel *)
(* holds exactly the groups reported and not read, which are fewer than    *)
(* the groups the input may have unread while one is still being tracked.  *)
(***************************************************************************)
EXTENDS Tracking, FiniteSetTheorems, SequenceTheorems, TLAPS

Refs(g) == {h \in Handle : owner[h] = g /\ at[h] \in {"live", "decr"}}
Queued == {g \in Group : status[g] = "queued"}

CountsRefs == \A g \in Group : rc[g] = Cardinality(Refs(g))

\* A handle belongs to a group from its creation on, and its group is tracked
\* until the last handle has notified.
Owned ==
    \A h \in Handle :
        /\ at[h] = "free" <=> owner[h] = None
        /\ at[h] # "free" => status[owner[h]] # "new"
        /\ at[h] \in {"live", "decr", "notify"} => status[owner[h]] = "tracked"

NotifierIsLast ==
    \A h, k \in Handle :
        at[h] = "notify" /\ owner[k] = owner[h] /\ k # h => at[k] = "settled"

FateIsCounted ==
    /\ \A h \in Handle : at[h] \in {"free", "live"} => fate[h] = "none"
    /\ \A g \in Group :
          rejectCount[g] = 0 <=> \A h \in Handle : owner[h] = g => fate[h] # "rejected"

ChannelIsQueued ==
    /\ Len(delivered) = Cardinality(Queued)
    /\ Cardinality(Undelivered) <= MaxTracked

IInv ==
    /\ TypeOK /\ NeverPanics
    /\ CountsRefs /\ Owned /\ NotifierIsLast /\ FateIsCounted
    /\ ReportedLast /\ ReportIsTrue /\ ReportedOnce /\ ChannelIsQueued

-----------------------------------------------------------------------------
\* The sets that are counted are finite, now and after the step.
LEMMA Finite ==
    /\ \A g : IsFiniteSet(Refs(g)) /\ IsFiniteSet(Refs(g)')
    /\ IsFiniteSet(Queued) /\ IsFiniteSet(Undelivered)
    /\ \A g : Cardinality(Refs(g)) \in Nat
    /\ Cardinality(Queued) \in Nat /\ Cardinality(Undelivered) \in Nat
<1>1. \A g : IsFiniteSet(Refs(g)) /\ IsFiniteSet(Refs(g)')
  BY TrackingConstants, FS_Subset DEF Refs
<1>2. IsFiniteSet(Queued) /\ IsFiniteSet(Undelivered)
  BY TrackingConstants, FS_Subset DEF Queued, Undelivered
<1> QED
  BY <1>1, <1>2, FS_CardinalityType

\* notify of a group that is not on the channel finds room on it, and leaves
\* the channel and the groups reported in agreement.
LEMMA NotifyStep ==
    ASSUME TypeOK, NeverPanics, ReportedOnce, ChannelIsQueued,
           NEW g \in Group, NEW r \in Nat, notify(g, r),
           status[g] \in {"new", "tracked"},
           Cardinality(Undelivered \union {g}) <= MaxTracked
    PROVE  /\ delivered' = Append(delivered, g) /\ delivered' \in Seq(Group)
           /\ status' = [status EXCEPT ![g] = "queued"]
           /\ report' = [report EXCEPT ![g] = (r = 0)]
           /\ NeverPanics'
           /\ ReportedOnce' /\ ChannelIsQueued'
<1>1. g \notin Queued
  BY DEF Queued
<1>2. Cardinality(Queued \union {g}) = Cardinality(Queued) + 1
  BY Zenon, <1>1, Finite, FS_AddElement
<1>3. Queued \union {g} \subseteq Undelivered \union {g}
  BY DEF Queued, Undelivered
<1>4. IsFiniteSet(Undelivered \union {g})
  BY Finite, FS_AddElement
<1>5. Cardinality(Queued \union {g}) <= Cardinality(Undelivered \union {g})
  BY <1>3, <1>4, FS_Subset
<1>6. Len(delivered) < MaxTracked
  <2>1. Cardinality(Undelivered \union {g}) \in Nat
    BY <1>4, FS_CardinalityType
  <2> QED
    BY <1>2, <1>5, <2>1, Finite, TrackingConstants DEF ChannelIsQueued
<1>7. /\ delivered' = Append(delivered, g)
      /\ status' = [status EXCEPT ![g] = "queued"]
      /\ report' = [report EXCEPT ![g] = (r = 0)]
      /\ UNCHANGED panicked
  BY <1>6 DEF notify
<1>8. /\ delivered' \in Seq(Group) /\ Len(delivered') = Len(delivered) + 1
      /\ DOMAIN delivered' = 1 .. Len(delivered) + 1
      /\ \A i \in 1 .. Len(delivered) : delivered'[i] = delivered[i]
      /\ delivered'[Len(delivered) + 1] = g
      /\ DOMAIN delivered = 1 .. Len(delivered) /\ Len(delivered) \in Nat
  BY <1>7, AppendProperties, LenProperties DEF TypeOK
<1>9. ReportedOnce'
  <2>1. \A i \in DOMAIN delivered : delivered[i] \in Group /\ delivered[i] # g
    <3>1. \A i \in DOMAIN delivered : delivered[i] \in Group
      BY <1>8, ElementOfSeq DEF TypeOK
    <3> QED
      BY <3>1 DEF ReportedOnce
  <2>2. \A i \in DOMAIN delivered' : status'[delivered'[i]] = "queued"
    <3>1. DOMAIN status = Group
      BY DEF TypeOK
    <3>2. \A i \in 1 .. Len(delivered) : status'[delivered'[i]] = "queued"
      BY <1>7, <1>8, <2>1, <3>1 DEF ReportedOnce
    <3> QED
      BY <1>7, <1>8, <3>1, <3>2
  <2>3. \A i, j \in DOMAIN delivered' : delivered'[i] = delivered'[j] => i = j
    BY <1>8, <2>1 DEF ReportedOnce
  <2> QED
    BY <2>2, <2>3 DEF ReportedOnce
<1>10. ChannelIsQueued'
  <2>1. Queued' = Queued \union {g}
    BY <1>7 DEF Queued, TypeOK
  <2>2. Undelivered' = Undelivered \union {g}
    BY <1>7 DEF Undelivered, TypeOK
  <2> QED
    BY <1>2, <1>8, <2>1, <2>2 DEF ChannelIsQueued
<1> QED
  BY <1>7, <1>8, <1>9, <1>10 DEF NeverPanics

-----------------------------------------------------------------------------
LEMMA InitIInv == Init => IInv
<1> SUFFICES ASSUME Init PROVE IInv
  OBVIOUS
<1>1. TypeOK
  <2>1. delivered \in Seq(Group)
    BY EmptySeq DEF Init
  <2>2. report \in [Group -> BOOLEAN] /\ panicked \in BOOLEAN
    BY Zenon DEF Init
  <2> QED
    BY <2>1, <2>2 DEF Init, TypeOK
<1>2. CountsRefs
  <2>1. \A g \in Group : Refs(g) = {}
    BY DEF Init, Refs
  <2> QED
    BY Zenon, <2>1, FS_EmptySet DEF Init, CountsRefs
<1>3. Owned /\ NotifierIsLast /\ FateIsCounted
  BY TrackingConstants DEF Init, Owned, NotifierIsLast, FateIsCounted
<1>4. ReportedLast /\ ReportIsTrue /\ ReportedOnce /\ NeverPanics
  BY DEF Init, ReportedLast, ReportIsTrue, ReportedOnce, NeverPanics
<1>5. ChannelIsQueued
  <2>1. Queued = {} /\ Undelivered = {}
    BY DEF Init, Queued, Undelivered
  <2> QED
    BY <2>1, FS_EmptySet, EmptySeq, TrackingConstants DEF Init, ChannelIsQueued
<1> QED
  BY <1>1, <1>2, <1>3, <1>4, <1>5 DEF IInv

\* A handle that is not free belongs to a group.
LEMMA OwnerIsGroup ==
    ASSUME TypeOK, Owned, NEW h \in Handle, at[h] # "free"
    PROVE  owner[h] \in Group
BY DEF TypeOK, Owned

LEMMA CopyStep ==
    ASSUME IInv, NEW h \in Handle, NEW c \in Handle, Copy(h, c)
    PROVE  IInv'
<1> DEFINE g == owner[h]
<1>1. /\ g \in Group /\ h # c /\ owner[c] = None /\ fate[c] = "none"
      /\ status[g] = "tracked"
  BY OwnerIsGroup DEF IInv, Copy, Owned, FateIsCounted
<1>2. TypeOK'
  BY <1>1 DEF IInv, TypeOK, Copy
<1>3. CountsRefs'
  <2>1. Refs(g)' = Refs(g) \union {c}
    BY <1>1 DEF IInv, TypeOK, Copy, Refs
  <2>2. \A k \in Group \ {g} : Refs(k)' = Refs(k)
    BY <1>1, TrackingConstants DEF IInv, TypeOK, Copy, Refs
  <2>3. c \notin Refs(g)
    BY DEF Copy, Refs
  <2>4. Cardinality(Refs(g)') = Cardinality(Refs(g)) + 1
    BY Zenon, <2>1, <2>3, Finite, FS_AddElement
  <2> QED
    BY <1>1, <2>2, <2>4 DEF IInv, TypeOK, Copy, CountsRefs
<1>4. Owned' /\ NotifierIsLast'
  <2>1. /\ owner'[c] = g /\ at'[c] = "live" /\ UNCHANGED status
        /\ \A k \in Handle \ {c} : owner'[k] = owner[k] /\ at'[k] = at[k]
    BY DEF IInv, TypeOK, Copy
  <2>2. g # None /\ at[h] = "live"
    BY <1>1, TrackingConstants DEF Copy
  <2> HIDE DEF g
  <2>3. Owned'
    BY <1>1, <2>1, <2>2 DEF IInv, Owned
  <2>4. ASSUME NEW x \in Handle, NEW k \in Handle,
               at'[x] = "notify", owner'[k] = owner'[x], k # x
        PROVE  at'[k] = "settled"
    <3>1. x # c /\ at[x] = "notify" /\ owner'[x] = owner[x]
      BY <2>1, <2>4
    <3>2. x # h /\ owner[x] # g
      BY <1>1, <2>2, <3>1 DEF IInv, NotifierIsLast, g
    <3> QED
      BY <2>1, <2>4, <3>1, <3>2 DEF IInv, NotifierIsLast
  <2> QED
    BY <2>3, <2>4 DEF NotifierIsLast
<1>5. FateIsCounted'
  BY <1>1 DEF IInv, TypeOK, Copy, FateIsCounted
<1>6. ReportedLast' /\ ReportIsTrue'
  BY <1>1, TrackingConstants
     DEF IInv, TypeOK, Copy, ReportedLast, ReportIsTrue, Handles
<1>7. ReportedOnce' /\ ChannelIsQueued' /\ NeverPanics'
  BY DEF IInv, Copy, ReportedOnce, ChannelIsQueued, Queued, Undelivered, NeverPanics
<1> QED
  BY <1>2, <1>3, <1>4, <1>5, <1>6, <1>7 DEF IInv

\* Accept, Reject and Drop up to the decr: the handle keeps its reference.
LEMMA OutcomeStep ==
    ASSUME IInv, NEW h \in Handle, Accept(h) \/ Reject(h) \/ Drop(h)
    PROVE  IInv'
<1> DEFINE g == owner[h]
<1>1. g \in Group /\ status[g] = "tracked" /\ at[h] = "live" /\ fate[h] = "none"
  BY OwnerIsGroup DEF IInv, Accept, Reject, Drop, Owned, FateIsCounted
<1>2. /\ at' = [at EXCEPT ![h] = "decr"]
      /\ UNCHANGED <<rc, owner, status, report, delivered, panicked>>
  BY DEF Accept, Reject, Drop, counters
<1>3. TypeOK'
  <2>1. /\ acceptCount' \in [Group -> Nat] /\ rejectCount' \in [Group -> Nat]
        /\ fate' \in [Handle -> {"none", "accepted", "rejected", "dropped"}]
    <3>1. CASE Accept(h)
      BY <1>1, <3>1 DEF IInv, TypeOK, Accept
    <3>2. CASE Reject(h)
      BY <1>1, <3>2 DEF IInv, TypeOK, Reject
    <3>3. CASE Drop(h)
      BY <1>1, <3>3 DEF IInv, TypeOK, Drop, counters
    <3> QED
      BY <3>1, <3>2, <3>3
  <2> QED
    BY Zenon, <1>2, <2>1 DEF IInv, TypeOK
<1>4. CountsRefs'
  <2>1. \A k \in Group : Refs(k)' = Refs(k)
    BY <1>1, <1>2 DEF IInv, TypeOK, Refs
  <2> QED
    BY <1>2, <2>1 DEF IInv, CountsRefs
<1>5. Owned' /\ NotifierIsLast'
  BY <1>1, <1>2 DEF IInv, TypeOK, Owned, NotifierIsLast
<1>6. FateIsCounted'
  <2>1. CASE Accept(h)
    BY <1>1, <1>2, <2>1 DEF IInv, TypeOK, Accept, FateIsCounted
  <2>2. CASE Reject(h)
    BY <1>1, <1>2, <2>2 DEF IInv, TypeOK, Reject, FateIsCounted
  <2>3. CASE Drop(h)
    BY <1>1, <1>2, <2>3 DEF IInv, TypeOK, Drop, counters, FateIsCounted
  <2> QED
    BY <2>1, <2>2, <2>3
<1>7. ReportedLast' /\ ReportIsTrue'
  <2>1. \A k \in Handle \ {h} : fate'[k] = fate[k] /\ at'[k] = at[k]
    <3>1. CASE Accept(h)
      BY <1>2, <3>1 DEF IInv, TypeOK, Accept
    <3>2. CASE Reject(h)
      BY <1>2, <3>2 DEF IInv, TypeOK, Reject
    <3>3. CASE Drop(h)
      BY <1>2, <3>3 DEF IInv, TypeOK, Drop
    <3> QED
      BY <3>1, <3>2, <3>3
  <2>2. ASSUME NEW k \in Group, status'[k] \in {"queued", "read"}
        PROVE  /\ status[k] \in {"queued", "read"}
               /\ report'[k] = report[k]
               /\ Handles(k)' = Handles(k)
               /\ \A x \in Handles(k) : fate'[x] = fate[x] /\ at'[x] = at[x]
    BY <1>1, <1>2, <2>1, <2>2 DEF Handles
  <2>3. ReportedLast'
    BY <2>2 DEF IInv, ReportedLast
  <2>4. ReportIsTrue'
    BY <2>2 DEF IInv, ReportIsTrue
  <2> QED
    BY <2>3, <2>4
<1>8. ReportedOnce' /\ ChannelIsQueued' /\ NeverPanics'
  BY <1>2 DEF IInv, ReportedOnce, ChannelIsQueued, Queued, Undelivered, NeverPanics
<1> QED
  BY <1>3, <1>4, <1>5, <1>6, <1>7, <1>8 DEF IInv

\* The decr that reaches zero is that of the last handle.
LEMMA DecrStep ==
    ASSUME IInv, NEW h \in Handle, decr(h)
    PROVE  IInv'
<1> DEFINE g == owner[h]
<1>1. g \in Group /\ status[g] = "tracked" /\ at[h] = "decr" /\ h \in Refs(g)
  BY OwnerIsGroup DEF IInv, decr, Owned, Refs
<1>2. rc[g] = Cardinality(Refs(g)) /\ rc[g] \in Nat \ {0}
  <2>1. Cardinality(Refs(g)) # 0
    BY <1>1, Finite, FS_EmptySet
  <2> QED
    BY <1>1, <2>1, Finite DEF IInv, CountsRefs
<1>3. /\ rc' = [rc EXCEPT ![g] = rc[g] - 1]
      /\ at' = [at EXCEPT ![h] = IF rc[g] - 1 = 0 THEN "notify" ELSE "settled"]
      /\ UNCHANGED <<acceptCount, rejectCount, owner, fate, status, report, delivered>>
  BY DEF decr
<1>4. panicked' \in BOOLEAN /\ ~panicked'
  <2>1. ~(rc[g] - 1 < 0)
    BY <1>2
  <2> QED
    BY Zenon, <2>1 DEF decr, IInv, NeverPanics
<1>5. TypeOK'
  BY <1>1, <1>2, <1>3, <1>4 DEF IInv, TypeOK
<1>6. CountsRefs'
  <2>1. Refs(g)' = Refs(g) \ {h}
    BY <1>1, <1>3 DEF IInv, TypeOK, Refs
  <2>2. \A k \in Group \ {g} : Refs(k)' = Refs(k)
    BY <1>1, <1>3 DEF IInv, TypeOK, Refs
  <2>3. Cardinality(Refs(g)') = Cardinality(Refs(g)) - 1
    <3>1. IsFiniteSet(Refs(g))
      BY <1>1, Finite
    <3>2. Cardinality(Refs(g) \ {h}) = Cardinality(Refs(g)) - 1
      <4> HIDE DEF g
      <4> QED
        BY Zenon, <1>1, <3>1, FS_RemoveElement
    <3> QED
      BY <2>1, <3>2
  <2> QED
    BY <1>1, <1>2, <1>3, <2>2, <2>3 DEF IInv, TypeOK, CountsRefs
<1>7. Owned'
  BY <1>1, <1>3 DEF IInv, TypeOK, Owned
<1>8. NotifierIsLast'
  <2>1. \A k \in Handle : owner[k] = g => at[k] # "notify"
    BY <1>1 DEF IInv, NotifierIsLast
  <2>2. ASSUME rc[g] - 1 = 0, NEW k \in Handle, owner[k] = g, k # h
        PROVE  at[k] = "settled"
    <3>0. Cardinality(Refs(g)) = 1
      BY <1>2, <2>2
    <3>1. \E x : Refs(g) = {x}
      BY <3>0, Finite, FS_Singleton, Zenon
    <3>2. k \notin Refs(g)
      BY <1>1, <2>2, <3>1
    <3>3. at[k] # "free"
      BY <1>1, <2>2, TrackingConstants DEF IInv, Owned
    <3> QED
      BY <2>1, <2>2, <3>2, <3>3 DEF IInv, TypeOK, Refs
  <2> QED
    BY <1>1, <1>2, <1>3, <2>1, <2>2 DEF IInv, TypeOK, NotifierIsLast
<1>9. FateIsCounted'
  BY <1>1, <1>3 DEF IInv, TypeOK, FateIsCounted
<1>10. ReportedLast' /\ ReportIsTrue'
  <2>1. ASSUME NEW k \in Group, status'[k] \in {"queued", "read"}
        PROVE  /\ status[k] \in {"queued", "read"}
               /\ report'[k] = report[k]
               /\ Handles(k)' = Handles(k)
               /\ \A x \in Handles(k) : fate'[x] = fate[x] /\ at'[x] = at[x]
    BY <1>1, <1>3, <2>1 DEF Handles, IInv, TypeOK
  <2>2. ReportedLast'
    BY <2>1 DEF IInv, ReportedLast
  <2>3. ReportIsTrue'
    BY <2>1 DEF IInv, ReportIsTrue
  <2> QED
    BY <2>2, <2>3
<1>11. ReportedOnce' /\ ChannelIsQueued' /\ NeverPanics'
  BY <1>3, <1>4 DEF IInv, ReportedOnce, ChannelIsQueued, Queued, Undelivered, NeverPanics
<1> QED
  BY <1>5, <1>6, <1>7, <1>8, <1>9, <1>10, <1>11 DEF IInv

\* The last handle reports the group: all outcomes are counted by then.
LEMMA NotifyHandleStep ==
    ASSUME IInv, NEW h \in Handle, Notify(h)
    PROVE  IInv'
<1> DEFINE g == owner[h]
<1>1. g \in Group /\ status[g] = "tracked" /\ at[h] = "notify"
  BY OwnerIsGroup DEF IInv, Notify, Owned
<1>2. /\ at' = [at EXCEPT ![h] = "settled"]
      /\ UNCHANGED <<rc, acceptCount, rejectCount, owner, fate>>
  BY DEF Notify, counters
<1>3. /\ delivered' \in Seq(Group)
      /\ status' = [status EXCEPT ![g] = "queued"]
      /\ report' = [report EXCEPT ![g] = (rejectCount[g] = 0)]
      /\ NeverPanics' /\ ReportedOnce' /\ ChannelIsQueued'
  <2>1. Undelivered \union {g} = Undelivered
    BY <1>1 DEF Undelivered
  <2>2. rejectCount[g] \in Nat /\ notify(g, rejectCount[g])
    BY <1>1 DEF IInv, TypeOK, Notify
  <2>3. Cardinality(Undelivered \union {g}) <= MaxTracked
    BY Zenon, <2>1 DEF IInv, ChannelIsQueued
  <2> HIDE DEF g
  <2> QED
    BY <1>1, <2>2, <2>3, NotifyStep DEF IInv
<1>4. TypeOK'
  <2>1. panicked' \in BOOLEAN
    BY Zenon DEF Notify, notify, IInv, TypeOK
  <2>2. report' \in [Group -> BOOLEAN]
    BY <1>1, <1>3 DEF IInv, TypeOK
  <2> QED
    BY <1>1, <1>2, <1>3, <2>1, <2>2 DEF IInv, TypeOK
<1>5. CountsRefs'
  <2>1. \A k \in Group : Refs(k)' = Refs(k)
    BY <1>1, <1>2 DEF IInv, TypeOK, Refs
  <2> QED
    BY <1>2, <2>1 DEF IInv, CountsRefs
<1>6. \A k \in Handle : owner[k] = g => at'[k] = "settled"
  BY <1>1, <1>2 DEF IInv, TypeOK, NotifierIsLast
<1>7. Owned'
  BY <1>1, <1>2, <1>3, <1>6 DEF IInv, TypeOK, Owned
<1>8. NotifierIsLast' /\ FateIsCounted'
  BY <1>1, <1>2 DEF IInv, TypeOK, NotifierIsLast, FateIsCounted
<1>9. ReportedLast'
  BY <1>1, <1>2, <1>3, <1>6 DEF IInv, TypeOK, ReportedLast, Handles
<1>10. ReportIsTrue'
  <2>1. ASSUME NEW k \in Group, status'[k] \in {"queued", "read"}
        PROVE  report'[k] <=> \A x \in Handle : owner'[x] = k => fate'[x] # "rejected"
    <3>1. CASE k = g
      <4>1. report'[k] <=> rejectCount[k] = 0
        BY Zenon, <1>1, <1>3, <3>1 DEF IInv, TypeOK
      <4> QED
        BY <1>2, <4>1 DEF IInv, FateIsCounted
    <3>2. CASE k # g
      <4>1. status[k] \in {"queued", "read"} /\ report'[k] = report[k]
        BY <1>1, <1>3, <2>1, <3>2 DEF IInv, TypeOK
      <4> QED
        BY <1>2, <4>1 DEF IInv, ReportIsTrue, Handles
    <3> QED
      BY <3>1, <3>2
  <2> QED
    BY <2>1 DEF ReportIsTrue, Handles
<1> QED
  BY <1>3, <1>4, <1>5, <1>7, <1>8, <1>9, <1>10 DEF IInv

LEMMA ReceiveStep ==
    ASSUME IInv, Receive
    PROVE  IInv'
<1> DEFINE g == Head(delivered)
<1>1. /\ delivered \in Seq(Group) /\ delivered # <<>>
      /\ delivered' = Tail(delivered)
      /\ status' = [status EXCEPT ![g] = "read"]
      /\ UNCHANGED <<rc, acceptCount, rejectCount, owner, at, fate, report, panicked>>
  BY DEF Receive, IInv, TypeOK, counters
<1>2. /\ g \in Group /\ delivered' \in Seq(Group)
      /\ Len(delivered) \in Nat \ {0} /\ Len(delivered') = Len(delivered) - 1
      /\ \A i \in 1 .. Len(delivered') : delivered'[i] = delivered[i + 1]
      /\ DOMAIN delivered = 1 .. Len(delivered)
      /\ DOMAIN delivered' = 1 .. Len(delivered')
      /\ g = delivered[1]
  <2>1. g \in Group /\ delivered' \in Seq(Group)
    BY <1>1, HeadTailProperties
  <2>2. Len(delivered) \in Nat \ {0}
    BY <1>1, EmptySeq
  <2>3. /\ Len(delivered') = Len(delivered) - 1
        /\ \A i \in 1 .. Len(delivered') : delivered'[i] = delivered[i + 1]
    BY <1>1, HeadTailProperties
  <2>4. DOMAIN delivered = 1 .. Len(delivered) /\ DOMAIN delivered' = 1 .. Len(delivered')
    BY <1>1, <2>1, LenProperties
  <2> QED
    BY <1>1, <2>1, <2>2, <2>3, <2>4
<1>3. status[g] = "queued"
  BY <1>2 DEF IInv, ReportedOnce
<1>4. TypeOK'
  BY <1>1, <1>2 DEF IInv, TypeOK
<1>5. CountsRefs' /\ NotifierIsLast' /\ FateIsCounted' /\ NeverPanics'
  BY <1>1 DEF IInv, CountsRefs, Refs, NotifierIsLast, FateIsCounted, NeverPanics
<1>6. Owned'
  BY <1>1, <1>2, <1>3 DEF IInv, TypeOK, Owned
<1>7. ReportedLast' /\ ReportIsTrue'
  <2>1. \A k \in Group : status'[k] \in {"queued", "read"} => status[k] \in {"queued", "read"}
    BY <1>1, <1>2, <1>3 DEF IInv, TypeOK
  <2> QED
    BY <1>1, <2>1 DEF IInv, ReportedLast, ReportIsTrue, Handles
<1>8. ReportedOnce'
  <2>1. ASSUME NEW i \in DOMAIN delivered', NEW j \in DOMAIN delivered',
               delivered'[i] = delivered'[j]
        PROVE  i = j
    <3>1. /\ i \in Int /\ j \in Int
          /\ i + 1 \in DOMAIN delivered /\ j + 1 \in DOMAIN delivered
          /\ delivered[i + 1] = delivered[j + 1]
      BY <1>2, <2>1
    <3>2. i + 1 = j + 1
      BY <3>1 DEF IInv, ReportedOnce
    <3> QED
      BY <3>1, <3>2
  <2>2. ASSUME NEW i \in DOMAIN delivered' PROVE status'[delivered'[i]] = "queued"
    <3>1. i + 1 \in DOMAIN delivered /\ delivered'[i] = delivered[i + 1] /\ i + 1 # 1
      BY <1>2, <2>2
    <3>2. delivered[i + 1] # g /\ status[delivered[i + 1]] = "queued"
      BY <1>2, <3>1 DEF IInv, ReportedOnce
    <3>3. delivered[i + 1] \in Group
      BY <1>1, <1>2, <3>1, ElementOfSeq
    <3> QED
      BY <1>1, <3>1, <3>2, <3>3 DEF IInv, TypeOK
  <2> QED
    BY <2>1, <2>2 DEF ReportedOnce
<1>9. ChannelIsQueued'
  <2>1. Queued' = Queued \ {g} /\ g \in Queued
    BY <1>1, <1>2, <1>3 DEF IInv, TypeOK, Queued
  <2>2. Undelivered' \subseteq Undelivered
    BY <1>1, <1>2 DEF IInv, TypeOK, Undelivered
  <2>3. Cardinality(Queued') = Cardinality(Queued) - 1
    BY Zenon, <2>1, Finite, FS_RemoveElement
  <2>4. Cardinality(Undelivered') <= Cardinality(Undelivered) /\ Cardinality(Undelivered') \in Nat
    BY <2>2, Finite, FS_Subset, FS_CardinalityType
  <2> QED
    BY <1>2, <2>3, <2>4, Finite, TrackingConstants DEF IInv, ChannelIsQueued
<1> QED
  BY <1>4, <1>5, <1>6, <1>7, <1>8, <1>9 DEF IInv

LEMMA AddStep ==
    ASSUME IInv, NEW g \in Group, NEW H \in SUBSET Handle, AddTrackingMetricGroup(g, H)
    PROVE  IInv'
<1>1. /\ status[g] = "new" /\ rc' = [rc EXCEPT ![g] = Cardinality(H)]
      /\ owner' = [h \in Handle |-> IF h \in H THEN g ELSE owner[h]]
      /\ at' = [h \in Handle |-> IF h \in H THEN "live" ELSE at[h]]
      /\ UNCHANGED <<acceptCount, rejectCount, fate>>
  BY DEF AddTrackingMetricGroup
<1>2. \A h \in Handle : owner[h] # g
  BY <1>1, TrackingConstants DEF IInv, Owned, TypeOK
<1>3. \A h \in H : at[h] = "free" /\ owner[h] = None /\ fate[h] = "none"
  BY DEF AddTrackingMetricGroup, IInv, Owned, FateIsCounted
<1>4. IsFiniteSet(H) /\ Cardinality(H) \in Nat
  BY TrackingConstants, FS_Subset, FS_CardinalityType
<1>5. Cardinality(Undelivered \union {g}) <= MaxTracked
  <2>1. g \notin Undelivered
    BY <1>1 DEF Undelivered
  <2>2. Cardinality(Undelivered \union {g}) = Cardinality(Undelivered) + 1
    BY Zenon, <2>1, Finite, FS_AddElement
  <2> QED
    BY <2>2, Finite, TrackingConstants DEF AddTrackingMetricGroup
<1>6. /\ status' = [status EXCEPT ![g] = IF H = {} THEN "queued" ELSE "tracked"]
      /\ report' = [report EXCEPT ![g] = IF H = {} THEN TRUE ELSE report[g]]
      /\ delivered' \in Seq(Group)
      /\ NeverPanics' /\ panicked' \in BOOLEAN
      /\ ReportedOnce' /\ ChannelIsQueued'
  <2>1. CASE H = {}
    <3>1. notify(g, 0)
      BY <2>1 DEF AddTrackingMetricGroup
    <3>2. /\ delivered' \in Seq(Group) /\ status' = [status EXCEPT ![g] = "queued"]
          /\ report' = [report EXCEPT ![g] = (0 = 0)]
          /\ NeverPanics' /\ ReportedOnce' /\ ChannelIsQueued'
      BY <1>1, <1>5, <3>1, NotifyStep DEF IInv
    <3>3. panicked' \in BOOLEAN
      BY Zenon, <3>1 DEF notify, IInv, TypeOK
    <3> QED
      BY Zenon, <2>1, <3>2, <3>3
  <2>2. CASE H # {}
    <3>1. /\ status' = [status EXCEPT ![g] = "tracked"]
          /\ UNCHANGED <<report, delivered, panicked>>
      BY <2>2 DEF AddTrackingMetricGroup
    <3>2. ReportedOnce'
      <4>1. \A i \in DOMAIN delivered : delivered[i] \in Group /\ delivered[i] # g
        <5>1. \A i \in DOMAIN delivered : delivered[i] \in Group
          BY ElementOfSeq, LenProperties DEF IInv, TypeOK
        <5> QED
          BY <1>1, <5>1 DEF IInv, ReportedOnce
      <4> QED
        BY <3>1, <4>1 DEF IInv, TypeOK, ReportedOnce
    <3>3. Queued' = Queued /\ Undelivered' = Undelivered \union {g}
      BY <1>1, <3>1 DEF IInv, TypeOK, Queued, Undelivered
    <3>4. report' = [report EXCEPT ![g] = report[g]]
      BY <3>1 DEF IInv, TypeOK
    <3>5. panicked' \in BOOLEAN /\ NeverPanics' /\ delivered' \in Seq(Group)
      BY <3>1 DEF IInv, TypeOK, NeverPanics
    <3>6. ChannelIsQueued'
      BY <1>5, <3>1, <3>3 DEF IInv, ChannelIsQueued
    <3> QED
      BY Zenon, <2>2, <3>1, <3>2, <3>4, <3>5, <3>6
  <2> QED
    BY Zenon, <2>1, <2>2
<1>7. TypeOK'
  <2>1. report' \in [Group -> BOOLEAN]
    BY Zenon, <1>6 DEF IInv, TypeOK
  <2>2. status' \in [Group -> {"new", "tracked", "queued", "read"}]
    BY <1>6 DEF IInv, TypeOK
  <2>3. rc' \in [Group -> Nat]
    BY <1>1, <1>4 DEF IInv, TypeOK
  <2>4. /\ owner' \in [Handle -> Group \union {None}]
        /\ at' \in [Handle -> {"free", "live", "decr", "notify", "settled"}]
    BY <1>1 DEF IInv, TypeOK
  <2> QED
    BY Zenon, <1>1, <1>6, <2>1, <2>2, <2>3, <2>4 DEF IInv, TypeOK
<1>8. CountsRefs'
  <2>1. Refs(g)' = H
    BY <1>1, <1>2, <1>3 DEF Refs
  <2>2. \A k \in Group \ {g} : Refs(k)' = Refs(k)
    BY <1>1, <1>3, TrackingConstants DEF Refs
  <2> QED
    BY <1>1, <2>1, <2>2 DEF IInv, TypeOK, CountsRefs
<1>9. Owned'
  BY <1>1, <1>2, <1>3, <1>6, TrackingConstants DEF IInv, TypeOK, Owned
<1>10. NotifierIsLast'
  BY <1>1, <1>2, <1>3, TrackingConstants DEF IInv, TypeOK, NotifierIsLast
<1>11. FateIsCounted'
  BY <1>1, <1>2, <1>3, TrackingConstants DEF IInv, TypeOK, FateIsCounted
<1>12. ReportedLast'
  BY <1>1, <1>2, <1>3, <1>6, TrackingConstants DEF IInv, TypeOK, ReportedLast, Handles
<1>13. ReportIsTrue'
  <2>1. ASSUME NEW k \in Group, status'[k] \in {"queued", "read"}
        PROVE  report'[k] <=> \A x \in Handle : owner'[x] = k => fate'[x] # "rejected"
    <3>1. CASE k = g
      <4>1. H = {} /\ report'[k]
        BY <1>6, <2>1, <3>1 DEF IInv, TypeOK
      <4>2. \A x \in Handle : owner'[x] # k
        BY <1>1, <1>2, <3>1, <4>1
      <4> QED
        BY <4>1, <4>2
    <3>2. CASE k # g
      <4>1. status[k] \in {"queued", "read"} /\ report'[k] = report[k]
        BY <1>6, <2>1, <3>2 DEF IInv, TypeOK
      <4>2. \A x \in Handle : owner'[x] = k <=> owner[x] = k
        BY <1>1, <1>3, <3>2, TrackingConstants
      <4> QED
        BY <1>1, <4>1, <4>2 DEF IInv, ReportIsTrue, Handles
    <3> QED
      BY <3>1, <3>2
  <2> QED
    BY <2>1 DEF ReportIsTrue, Handles
<1> QED
  BY <1>6, <1>7, <1>8, <1>9, <1>10, <1>11, <1>12, <1>13 DEF IInv

-----------------------------------------------------------------------------
LEMMA Inductive == Spec => []IInv
<1>1. IInv /\ [Next]_vars => IInv'
  <2> SUFFICES ASSUME IInv, [Next]_vars PROVE IInv'
    OBVIOUS
  <2>1. CASE \E g \in Group, H \in SUBSET Handle : AddTrackingMetricGroup(g, H)
    BY <2>1, AddStep
  <2>2. CASE \E h, c \in Handle : Copy(h, c)
    BY <2>2, CopyStep
  <2>3. CASE \E h \in Handle : Settle(h)
    BY <2>3, OutcomeStep, DecrStep, NotifyHandleStep DEF Settle
  <2>4. CASE Receive
    BY <2>4, ReceiveStep
  <2>5. CASE UNCHANGED vars
    <3>1. TypeOK' /\ NeverPanics'
      BY <2>5 DEF vars, counters, IInv, TypeOK, NeverPanics
    <3>2. CountsRefs' /\ Owned' /\ NotifierIsLast' /\ FateIsCounted'
      BY <2>5 DEF vars, counters, IInv, CountsRefs, Refs, Owned,
                  NotifierIsLast, FateIsCounted
    <3>3. ReportedLast' /\ ReportedOnce' /\ ChannelIsQueued'
      BY <2>5 DEF vars, IInv, ReportedLast, Handles, ReportedOnce,
                  ChannelIsQueued, Queued, Undelivered
    <3>4. ReportIsTrue'
      BY <2>5 DEF vars, IInv, ReportIsTrue, Handles
    <3> QED
      BY <3>1, <3>2, <3>3, <3>4 DEF IInv
  <2> QED
    BY <2>1, <2>2, <2>3, <2>4, <2>5 DEF Next
<1> QED
  BY <1>1, InitIInv, PTL DEF Spec

\* The tracking code's counters, handles and channel keep their types.
THEOREM TypeCorrect == Spec => []TypeOK
BY Inductive, PTL DEF IInv

\* Neither "negative refcount" nor "channel is full" can be reached, whatever
\* the copies, the goroutines and the order they settle in.
THEOREM NoPanic == Spec => []NeverPanics
BY Inductive, PTL DEF IInv

\* A group is reported at most once, after all its handles are settled, and the
\* report says whether one of them was rejected.
THEOREM ReportsAreRight == Spec => []ReportsRight
BY Inductive, PTL DEF IInv, ReportsRight
=============================================================================
