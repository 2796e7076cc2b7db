------------------------------ MODULE Tracking ------------------------------
(***************************************************************************)
(* Delivery tracking: an input adds a group of metrics and is told, once,  *)
(* whether the group was delivered when every metric of it and every copy  *)
(* made on the way is settled (metric/tracking.go and the tracking part of *)
(* agent/accumulator.go).                                                  *)
(*                                                                         *)
(* A handle is one trackingMetric.  Handles of a group are settled by      *)
(* different goroutines (filters, processors, the buffers of the outputs), *)
(* so the accesses to the shared counters are steps of their own.          *)
(***************************************************************************)
EXTENDS Integers, Sequences, FiniteSets

CONSTANTS
    Group,      \* tracking ids
    Handle,     \* the trackingMetric objects that can be made
    MaxTracked, \* capacity of the Delivered() channel
    None        \* no group

ASSUME TrackingConstants ==
    /\ IsFiniteSet(Group)
    /\ IsFiniteSet(Handle)
    /\ MaxTracked \in Nat
    /\ None \notin Group

VARIABLES
    rc, acceptCount, rejectCount,  \* the counters of each group's trackingData
    owner,      \* owner[h]: the group whose trackingData the handle points to
    at,         \* at[h]: where the handle's life is
    fate,       \* fate[h]: the call that settled it
    status,     \* status[g]: what the input knows of the group
    report,     \* report[g]: the Delivered() of the group's DeliveryInfo
    delivered,  \* the channel of DeliveryInfo
    panicked    \* "negative refcount" or "channel is full"

counters == <<rc, acceptCount, rejectCount>>
vars == <<counters, owner, at, fate, status, report, delivered, panicked>>

Init ==
    /\ rc = [g \in Group |-> 0]
    /\ acceptCount = [g \in Group |-> 0]
    /\ rejectCount = [g \in Group |-> 0]
    /\ owner = [h \in Handle |-> None]
    /\ at = [h \in Handle |-> "free"]
    /\ fate = [h \in Handle |-> "none"]
    /\ status = [g \in Group |-> "new"]
    /\ report = [g \in Group |-> FALSE]
    /\ delivered = <<>>
    /\ panicked = FALSE

\* The groups whose result the input has not read.
Undelivered == {g \in Group : status[g] \in {"tracked", "queued"}}

\* notify: onDelivery sends the group's counts on the channel, which must have
\* room.
notify(g, rejects) ==
    IF Len(delivered) < MaxTracked
    THEN /\ delivered' = Append(delivered, g)
         /\ status' = [status EXCEPT ![g] = "queued"]
         /\ report' = [report EXCEPT ![g] = rejects = 0]
         /\ UNCHANGED panicked
    ELSE /\ panicked' = TRUE
         /\ UNCHANGED <<delivered, status, report>>

\* Mutant: an empty group is not notified.
AddTrackingMetricGroupSilent(g, H) ==
    /\ status[g] = "new"
    /\ \A h \in H : at[h] = "free"
    /\ Cardinality(Undelivered) < MaxTracked
    /\ rc' = [rc EXCEPT ![g] = Cardinality(H)]
    /\ owner' = [h \in Handle |-> IF h \in H THEN g ELSE owner[h]]
    /\ at' = [h \in Handle |-> IF h \in H THEN "live" ELSE at[h]]
    /\ status' = [status EXCEPT ![g] = "tracked"]
    /\ UNCHANGED <<acceptCount, rejectCount, fate, report, delivered, panicked>>

\* AddTrackingMetricGroup (AddTrackingMetric is a group of one).  The input
\* keeps to the contract of TrackingAccumulator: no more groups than the
\* accumulator was allocated for are unread.  An empty group is notified here.
AddTrackingMetricGroup(g, H) ==
    /\ status[g] = "new"
    /\ \A h \in H : at[h] = "free"
    /\ Cardinality(Undelivered) < MaxTracked
    /\ rc' = [rc EXCEPT ![g] = Cardinality(H)]
    /\ owner' = [h \in Handle |-> IF h \in H THEN g ELSE owner[h]]
    /\ at' = [h \in Handle |-> IF h \in H THEN "live" ELSE at[h]]
    /\ IF H = {}
       THEN notify(g, 0)
       ELSE /\ status' = [status EXCEPT ![g] = "tracked"]
            /\ UNCHANGED <<report, delivered, panicked>>
    /\ UNCHANGED <<acceptCount, rejectCount, fate>>

\* Mutant: the copy is not counted.
CopyUncounted(h, c) ==
    /\ at[h] = "live" /\ at[c] = "free"
    /\ owner' = [owner EXCEPT ![c] = owner[h]]
    /\ at' = [at EXCEPT ![c] = "live"]
    /\ UNCHANGED <<counters, fate, status, report, delivered, panicked>>

\* Copy of handle h, for another output or by a processor.
Copy(h, c) ==
    /\ at[h] = "live" /\ at[c] = "free"
    /\ rc' = [rc EXCEPT ![owner[h]] = @ + 1]
    /\ owner' = [owner EXCEPT ![c] = owner[h]]
    /\ at' = [at EXCEPT ![c] = "live"]
    /\ UNCHANGED <<acceptCount, rejectCount, fate, status, report, delivered,
                   panicked>>

\* Accept and Reject first count the outcome; Drop has none to count.  Then all
\* three give up the reference.
Accept(h) ==
    /\ at[h] = "live"
    /\ acceptCount' = [acceptCount EXCEPT ![owner[h]] = @ + 1]
    /\ fate' = [fate EXCEPT ![h] = "accepted"]
    /\ at' = [at EXCEPT ![h] = "decr"]
    /\ UNCHANGED <<rc, rejectCount, owner, status, report, delivered, panicked>>

Reject(h) ==
    /\ at[h] = "live"
    /\ rejectCount' = [rejectCount EXCEPT ![owner[h]] = @ + 1]
    /\ fate' = [fate EXCEPT ![h] = "rejected"]
    /\ at' = [at EXCEPT ![h] = "decr"]
    /\ UNCHANGED <<rc, acceptCount, owner, status, report, delivered, panicked>>

Drop(h) ==
    /\ at[h] = "live"
    /\ fate' = [fate EXCEPT ![h] = "dropped"]
    /\ at' = [at EXCEPT ![h] = "decr"]
    /\ UNCHANGED <<counters, owner, status, report, delivered, panicked>>

\* Mutant: the last reference but one already notifies.
decrEarly(h) ==
    LET v == rc[owner[h]] - 1
    IN  /\ at[h] = "decr"
        /\ rc' = [rc EXCEPT ![owner[h]] = v]
        /\ at' = [at EXCEPT ![h] = IF v <= 1 THEN "notify" ELSE "settled"]
        /\ panicked' = (panicked \/ v < 0)
        /\ UNCHANGED <<acceptCount, rejectCount, owner, fate, status, report,
                       delivered>>

decr(h) ==
    LET v == rc[owner[h]] - 1
    IN  /\ at[h] = "decr"
        /\ rc' = [rc EXCEPT ![owner[h]] = v]
        /\ at' = [at EXCEPT ![h] = IF v = 0 THEN "notify" ELSE "settled"]
        /\ panicked' = (panicked \/ v < 0)
        /\ UNCHANGED <<acceptCount, rejectCount, owner, fate, status, report,
                       delivered>>

\* The goroutine whose decr reached zero calls notify, which reads the counts.
Notify(h) ==
    /\ at[h] = "notify"
    /\ at' = [at EXCEPT ![h] = "settled"]
    /\ notify(owner[h], rejectCount[owner[h]])
    /\ UNCHANGED <<counters, owner, fate>>

\* The input receives from Delivered().
Receive ==
    /\ delivered # <<>>
    /\ status' = [status EXCEPT ![Head(delivered)] = "read"]
    /\ delivered' = Tail(delivered)
    /\ UNCHANGED <<counters, owner, at, fate, report, panicked>>

Settle(h) == Accept(h) \/ Reject(h) \/ Drop(h) \/ decr(h) \/ Notify(h)

Next ==
    \/ \E g \in Group, H \in SUBSET Handle : AddTrackingMetricGroup(g, H)
    \/ \E h, c \in Handle : Copy(h, c)
    \/ \E h \in Handle : Settle(h)
    \/ Receive

Spec == Init /\ [][Next]_vars

\* The pipeline settles every metric it holds (module Buffer) and the input
\* reads its results.
Fairness == (\A h \in Handle : WF_vars(Settle(h))) /\ WF_vars(Receive)

FairSpec == Spec /\ Fairness

-----------------------------------------------------------------------------
TypeOK ==
    /\ rc \in [Group -> Nat]
    /\ acceptCount \in [Group -> Nat] /\ rejectCount \in [Group -> Nat]
    /\ owner \in [Handle -> Group \union {None}]
    /\ at \in [Handle -> {"free", "live", "decr", "notify", "settled"}]
    /\ fate \in [Handle -> {"none", "accepted", "rejected", "dropped"}]
    /\ status \in [Group -> {"new", "tracked", "queued", "read"}]
    /\ report \in [Group -> BOOLEAN]
    /\ delivered \in Seq(Group)
    /\ panicked \in BOOLEAN

\* Neither panic of the tracking code is reachable: no reference count becomes
\* negative, and the channel has room for every result as long as the input
\* keeps to the contract of TrackingAccumulator.
NeverPanics == ~panicked

\* The handles of group g.
Handles(g) == {h \in Handle : owner[h] = g}

\* A group is reported after its last handle, copies included, is settled.
ReportedLast ==
    \A g \in Group : status[g] \in {"queued", "read"} =>
        \A h \in Handles(g) : at[h] = "settled"

\* The report is the truth: the group counts as delivered exactly when no
\* handle of it was rejected, although each count was made by another goroutine.
ReportIsTrue ==
    \A g \in Group : status[g] \in {"queued", "read"} =>
        (report[g] <=> \A h \in Handles(g) : fate[h] # "rejected")

\* A group is reported at most once: what has been put on the channel is there
\* once, and what the input has read is never there again.
ReportedOnce ==
    /\ \A i, j \in DOMAIN delivered : delivered[i] = delivered[j] => i = j
    /\ \A i \in DOMAIN delivered : status[delivered[i]] = "queued"

\* What Delivered() returns of a group is its one and final status.
ReportsRight == ReportedLast /\ ReportIsTrue /\ ReportedOnce

\* "The Delivered() channel will return a type with information about the final
\* delivery status of the metric group": every group is reported in the end.
EveryGroupReported ==
    \A g \in Group : status[g] = "tracked" ~> status[g] = "read"
=============================================================================
