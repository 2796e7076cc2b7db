---------------------------- MODULE MetricQueue ----------------------------
(***************************************************************************)
(* What the metric buffer of an output promises: the unsent metrics form a *)
(* queue of at most Cap, oldest first.  Batch takes the newest ones out; a *)
(* rejected batch goes back to where it was; what exceeds Cap is dropped,  *)
(* the oldest first.                                                       *)
(***************************************************************************)
EXTENDS Integers, Sequences

CONSTANTS Cap, BatchLimit, MaxMetrics

VARIABLES
    older,     \* the metrics older than the outstanding batch
    batch,     \* the outstanding batch, newest first
    newer,     \* the metrics added since; all of them when there is no batch
    added,     \* the number of metrics added, and the newest metric
    accepted,  \* the metrics written
    rejected   \* the metrics dropped

queueVars == <<older, batch, newer, added, accepted, rejected>>

Reversed(s) == [i \in 1 .. Len(s) |-> s[Len(s) + 1 - i]]
Newest(s, n) == SubSeq(s, Len(s) - n + 1, Len(s))
AllBut(s, n) == SubSeq(s, 1, Len(s) - n)
Members(s) == {s[i] : i \in DOMAIN s}
Least(a, b) == IF a < b THEN a ELSE b

Init ==
    /\ older = <<>> /\ batch = <<>> /\ newer = <<>>
    /\ added = 0
    /\ accepted = {} /\ rejected = {}

\* A metric joins the newest end; a full queue loses its oldest metric.
Add ==
    /\ added < MaxMetrics
    /\ added' = added + 1
    /\ IF Len(older) + Len(newer) < Cap
       THEN /\ newer' = Append(newer, added + 1)
            /\ UNCHANGED <<older, rejected>>
       ELSE /\ rejected' = rejected \union {Head(older \o newer)}
            /\ older' = IF older = <<>> THEN older ELSE Tail(older)
            /\ newer' = Append(IF older = <<>> THEN Tail(newer) ELSE newer,
                               added + 1)
    /\ UNCHANGED <<batch, accepted>>

Batch ==
    LET n == Least(Len(newer), BatchLimit)
    IN  /\ batch = <<>>
        /\ n > 0
        /\ batch' = Reversed(Newest(newer, n))
        /\ older' = AllBut(newer, n)
        /\ newer' = <<>>
        /\ UNCHANGED <<added, accepted, rejected>>

Accept ==
    /\ batch # <<>>
    /\ accepted' = accepted \union Members(batch)
    /\ newer' = older \o newer
    /\ older' = <<>> /\ batch' = <<>>
    /\ UNCHANGED <<added, rejected>>

Reject ==
    LET all == older \o Reversed(batch) \o newer
        keep == Least(Len(all), Cap)
    IN  /\ batch # <<>>
        /\ newer' = Newest(all, keep)
        /\ rejected' = rejected \union Members(AllBut(all, keep))
        /\ older' = <<>> /\ batch' = <<>>
        /\ UNCHANGED <<added, accepted>>

Next == Add \/ Batch \/ Accept \/ Reject

Spec == Init /\ [][Next]_queueVars
=============================================================================
