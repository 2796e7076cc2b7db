------------------------------- MODULE Buffer -------------------------------
(***************************************************************************)
(* The metric buffer of one output, internal/models/buffer.go: a ring of   *)
(* Cap slots.  The newest metrics are taken out as a batch, newest first;  *)
(* while the output writes the batch other metrics may be added; the batch *)
(* is then accepted (written) or rejected (put back).                      *)
(*                                                                         *)
(* Every operation holds the buffer's mutex, so it is one step.  A metric  *)
(* is the number of its Add, so the smaller of two metrics is the older.   *)
(***************************************************************************)
EXTENDS Integers, Sequences, FiniteSets

CONSTANTS
    Cap,         \* metric_buffer_limit, the cap of NewBuffer
    BatchLimit,  \* metric_batch_size, the argument of Batch
    MaxMetrics,  \* bound: how many metrics are ever added
    MaxBurst     \* bound: how many are added while one batch is outstanding

ASSUME BufferConstants ==
    /\ Cap \in Nat \ {0}
    /\ BatchLimit \in Nat \ {0}
    /\ MaxMetrics \in Nat
    /\ MaxBurst \in Nat

Nil == 0
Metric == 1 .. MaxMetrics
Slot == 0 .. Cap - 1

VARIABLES
    buf, first, last, size, batchFirst, batchSize,  \* the struct's fields
    batch,      \* the slice the flusher got from Batch; empty when none
    burst,      \* metrics added since that Batch
    added,      \* the statistic metrics_added
    accepted,   \* accepted[m]: how many times metricWritten(m) was called
    rejected,   \* rejected[m]: how many times metricDropped(m) was called
    bufferSize, \* the statistic buffer_size
    panicked    \* a method was called on a nil metric

ring == <<buf, first, last, size, batchFirst, batchSize>>
stats == <<added, accepted, rejected, bufferSize, panicked>>
bufferVars == <<ring, batch, burst, stats>>

min(a, b) == IF b < a THEN b ELSE a

dist(begin, end) == IF begin <= end THEN end - begin ELSE Cap - begin + end

next(index) == IF index + 1 = Cap THEN 0 ELSE index + 1

nextby(index, count) == (index + count) % Cap

\* prev, count times, for a count of at most Cap.
prevby(index, count) == IF count <= index THEN index - count
                                          ELSE Cap + index - count

length == min(size + batchSize, Cap)

\* How many prev steps lead from index back to slot: 1 .. Cap, never 0.
StepsBack(index, slot) == IF slot = index THEN Cap ELSE dist(slot, index)

-----------------------------------------------------------------------------
\* NewBuffer
BufferInit ==
    /\ buf = [i \in Slot |-> Nil]
    /\ first = 0 /\ last = 0 /\ size = 0
    /\ batchFirst = 0 /\ batchSize = 0
    /\ batch = <<>>
    /\ burst = 0
    /\ added = 0
    /\ accepted = [m \in Metric |-> 0]
    /\ rejected = [m \in Metric |-> 0]
    /\ bufferSize = 0
    /\ panicked = FALSE

\* metricWritten on each metric of S, metricDropped on each metric of S: a
\* method call on a nil metric panics.
metricsWritten(S) ==
    /\ accepted' = [m \in Metric |-> accepted[m] + (IF m \in S THEN 1 ELSE 0)]
    /\ panicked' = (panicked \/ Nil \in S)

metricsDropped(S) ==
    /\ rejected' = [m \in Metric |-> rejected[m] + (IF m \in S THEN 1 ELSE 0)]
    /\ panicked' = (panicked \/ Nil \in S)

\* Mutant: add does not notice that it overruns the batch.
overBatchUnnoticed == FALSE

\* A full ring is about to overwrite the first slot the batch came from.
overBatch == size = Cap /\ last = batchFirst /\ batchSize > 0

\* Add of one metric.
Add ==
    LET full == size = Cap
    IN  /\ added < MaxMetrics
        /\ batch # <<>> => burst < MaxBurst
        /\ metricsDropped(IF full THEN {buf[last]} ELSE {})
        /\ batchSize' = IF overBatch THEN batchSize - 1 ELSE batchSize
        /\ batchFirst' = IF overBatch THEN next(batchFirst) ELSE batchFirst
        /\ added' = added + 1
        /\ buf' = [buf EXCEPT ![last] = added + 1]
        /\ last' = next(last)
        /\ first' = IF full THEN next(first) ELSE first
        /\ size' = min(size + 1, Cap)
        /\ bufferSize' = length'
        /\ burst' = IF batch = <<>> THEN 0 ELSE burst + 1
        /\ UNCHANGED <<batch, accepted>>

\* Batch(n) when there is something to take; the taken slots become nil.
Batch(n) ==
    LET outLen == min(size, n)
        from == (Cap + last - outLen) % Cap
    IN  /\ batch = <<>>
        /\ outLen > 0
        /\ batchFirst' = from
        /\ batchSize' = outLen
        /\ batch' = [i \in 1 .. outLen |-> buf[prevby(last, i)]]
        /\ buf' = [s \in Slot |-> IF StepsBack(last, s) <= outLen THEN Nil
                                                                  ELSE buf[s]]
        /\ last' = from
        /\ size' = size - outLen
        /\ burst' = 0
        /\ UNCHANGED <<first, stats>>

Elements(s) == {s[i] : i \in DOMAIN s}

\* Mutant: the size of the batch is not reset.
resetBatchFirst == batchFirst' = 0 /\ UNCHANGED batchSize

resetBatch ==
    /\ batchFirst' = 0
    /\ batchSize' = 0

\* Accept(batch): every metric of the batch was written.
Accept ==
    /\ batch # <<>>
    /\ metricsWritten(Elements(batch))
    /\ resetBatch
    /\ batch' = <<>>
    /\ burst' = 0
    /\ UNCHANGED <<buf, first, last, size, added, rejected>>
    /\ bufferSize' = length'

-----------------------------------------------------------------------------
\* Reject(batch).  Its first loop walks back from last to batchFirst and moves
\* each newer metric forward by restore slots, dropping what it lands on.
\* Step t of the loop moves slot prevby(last, t) to slot prevby(end, t).

\* Mutant: the room that dropping the older metrics makes is not used.
restoreIntoFree == min(Len(batch), Cap - size)

restore == min(Len(batch), Cap - size + dist(first, batchFirst))

end == nextby(last, restore)

moves == IF end = last THEN 0 ELSE dist(batchFirst, last)

\* Mutant: the loop overwrites without dropping.
landingsIgnored == {}

\* The metrics the loop lands on.  Beyond step `restore' the target is a slot
\* an earlier step has emptied.
landings == {t \in 1 .. min(moves, restore) : buf[prevby(end, t)] # Nil}

\* Mutant: every step moves what its source held before the loop.
rotatedOnce ==
    [s \in Slot |->
        LET target == StepsBack(end, s)
            source == StepsBack(last, s)
        IN  IF target <= moves /\ (source > moves \/ source < target)
            THEN buf[prevby(last, target)]
            ELSE IF source <= moves THEN Nil ELSE buf[s]]

\* The ring when the loop ends.  A slot holds what the step that targets it
\* moved there unless a later step moves it on; with more than Cap - restore
\* steps a step moves what an earlier one has put there, hence the modulus.
rotated ==
    [s \in Slot |->
        LET target == StepsBack(end, s)
            source == StepsBack(last, s)
        IN  IF target <= moves /\ (source > moves \/ source < target)
            THEN buf[prevby(last, 1 + ((target - 1) % (Cap - restore)))]
            ELSE IF source <= moves THEN Nil ELSE buf[s]]

\* Its second loop copies the newest `restore' metrics of the batch below the
\* moved ones and drops the others.
Reject ==
    LET re == prevby(end, moves)
    IN  /\ batch # <<>>
        /\ buf' = [s \in Slot |->
                     IF StepsBack(re, s) <= restore THEN batch[StepsBack(re, s)]
                                                    ELSE rotated[s]]
        /\ first' = nextby(first, Cardinality(landings))
        /\ last' = end
        /\ size' = min(size + restore, Cap)
        /\ metricsDropped({buf[prevby(end, t)] : t \in landings}
                            \union {batch[i] : i \in restore + 1 .. Len(batch)})
        /\ resetBatch
        /\ bufferSize' = length'
        /\ batch' = <<>>
        /\ burst' = 0
        /\ UNCHANGED <<added, accepted>>

Next == Add \/ Batch(BatchLimit) \/ Accept \/ Reject

Spec == BufferInit /\ [][Next]_bufferVars

-----------------------------------------------------------------------------
TypeOK ==
    /\ buf \in [Slot -> Metric \union {Nil}]
    /\ first \in Slot /\ last \in Slot /\ size \in 0 .. Cap
    /\ batchFirst \in Slot /\ batchSize \in 0 .. Cap
    /\ batch \in Seq(Metric \union {Nil})
    /\ Len(batch) <= Cap
    /\ burst \in 0 .. MaxBurst
    /\ added \in 0 .. MaxMetrics
    /\ accepted \in [Metric -> Nat] /\ rejected \in [Metric -> Nat]
    /\ bufferSize \in 0 .. Cap
    /\ panicked \in BOOLEAN

\* Every metric given to Add is in exactly one place: one slot of the ring, one
\* position of the outstanding batch, or told its fate by exactly one call of
\* Accept or Reject.  Were it in none, its input would wait forever for the
\* delivery; were it in two, its reference count would become negative.
ExactlyOnePlace ==
    /\ ~panicked
    /\ \A m \in Metric :
          Cardinality({s \in Slot : buf[s] = m})
            + Cardinality({i \in DOMAIN batch : batch[i] = m})
            + accepted[m] + rejected[m] = (IF m <= added THEN 1 ELSE 0)

\* length, which Write turns into the number of batches of a flush and which
\* the statistic buffer_size reports, is what the buffer will hold if the
\* outstanding batch is rejected now, although add lowers batchSize when it
\* overruns the batch.
LengthCountsUnsent ==
    /\ length = min(size + Len(batch), Cap)
    /\ bufferSize = length

\* "When full, the oldest metrics will be overwritten": a step that drops a
\* metric leaves only newer ones in the ring.
DropsOldestFirst ==
    [][\A m \in Metric : rejected'[m] > rejected[m] =>
          \A s \in Slot : buf'[s] = Nil \/ buf'[s] > m]_bufferVars

\* The ring from the oldest metric on, split where the batch was taken out.
Contents(from, n) == [k \in 1 .. n |-> buf[nextby(from, k - 1)]]
olderCount == IF batch = <<>> THEN 0 ELSE dist(first, batchFirst)

Queue == INSTANCE MetricQueue WITH
    older <- Contents(first, olderCount),
    newer <- Contents(nextby(first, olderCount), size - olderCount),
    accepted <- {m \in Metric : accepted[m] > 0},
    rejected <- {m \in Metric : rejected[m] > 0}

\* The ring is a bounded queue: whatever the wrap-around, rotation and
\* overruns, each operation does to the sequence of unsent metrics what
\* MetricQueue says.
RefinesQueue == Queue!Spec
=============================================================================
