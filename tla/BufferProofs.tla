---------------------------- MODULE BufferProofs ----------------------------
(***************************************************************************)
(* Theorems about module Buffer, for every capacity and batch size.        *)
(***************************************************************************)
EXTENDS Buffer, FiniteSetTheorems, SequenceTheorems, TLAPS

\* A function on 1 .. n is a sequence of length n.
LEMMA FunctionIsSeq ==
    ASSUME NEW n \in Nat, NEW S, NEW f \in [1 .. n -> S]
    PROVE  f \in Seq(S) /\ Len(f) = n
<1>1. f \in Seq(S)
  BY SeqDef
<1> QED
  BY <1>1, LenProperties

\* Index arithmetic stays inside the ring.
LEMMA SlotArithmetic ==
    /\ \A i \in Slot : next(i) \in Slot
    /\ \A i \in Slot, c \in Nat : nextby(i, c) \in Slot
    /\ \A i \in Slot, c \in 0 .. Cap : prevby(i, c) \in Slot
    /\ \A i, j \in Slot : dist(i, j) \in 0 .. Cap - 1
    /\ \A i, j \in Slot : StepsBack(i, j) \in 1 .. Cap
<1>1. \A i \in Slot : next(i) \in Slot
  BY BufferConstants DEF Slot, next
<1>2. \A i \in Slot, c \in Nat : nextby(i, c) \in Slot
  <2>1. \A k \in Nat : k % Cap \in 0 .. Cap - 1
    BY BufferConstants
  <2> QED
    BY <2>1, BufferConstants DEF Slot, nextby
<1>3. \A i \in Slot, c \in 0 .. Cap : prevby(i, c) \in Slot
  BY BufferConstants DEF Slot, prevby
<1>4. \A i, j \in Slot : dist(i, j) \in 0 .. Cap - 1
  BY BufferConstants DEF Slot, dist
<1>5. \A i, j \in Slot : StepsBack(i, j) \in 1 .. Cap
  BY BufferConstants DEF Slot, dist, StepsBack
<1> QED
  BY <1>1, <1>2, <1>3, <1>4, <1>5

\* The quantities Reject computes are in range.
LEMMA RejectArithmetic ==
    ASSUME TypeOK
    PROVE  /\ restore \in 0 .. Len(batch)
           /\ restore \in 0 .. Cap
           /\ end \in Slot
           /\ moves \in 0 .. Cap - 1
           /\ Cardinality(landings) \in Nat
           /\ moves > 0 => restore < Cap
<1>1. dist(first, batchFirst) \in 0 .. Cap - 1 /\ dist(batchFirst, last) \in 0 .. Cap - 1
  BY SlotArithmetic DEF TypeOK
<1>2. Len(batch) \in Nat
  BY DEF TypeOK
<1>3. restore \in 0 .. Len(batch) /\ restore \in 0 .. Cap
  BY <1>1, <1>2, BufferConstants DEF TypeOK, restore, min
<1>4. end \in Slot
  BY <1>3, SlotArithmetic DEF TypeOK, end
<1>5. moves \in 0 .. Cap - 1
  BY <1>1, BufferConstants DEF moves
<1>6. Cardinality(landings) \in Nat
  <2>1. min(moves, restore) \in Nat
    BY <1>3, <1>5 DEF min
  <2>2. IsFiniteSet(1 .. min(moves, restore))
    BY <2>1, FS_Interval
  <2>3. IsFiniteSet(landings)
    BY Zenon, <2>2, FS_Subset DEF landings
  <2> QED
    BY <2>3, FS_CardinalityType
<1>7. moves > 0 => restore < Cap
  <2>1. SUFFICES ASSUME restore = Cap PROVE end = last
    BY <1>3, <1>5, BufferConstants DEF moves
  <2>2. \A i \in 0 .. Cap - 1 : (i + Cap) % Cap = i
    BY BufferConstants, Z3
  <2> QED
    BY <2>1, <2>2 DEF end, nextby, TypeOK, Slot
<1> QED
  BY <1>3, <1>4, <1>5, <1>6, <1>7

-----------------------------------------------------------------------------
LEMMA InitType == BufferInit => TypeOK
<1> SUFFICES ASSUME BufferInit PROVE TypeOK
  OBVIOUS
<1>1. batch \in Seq(Metric \union {Nil}) /\ Len(batch) = 0
  BY EmptySeq DEF BufferInit
<1>2. panicked \in BOOLEAN
  BY Zenon DEF BufferInit
<1> QED
  BY <1>1, <1>2, BufferConstants DEF BufferInit, TypeOK, Slot, Metric, Nil

LEMMA AddType == ASSUME TypeOK, Add PROVE TypeOK'
<1> USE BufferConstants DEF TypeOK
<1>1. next(first) \in Slot /\ next(last) \in Slot /\ next(batchFirst) \in Slot
  BY Zenon, SlotArithmetic
<1>2. /\ first' \in Slot /\ last' \in Slot /\ batchFirst' \in Slot
      /\ size' \in 0 .. Cap /\ batchSize' \in 0 .. Cap
  BY <1>1 DEF Add, overBatch, min
<1>3. added' \in 0 .. MaxMetrics /\ added + 1 \in Metric
  BY DEF Add, Metric
<1>4. buf' \in [Slot -> Metric \union {Nil}]
  BY <1>3 DEF Add
<1>5. rejected' \in [Metric -> Nat] /\ panicked' \in BOOLEAN
  BY DEF Add, metricsDropped
<1>6. bufferSize' \in 0 .. Cap
  BY <1>2 DEF Add, length, min
<1>7. burst' \in 0 .. MaxBurst
  BY DEF Add
<1> QED
  BY <1>2, <1>3, <1>4, <1>5, <1>6, <1>7 DEF Add

LEMMA BatchType == ASSUME TypeOK, Batch(BatchLimit) PROVE TypeOK'
<1> USE BufferConstants DEF TypeOK
<1> DEFINE outLen == min(size, BatchLimit)
<1>1. outLen \in 1 .. Cap /\ outLen <= size
  BY DEF Batch, min
<1>2. (Cap + last - outLen) % Cap \in Slot
  <2>1. Cap + last - outLen \in Nat
    BY <1>1 DEF Slot
  <2> QED
    BY <2>1 DEF Slot
<1>3. batchFirst' \in Slot /\ last' \in Slot /\ size' \in 0 .. Cap /\ batchSize' \in 0 .. Cap
  BY <1>1, <1>2 DEF Batch
<1>4. batch' \in Seq(Metric \union {Nil}) /\ Len(batch') <= Cap
  <2>1. ASSUME NEW i \in 1 .. outLen
        PROVE  buf[prevby(last, i)] \in Metric \union {Nil}
    <3>1. i \in 0 .. Cap
      BY <1>1
    <3> QED
      BY <3>1, SlotArithmetic
  <2>2. batch' \in [1 .. outLen -> Metric \union {Nil}]
    BY <2>1 DEF Batch
  <2>3. outLen \in Nat
    BY <1>1
  <2> HIDE DEF outLen
  <2> QED
    BY <1>1, <2>2, <2>3, FunctionIsSeq
<1>5. buf' \in [Slot -> Metric \union {Nil}]
  BY DEF Batch
<1>6. UNCHANGED <<first, added, accepted, rejected, bufferSize, panicked>> /\ burst' = 0
  BY DEF Batch, stats
<1> QED
  BY <1>3, <1>4, <1>5, <1>6

LEMMA AcceptType == ASSUME TypeOK, Accept PROVE TypeOK'
<1> USE BufferConstants DEF TypeOK
<1>1. accepted' \in [Metric -> Nat] /\ panicked' \in BOOLEAN
  BY DEF Accept, metricsWritten
<1>2. batchFirst' \in Slot /\ batchSize' = 0 /\ bufferSize' \in 0 .. Cap
  BY DEF Accept, resetBatch, length, min, Slot
<1> QED
  BY <1>1, <1>2 DEF Accept

LEMMA RejectType == ASSUME TypeOK, Reject PROVE TypeOK'
<1> USE BufferConstants DEF TypeOK
<1> DEFINE re == prevby(end, moves)
<1>1. /\ restore \in 0 .. Len(batch) /\ restore \in 0 .. Cap /\ end \in Slot
      /\ moves \in 0 .. Cap - 1 /\ Cardinality(landings) \in Nat
      /\ moves > 0 => restore < Cap
  BY RejectArithmetic
<1>2. re \in Slot
  BY <1>1, SlotArithmetic
<1>3. rotated \in [Slot -> Metric \union {Nil}]
  <2>1. ASSUME NEW s \in Slot, StepsBack(end, s) <= moves
        PROVE  prevby(last, 1 + ((StepsBack(end, s) - 1) % (Cap - restore))) \in Slot
    <3>0. StepsBack(end, s) \in 1 .. Cap
      BY <1>1, SlotArithmetic
    <3>1. StepsBack(end, s) - 1 \in Nat /\ Cap - restore \in Nat \ {0}
      BY <1>1, <2>1, <3>0
    <3>2. \A k \in Nat, d \in Nat \ {0} : k % d \in 0 .. d - 1
      OBVIOUS
    <3>3. (StepsBack(end, s) - 1) % (Cap - restore) \in 0 .. (Cap - restore) - 1
      BY Zenon, <3>1, <3>2
    <3> QED
      BY <1>1, <3>3, SlotArithmetic
  <2> QED
    BY <2>1 DEF rotated
<1>4. buf' \in [Slot -> Metric \union {Nil}]
  <2>1. ASSUME NEW s \in Slot, StepsBack(re, s) <= restore
        PROVE  batch[StepsBack(re, s)] \in Metric \union {Nil}
    <3>0. StepsBack(re, s) \in 1 .. Cap
      BY <1>2, SlotArithmetic
    <3>1. StepsBack(re, s) \in 1 .. Len(batch)
      BY <1>1, <2>1, <3>0
    <3> QED
      BY <3>1
  <2> QED
    BY <1>3, <2>1 DEF Reject
<1>5. first' \in Slot /\ last' \in Slot /\ size' \in 0 .. Cap
  BY <1>1, SlotArithmetic DEF Reject, min
<1>6. rejected' \in [Metric -> Nat] /\ panicked' \in BOOLEAN
  BY DEF Reject, metricsDropped
<1>7. batchFirst' \in Slot /\ batchSize' = 0 /\ bufferSize' \in 0 .. Cap
  BY <1>5 DEF Reject, resetBatch, length, min, Slot
<1> QED
  BY <1>4, <1>5, <1>6, <1>7 DEF Reject

\* The ring's indexes stay inside the ring, its counters within the capacity
\* and Reject never reads past the batch, however many metrics are added
\* while a batch is outstanding.
THEOREM TypeCorrect == Spec => []TypeOK
<1>1. BufferInit => TypeOK
  BY InitType
<1>2. TypeOK /\ [Next]_bufferVars => TypeOK'
  <2> SUFFICES ASSUME TypeOK, [Next]_bufferVars PROVE TypeOK'
    OBVIOUS
  <2>1. CASE Add
    BY <2>1, AddType
  <2>2. CASE Batch(BatchLimit)
    BY <2>2, BatchType
  <2>3. CASE Accept
    BY <2>3, AcceptType
  <2>4. CASE Reject
    BY <2>4, RejectType
  <2>5. CASE UNCHANGED bufferVars
    BY <2>5 DEF TypeOK, bufferVars, ring, stats
  <2> QED
    BY <2>1, <2>2, <2>3, <2>4, <2>5 DEF Next
<1> QED
  BY <1>1, <1>2, PTL DEF Spec

-----------------------------------------------------------------------------
\* What add takes off batchSize no longer matters: the ring is full, and stays
\* full until the batch is accepted or rejected.
BatchIsCounted ==
    /\ batchSize = Len(batch) \/ (batchSize < Len(batch) /\ size = Cap)
    /\ bufferSize = length

LEMMA CountedIsUnsent == ASSUME TypeOK, BatchIsCounted PROVE LengthCountsUnsent
<1>1. Len(batch) \in Nat /\ size \in 0 .. Cap /\ batchSize \in 0 .. Cap /\ Cap \in Nat
  BY BufferConstants DEF TypeOK
<1>2. CASE batchSize = Len(batch)
  BY <1>2 DEF BatchIsCounted, LengthCountsUnsent, length
<1>3. CASE batchSize < Len(batch) /\ size = Cap
  <2>1. min(size + batchSize, Cap) = Cap /\ min(size + Len(batch), Cap) = Cap
    BY <1>1, <1>3 DEF min
  <2> QED
    BY <2>1 DEF BatchIsCounted, LengthCountsUnsent, length
<1> QED
  BY <1>2, <1>3 DEF BatchIsCounted

LEMMA CountedStep == ASSUME TypeOK, BatchIsCounted, [Next]_bufferVars PROVE BatchIsCounted'
<1> USE BufferConstants DEF TypeOK
<1>0. Len(batch) \in Nat /\ (Len(batch) = 0 <=> batch = <<>>)
  BY EmptySeq
<1>1. CASE Add
  <2>1. batch' = batch /\ bufferSize' = length'
    BY <1>1 DEF Add
  <2>2. /\ size = Cap => size' = Cap
        /\ batchSize' = batchSize \/ (batchSize' = batchSize - 1 /\ size = Cap)
    BY <1>1 DEF Add, overBatch, min
  <2> QED
    BY <1>0, <2>1, <2>2 DEF BatchIsCounted
<1>2. CASE Batch(BatchLimit)
  <2> DEFINE outLen == min(size, BatchLimit)
  <2>1. outLen \in Nat /\ outLen <= size /\ batch = <<>>
    BY <1>2 DEF Batch, min
  <2>2. batchSize' = outLen /\ size' = size - outLen /\ bufferSize' = bufferSize
    BY <1>2 DEF Batch, stats
  <2>3. Len(batch') = outLen
    <3>1. batch' = [i \in 1 .. outLen |-> buf[prevby(last, i)]]
      BY <1>2 DEF Batch
    <3> HIDE DEF outLen
    <3>2. batch' \in [1 .. outLen -> {buf[prevby(last, i)] : i \in 1 .. outLen}]
      BY <3>1
    <3> QED
      BY <2>1, <3>2, FunctionIsSeq
  <2>4. length = size /\ length' = size
    BY <1>0, <2>1, <2>2 DEF BatchIsCounted, length, min
  <2> QED
    BY <2>2, <2>3, <2>4 DEF BatchIsCounted
<1>3. CASE Accept \/ Reject
  <2>1. batch' = <<>> /\ batchSize' = 0 /\ bufferSize' = length'
    BY <1>3 DEF Accept, Reject, resetBatch
  <2> QED
    BY <2>1, EmptySeq DEF BatchIsCounted
<1>4. CASE UNCHANGED bufferVars
  BY <1>4 DEF bufferVars, ring, stats, BatchIsCounted, length
<1> QED
  BY <1>1, <1>2, <1>3, <1>4 DEF Next

\* For every capacity, batch size and burst: length, from which Write computes
\* its number of turns, and the statistic buffer_size are what is unsent.
THEOREM LengthIsRight == Spec => []LengthCountsUnsent
<1>1. BufferInit => BatchIsCounted
  BY EmptySeq, BufferConstants DEF BufferInit, BatchIsCounted, length, min
<1> QED
  BY <1>1, TypeCorrect, CountedStep, CountedIsUnsent, PTL DEF Spec
=============================================================================
