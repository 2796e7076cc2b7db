------------------------ MODULE RunningOutputProofs ------------------------
(***************************************************************************)
(* Theorems about module RunningOutput, for every capacity, batch size and *)
(* number of metrics, and whether or not the first flush is aligned.       *)
(*                                                                         *)
(* The argument for the final Write: once the context is done nothing is   *)
(* added, so the turns counted at its start are enough for what the buffer *)
(* holds, and each turn that succeeds takes a full batch or the rest.      *)
(***************************************************************************)
EXTENDS RunningOutput, BufferProofs

\* newMetricsCount reaches metric_batch_size only for AddMetric to reset it.
CountBelowBatch ==
    /\ newMetricsCount \in 0 .. BatchLimit
    /\ adder # "reset" => newMetricsCount < BatchLimit

\* flushLoop holds a batch exactly while it is writing it.
HoldsBatch == batch # <<>> <=> flusher \in {"load", "warn", "write"}

\* The context is done only when runOutputs has no more metrics, and only then
\* is a Write the final one.
FinalIsLast ==
    /\ ctxDone => adder = "wait"
    /\ final => ctxDone /\ flusher \notin {"align", "top", "select", "favourTicker"}

\* The turns that are left suffice for what is left.
TurnsSuffice ==
    /\ batchesLeft \in Nat
    /\ final /\ flusher \in {"batch", "load", "warn", "write"} =>
          size = 0 \/ size < batchesLeft * BatchLimit

\* Only an AggregatingOutput holds aggregates, and none once its final Write
\* has pushed them.
AggregatesPushed ==
    /\ ~aggregating => aggregates = 0
    /\ final /\ flusher # "push" => aggregates = 0

\* The inductive invariant.
OutputInv ==
    /\ TypeOK /\ BatchIsCounted /\ CountBelowBatch /\ HoldsBatch
    /\ FinalIsLast /\ TurnsSuffice /\ AggregatesPushed /\ FinalWriteEmpties

-----------------------------------------------------------------------------
\* A step of this module is one of the buffer, or leaves it alone.
LEMMA BufferStep == ASSUME [RunNext]_vars PROVE [Next]_bufferVars
BY Zenon DEF RunNext, vars, Adder, AddMetricAggregate, AddMetric, AddMetricCountDropped, AddMetricCount,
       AddMetricReset, AddMetricSignal, Cancel, Tick, FlushSignal, Flusher, Align,
       FlushTop, FlushSelect, FavourTicker, WritePush, WriteReset, WriteStore, WriteLen,
       WriteTakeBatch, WriteLoad, WriteWarn, WriteOk, WriteFails, Terminated, Next

\* The buffer's own invariants hold here as well.
LEMMA BufferPreserved ==
    ASSUME TypeOK, BatchIsCounted, [RunNext]_vars
    PROVE  TypeOK' /\ BatchIsCounted'
<1>1. [Next]_bufferVars
  BY BufferStep
<1>2. TypeOK'
  BY Zenon, <1>1, AddType, BatchType, AcceptType, RejectType
    DEF Next, TypeOK, bufferVars, ring, stats
<1> QED
  BY <1>1, <1>2, CountedStep

\* One turn more than there are full batches is enough.
LEMMA EnoughTurns ==
    ASSUME NEW n \in Nat, NEW b \in Nat \ {0}
    PROVE  (n \div b) + 1 \in Nat /\ n < ((n \div b) + 1) * b
<1>1. n \div b \in Nat /\ n % b \in 0 .. b - 1 /\ n = b * (n \div b) + (n % b)
  OBVIOUS
<1>2. \A q \in Nat : (q + 1) * b = b * q + b
  OBVIOUS
<1> QED
  BY <1>1, <1>2

\* A turn takes a full batch or the rest.
LEMMA TurnTaken ==
    ASSUME NEW s \in Nat, NEW k \in Nat \ {0}, NEW b \in Nat \ {0}, s < k * b
    PROVE  s - min(s, b) = 0 \/ s - min(s, b) < (k - 1) * b
<1>1. (k - 1) * b = k * b - b /\ k * b \in Nat
  OBVIOUS
<1> QED
  BY <1>1 DEF min

-----------------------------------------------------------------------------
LEMMA InitOutput == Init => OutputInv
<1> SUFFICES ASSUME Init PROVE OutputInv
  OBVIOUS
<1>1. TypeOK
  BY InitType DEF Init
<1>2. BatchIsCounted
  BY EmptySeq, BufferConstants DEF Init, BufferInit, BatchIsCounted, length, min
<1>3. /\ CountBelowBatch /\ HoldsBatch /\ FinalIsLast /\ TurnsSuffice
      /\ AggregatesPushed /\ FinalWriteEmpties
  BY BufferConstants DEF Init, BufferInit, CountBelowBatch, HoldsBatch, FinalIsLast,
                         TurnsSuffice, AggregatesPushed, FinalWriteEmpties
<1> QED
  BY <1>1, <1>2, <1>3 DEF OutputInv

\* The goroutine of runOutputs.
LEMMA AdderStep == ASSUME OutputInv, Adder PROVE OutputInv'
<1> USE BufferConstants
<1>1. TypeOK' /\ BatchIsCounted'
  BY BufferPreserved DEF OutputInv, RunNext
<1>2. batch' = batch /\ UNCHANGED flushVars
  BY DEF Adder, AddMetricAggregate, AddMetric, Add, AddMetricCountDropped,
         AddMetricCount, AddMetricReset, AddMetricSignal, Cancel, bufferVars
<1>3. adder # "wait" /\ ~ctxDone /\ ~final
  BY DEF Adder, AddMetricAggregate, AddMetric, AddMetricCountDropped,
         AddMetricCount, AddMetricReset, AddMetricSignal, Cancel, OutputInv,
         FinalIsLast
<1>4. CountBelowBatch'
  BY DEF OutputInv, CountBelowBatch, Adder, AddMetricAggregate, AddMetric,
         AddMetricCountDropped, AddMetricCount, AddMetricReset, AddMetricSignal,
         Cancel, countVars
<1>5. FinalIsLast'
  BY <1>2, <1>3 DEF FinalIsLast, Adder, AddMetricAggregate, AddMetric,
         AddMetricCountDropped, AddMetricCount, AddMetricReset, AddMetricSignal,
         Cancel, chanVars, flushVars
<1>6. aggregating' = aggregating /\ (~aggregating => aggregates' = aggregates)
  BY DEF Adder, AddMetricAggregate, AddMetric, AddMetricCountDropped,
         AddMetricCount, AddMetricReset, AddMetricSignal, Cancel, aggVars
<1>7. AggregatesPushed'
  BY <1>2, <1>3, <1>6 DEF OutputInv, AggregatesPushed, flushVars
<1>8. HoldsBatch' /\ TurnsSuffice' /\ FinalWriteEmpties'
  BY <1>2, <1>3 DEF OutputInv, HoldsBatch, TurnsSuffice, FinalWriteEmpties, flushVars
<1> QED
  BY <1>1, <1>4, <1>5, <1>7, <1>8 DEF OutputInv

\* The steps of flushLoop outside Write.
LEMMA LoopStep ==
    ASSUME OutputInv, Align \/ FlushTop \/ FlushSelect \/ FavourTicker
    PROVE  OutputInv'
<1>1. TypeOK' /\ BatchIsCounted'
  BY BufferPreserved DEF OutputInv, RunNext, Flusher
<1>2. UNCHANGED <<bufferVars, newMetricsCount, adder, ctxDone, aggregating, aggregates>>
  BY DEF Align, FlushTop, FlushSelect, FavourTicker, countVars, chanVars, aggVars
<1>3. batch' = batch /\ size' = size
  BY <1>2 DEF bufferVars, ring
<1>4. /\ flusher \in {"align", "top", "select", "favourTicker"}
      /\ flusher' \in {"top", "done", "push", "store", "select", "favourTicker", "batch"}
      /\ flusher' = "done" => ~final'
      /\ final' => ctxDone /\ flusher' = writeStart
      /\ batchesLeft' \in {batchesLeft, 1}
  BY DEF OutputInv, FinalIsLast, Align, FlushTop, FlushSelect, FavourTicker,
         CallWrite, CallFinalWrite, CallWriteBatch, writeStart
<1>5. CountBelowBatch'
  BY <1>2 DEF OutputInv, CountBelowBatch
<1>6. HoldsBatch'
  BY <1>3, <1>4 DEF OutputInv, HoldsBatch
<1>7. FinalIsLast'
  BY <1>2, <1>4 DEF OutputInv, FinalIsLast, writeStart
<1>8. TurnsSuffice'
  BY <1>4 DEF OutputInv, TurnsSuffice, writeStart
<1>9. FinalWriteEmpties'
  BY <1>4 DEF FinalWriteEmpties
<1>10. AggregatesPushed'
  BY <1>2, <1>4 DEF OutputInv, AggregatesPushed, writeStart
<1> QED
  BY <1>1, <1>5, <1>6, <1>7, <1>8, <1>9, <1>10 DEF OutputInv

\* The steps of Write.
LEMMA WriteStep ==
    ASSUME OutputInv, WritePush \/ WriteReset \/ WriteStore \/ WriteLen
                        \/ WriteTakeBatch \/ WriteLoad \/ WriteWarn \/ WriteOk \/ WriteFails
    PROVE  OutputInv'
<1>0. /\ size \in Nat /\ BatchLimit \in Nat \ {0} /\ batchesLeft \in Nat
      /\ Cap \in Nat /\ size <= Cap
  BY BufferConstants DEF OutputInv, TypeOK, TurnsSuffice
<1>1. TypeOK' /\ BatchIsCounted'
  BY BufferPreserved DEF OutputInv, RunNext, Flusher
<1>2. UNCHANGED <<adder, ctxDone, final>> /\ newMetricsCount' \in {newMetricsCount, 0}
  BY Zenon DEF WritePush, WriteReset, WriteStore, WriteLen, WriteTakeBatch, WriteLoad,
         WriteWarn, WriteOk, WriteFails, countVars, chanVars, flushVars
<1>3. CountBelowBatch'
  BY <1>0, <1>2 DEF OutputInv, CountBelowBatch
<1>9. AggregatesPushed'
  <2>1. CASE WritePush \/ WriteReset
    BY <2>1 DEF WritePush, WriteReset, aggVars, flushVars, OutputInv, AggregatesPushed
  <2>2. CASE ~(WritePush \/ WriteReset)
    <3>1. UNCHANGED <<aggregating, aggregates>> /\ flusher # "push"
      BY <2>2 DEF WriteStore, WriteLen, WriteTakeBatch, WriteLoad, WriteWarn, WriteOk,
                  WriteFails, aggVars
    <3> QED
      BY <3>1, <1>2 DEF OutputInv, AggregatesPushed
  <2> QED
    BY <2>1, <2>2
<1>10. CASE WritePush \/ WriteReset
  <2>1. batch' = batch /\ batchesLeft' = batchesLeft
    BY <1>10 DEF WritePush, WriteReset, Add, bufferVars, flushVars
  <2>2. flusher = "push" /\ flusher' \in {"push", "store"}
    BY <1>10 DEF WritePush, WriteReset, flushVars
  <2> QED
    BY <1>1, <1>2, <1>3, <1>9, <2>1, <2>2
      DEF OutputInv, HoldsBatch, FinalIsLast, FinalWriteEmpties, TurnsSuffice
<1>4. CASE WriteStore \/ WriteLen
  <2>1. batch' = batch /\ size' = size /\ batch = <<>>
    BY <1>4 DEF WriteStore, WriteLen, bufferVars, ring, OutputInv, HoldsBatch
  <2>2. /\ flusher' \in {"len", "batch"}
        /\ flusher' = "len" => batchesLeft' = batchesLeft
        /\ flusher' = "batch" => batchesLeft' = nBatches
    BY <1>4 DEF WriteStore, WriteLen
  <2>3. length = size
    <3>1. batchSize = 0
      BY <2>1, EmptySeq DEF OutputInv, BatchIsCounted, TypeOK
    <3> QED
      BY <3>1, <1>0 DEF length, min
  <2>4. nBatches \in Nat /\ size < nBatches * BatchLimit
    BY <1>0, <2>3, EnoughTurns DEF nBatches
  <2>5. TurnsSuffice'
    BY <1>0, <2>1, <2>2, <2>4 DEF TurnsSuffice
  <2> QED
    BY <1>1, <1>2, <1>3, <1>9, <2>1, <2>2, <2>5
      DEF OutputInv, HoldsBatch, FinalIsLast, FinalWriteEmpties
<1>5. CASE WriteTakeBatch
  <2>1. CASE batchesLeft > 0 /\ size > 0
    <3>1. Batch(BatchLimit) /\ flusher = "batch" /\ flusher' = "load"
            /\ batchesLeft' = batchesLeft - 1
      BY <1>5, <2>1 DEF WriteTakeBatch
    <3>2. batch' # <<>>
      <4>1. batchSize' = min(size, BatchLimit) /\ min(size, BatchLimit) > 0
        BY <3>1 DEF Batch
      <4>2. Len(batch') # 0
        BY <4>1, <1>0, <1>1 DEF BatchIsCounted, TypeOK, min
      <4> QED
        BY <4>2, EmptySeq
    <3>3. size' = size - min(size, BatchLimit)
      BY <3>1 DEF Batch
    <3>4. TurnsSuffice'
      <4>1. batchesLeft' \in Nat
        BY <3>1, <2>1, <1>0
      <4>2. final => size < batchesLeft * BatchLimit
        BY <3>1, <2>1 DEF OutputInv, TurnsSuffice
      <4>3. final => size' = 0 \/ size' < batchesLeft' * BatchLimit
        BY <4>2, <3>1, <3>3, <2>1, <1>0, TurnTaken
      <4> QED
        BY <4>1, <4>3, <1>2 DEF TurnsSuffice
    <3> QED
      BY <1>1, <1>2, <1>3, <1>9, <3>1, <3>2, <3>4
        DEF OutputInv, HoldsBatch, FinalIsLast, FinalWriteEmpties
  <2>2. CASE ~(batchesLeft > 0 /\ size > 0)
    <3>1. /\ Return(FALSE) /\ flusher = "batch" /\ UNCHANGED bufferVars
      BY Zenon, <1>5, <2>2 DEF WriteTakeBatch
    <3>2. batch' = batch /\ size' = size
      BY <3>1 DEF bufferVars, ring
    <3>3. /\ flusher' = IF final THEN "done" ELSE "top"
          /\ batchesLeft' = 0
      BY <3>1 DEF Return
    <3>4. final => size = 0
      <4>1. batchesLeft = 0 => batchesLeft * BatchLimit = 0
        BY <1>0
      <4> QED
        BY <1>0, <2>2, <3>1, <4>1 DEF OutputInv, TurnsSuffice
    <3>5. FinalWriteEmpties'
      BY <1>2, <1>9, <3>2, <3>3, <3>4 DEF FinalWriteEmpties, AggregatesPushed
    <3> QED
      BY <1>1, <1>2, <1>3, <1>9, <3>1, <3>2, <3>3, <3>5
        DEF OutputInv, HoldsBatch, FinalIsLast, TurnsSuffice
  <2> QED
    BY <2>1, <2>2
<1>6. CASE WriteLoad \/ WriteWarn
  <2>1. /\ batch' = batch /\ size' = size /\ batchesLeft' = batchesLeft
        /\ flusher \in {"load", "warn"} /\ flusher' \in {"warn", "write"}
    BY <1>6 DEF WriteLoad, WriteWarn, bufferVars, ring
  <2> QED
    BY <1>1, <1>2, <1>3, <1>9, <2>1
      DEF OutputInv, HoldsBatch, FinalIsLast, FinalWriteEmpties, TurnsSuffice
<1>7. CASE WriteOk
  <2>1. /\ batch' = <<>> /\ size' = size /\ batchesLeft' = batchesLeft
        /\ flusher = "write" /\ flusher' = "batch"
    BY <1>7 DEF WriteOk, Accept
  <2> QED
    BY <1>1, <1>2, <1>3, <1>9, <2>1
      DEF OutputInv, HoldsBatch, FinalIsLast, FinalWriteEmpties, TurnsSuffice
<1>8. CASE WriteFails
  <2>1. /\ batch' = <<>> /\ batchesLeft' = 0 /\ writeErr' = TRUE
        /\ flusher' = IF final THEN "done" ELSE "top"
    BY <1>8 DEF WriteFails, Reject, Return
  <2>2. FinalWriteEmpties'
    BY <1>2, <1>9, <2>1 DEF FinalWriteEmpties, AggregatesPushed
  <2> QED
    BY <1>1, <1>2, <1>3, <1>9, <2>1, <2>2
      DEF OutputInv, HoldsBatch, FinalIsLast, TurnsSuffice
<1> QED
  BY <1>4, <1>5, <1>6, <1>7, <1>8, <1>10

LEMMA OutputInductive == Init /\ [][RunNext]_vars => []OutputInv
<1>1. OutputInv /\ [RunNext]_vars => OutputInv'
  <2> SUFFICES ASSUME OutputInv, [RunNext]_vars PROVE OutputInv'
    OBVIOUS
  <2>1. CASE Tick \/ FlushSignal
    <3>1. TypeOK' /\ BatchIsCounted'
      BY BufferPreserved DEF OutputInv
    <3>2. UNCHANGED <<bufferVars, newMetricsCount, ctxDone, flushVars, adder, aggVars>>
      BY <2>1 DEF Tick, FlushSignal, countVars
    <3> QED
      BY <3>1, <3>2 DEF OutputInv, CountBelowBatch, HoldsBatch, FinalIsLast,
        TurnsSuffice, AggregatesPushed, FinalWriteEmpties, bufferVars, ring,
        flushVars, aggVars
  <2>2. CASE UNCHANGED vars
    <3>1. TypeOK' /\ BatchIsCounted'
      BY BufferPreserved DEF OutputInv
    <3>2. UNCHANGED <<bufferVars, newMetricsCount, ctxDone, flushVars, adder, aggVars>>
      BY <2>2 DEF vars, countVars, chanVars
    <3> QED
      BY <3>1, <3>2 DEF OutputInv, CountBelowBatch, HoldsBatch, FinalIsLast,
        TurnsSuffice, AggregatesPushed, FinalWriteEmpties, bufferVars, ring,
        flushVars, aggVars
  <2> QED
    BY <2>1, <2>2, AdderStep, LoopStep, WriteStep DEF RunNext, Flusher, Terminated
<1> QED
  BY <1>1, InitOutput, PTL

\* Whatever the interleaving of the two goroutines' stores, AddMetric's
\* comparison for equality never misses metric_batch_size.
THEOREM CountNeverSkips == RunSpec => []NeverSkipsBatchSize
<1>1. OutputInv => NeverSkipsBatchSize
  BY DEF OutputInv, CountBelowBatch, NeverSkipsBatchSize
<1> QED
  BY <1>1, OutputInductive, PTL DEF RunSpec

\* The final Write of flushLoop leaves an empty buffer unless it fails: the
\* turns it counts at its start are enough, however many batches that is.
THEOREM FinalWriteIsEnough == RunSpec => []FinalWriteEmpties
<1>1. OutputInv => FinalWriteEmpties
  BY DEF OutputInv
<1> QED
  BY <1>1, OutputInductive, PTL DEF RunSpec
=============================================================================
