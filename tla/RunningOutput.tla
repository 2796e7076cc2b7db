--------------------------- MODULE RunningOutput ---------------------------
(***************************************************************************)
(* One output of a running agent: the goroutine of runOutputs that calls   *)
(* AddMetric for every metric of its source channel, and the goroutine     *)
(* flushLoop that calls Write or WriteBatch when the flush ticker, a flush *)
(* signal or BatchReady says so, and once more at shutdown                 *)
(* (internal/models/running_output.go; runOutputs, flushLoop and flushOnce *)
(* in agent/agent.go; agent/tick.go).                                      *)
(*                                                                         *)
(* The two goroutines share the buffer, under its mutex, and the counters  *)
(* newMetricsCount and droppedMetrics, which are atomic one access at a    *)
(* time: a step of this module is one such access.                         *)
(***************************************************************************)
EXTENDS Buffer

CONSTANT RoundInterval  \* the agent's round_interval: align the first flush

ASSUME RoundIntervalType == RoundInterval \in BOOLEAN

VARIABLES
    newMetricsCount,  \* metrics added since the last signal or full Write
    droppedMetrics,   \* metrics dropped by Add and not yet warned about
    batchReady,       \* BatchReady, a channel of capacity one, holds a token
    tick,             \* the ticker's channel C, of capacity one, holds a tick
    flushRequested,   \* the flush signal's channel, of capacity one
    ctxDone,          \* runOutputs has called cancel()
    aggregating,      \* the output is an AggregatingOutput; never changes
    aggregates,       \* how many aggregates it holds, under aggMutex
    adder,            \* where the goroutine of runOutputs is
    justDropped,      \* the result of the last Add, before it is counted
    flusher,          \* where flushLoop is
    final,            \* this Write answers ctx.Done(): return after it
    batchesLeft,      \* turns the loop of Write has left; one for WriteBatch
    writeErr,         \* the last Write or WriteBatch returned an error
    snapshot,         \* the newest metric when this Write computed nBatches
    warned            \* metrics the overflow warnings have reported

countVars == <<newMetricsCount, droppedMetrics, justDropped, warned>>
chanVars == <<batchReady, tick, flushRequested, ctxDone>>
flushVars == <<flusher, final, batchesLeft, writeErr, snapshot>>
aggVars == <<aggregating, aggregates>>
vars == <<bufferVars, countVars, chanVars, flushVars, aggVars, adder>>

Init ==
    /\ BufferInit
    /\ newMetricsCount = 0 /\ droppedMetrics = 0
    /\ batchReady = FALSE /\ tick = FALSE /\ flushRequested = FALSE
    /\ ctxDone = FALSE
    /\ aggregating \in BOOLEAN /\ aggregates = 0
    /\ adder = "receive" /\ justDropped = 0
    /\ flusher = IF RoundInterval THEN "align" ELSE "top"
    /\ final = FALSE /\ batchesLeft = 0 /\ writeErr = FALSE
    /\ snapshot = 0 /\ warned = 0

-----------------------------------------------------------------------------
\* runOutputs: range over src, then cancel and wait for flushLoop.

\* AddMetric of a metric the filter selects, by an AggregatingOutput: its own
\* Add, under aggMutex.  A metric that joins an aggregate changes nothing here.
AddMetricAggregate ==
    /\ adder = "receive" /\ aggregating /\ flusher # "push"
    /\ aggregates + added < MaxMetrics
    /\ aggregates' = aggregates + 1
    /\ UNCHANGED <<aggregating, bufferVars, countVars, chanVars, flushVars, adder>>

\* AddMetric by any other output: Add to the buffer.
AddMetric ==
    /\ adder = "receive" /\ ~aggregating
    /\ Add
    /\ justDropped' = IF size = Cap THEN 1 ELSE 0
    /\ adder' = "countDropped"
    /\ UNCHANGED <<aggVars, newMetricsCount, droppedMetrics, warned, chanVars,
                   flushVars>>

AddMetricCountDropped ==
    /\ adder = "countDropped"
    /\ droppedMetrics' = droppedMetrics + justDropped
    /\ justDropped' = 0
    /\ adder' = "count"
    /\ UNCHANGED <<aggVars, bufferVars, newMetricsCount, warned, chanVars, flushVars>>

\* Mutant: the signal is sent only beyond metric_batch_size.
AddMetricCountLate ==
    /\ adder = "count"
    /\ newMetricsCount' = newMetricsCount + 1
    /\ adder' = IF newMetricsCount + 1 > BatchLimit THEN "reset" ELSE "receive"
    /\ UNCHANGED <<aggVars, bufferVars, droppedMetrics, justDropped, warned, chanVars,
                   flushVars>>

AddMetricCount ==
    /\ adder = "count"
    /\ newMetricsCount' = newMetricsCount + 1
    /\ adder' = IF newMetricsCount + 1 = BatchLimit THEN "reset" ELSE "receive"
    /\ UNCHANGED <<aggVars, bufferVars, droppedMetrics, justDropped, warned, chanVars,
                   flushVars>>

AddMetricReset ==
    /\ adder = "reset"
    /\ newMetricsCount' = 0
    /\ adder' = "signal"
    /\ UNCHANGED <<aggVars, bufferVars, droppedMetrics, justDropped, warned, chanVars,
                   flushVars>>

\* The send on BatchReady does not block: a token already there stays.
AddMetricSignal ==
    /\ adder = "signal"
    /\ batchReady' = TRUE
    /\ adder' = "receive"
    /\ UNCHANGED <<aggVars, bufferVars, countVars, tick, flushRequested, ctxDone,
                   flushVars>>

\* src is closed and drained.
Cancel ==
    /\ adder = "receive"
    /\ ctxDone' = TRUE
    /\ adder' = "wait"
    /\ UNCHANGED <<aggVars, bufferVars, countVars, batchReady, tick, flushRequested,
                   flushVars>>

Adder == AddMetricAggregate \/ AddMetric \/ AddMetricCountDropped
            \/ AddMetricCount \/ AddMetricReset \/ AddMetricSignal \/ Cancel

-----------------------------------------------------------------------------
\* The ticker's relayTime, which runs from the end of the alignment to the
\* return of flushLoop: a tick is relayed unless the channel still holds one.
Tick ==
    /\ flusher \notin {"align", "done"}
    /\ ~tick
    /\ tick' = TRUE
    /\ UNCHANGED <<aggVars, bufferVars, countVars, batchReady, flushRequested, ctxDone,
                   flushVars, adder>>

\* SIGUSR1
FlushSignal ==
    /\ flusher # "done"
    /\ ~flushRequested
    /\ flushRequested' = TRUE
    /\ UNCHANGED <<aggVars, bufferVars, countVars, batchReady, tick, ctxDone, flushVars,
                   adder>>

-----------------------------------------------------------------------------
\* flushLoop

\* The alignment sleep ends, or is cut short by the cancelled context: then
\* flushLoop returns.
Align ==
    /\ flusher = "align"
    /\ \/ flusher' = "top"
       \/ ctxDone /\ flusher' = "done"
    /\ UNCHANGED <<aggVars, bufferVars, countVars, chanVars, adder, final, batchesLeft,
                   writeErr, snapshot>>

\* Write of an AggregatingOutput begins with Push.
writeStart == IF aggregating THEN "push" ELSE "store"

CallWrite ==
    /\ flusher' = writeStart
    /\ final' = FALSE
    /\ UNCHANGED batchesLeft

CallFinalWrite ==
    /\ flusher' = writeStart
    /\ final' = TRUE
    /\ UNCHANGED batchesLeft

CallWriteBatch ==
    /\ flusher' = "batch"
    /\ final' = FALSE
    /\ batchesLeft' = 1

\* The first select of the loop favours shutdown over everything else.
FlushTop ==
    /\ flusher = "top"
    /\ IF ctxDone THEN CallFinalWrite
                  ELSE flusher' = "select" /\ UNCHANGED <<final, batchesLeft>>
    /\ UNCHANGED <<aggVars, bufferVars, countVars, chanVars, adder, writeErr, snapshot>>

\* The second select takes any event that is there.
FlushSelect ==
    /\ flusher = "select"
    /\ \/ /\ ctxDone
          /\ CallFinalWrite
          /\ UNCHANGED chanVars
       \/ /\ tick
          /\ tick' = FALSE
          /\ CallWrite
          /\ UNCHANGED <<batchReady, flushRequested, ctxDone>>
       \/ /\ flushRequested
          /\ flushRequested' = FALSE
          /\ CallWrite
          /\ UNCHANGED <<batchReady, tick, ctxDone>>
       \/ /\ batchReady
          /\ batchReady' = FALSE
          /\ flusher' = "favourTicker"
          /\ UNCHANGED <<final, batchesLeft, tick, flushRequested, ctxDone>>
    /\ UNCHANGED <<aggVars, bufferVars, countVars, adder, writeErr, snapshot>>

\* "Favor the ticker over batch ready"
FavourTicker ==
    /\ flusher = "favourTicker"
    /\ IF tick THEN CallWrite /\ tick' = FALSE
               ELSE CallWriteBatch /\ UNCHANGED tick
    /\ UNCHANGED <<aggVars, bufferVars, countVars, batchReady, flushRequested, ctxDone,
                   adder, writeErr, snapshot>>

-----------------------------------------------------------------------------
\* Write and WriteBatch, which flushOnce waits for.

\* Under aggMutex, the aggregates go to the buffer, which may drop metrics for
\* them that nobody counts; then Reset.
WritePush ==
    /\ flusher = "push" /\ aggregates > 0
    /\ Add
    /\ aggregates' = aggregates - 1
    /\ UNCHANGED <<aggregating, countVars, chanVars, flushVars, adder>>

WriteReset ==
    /\ flusher = "push" /\ aggregates = 0
    /\ flusher' = "store"
    /\ UNCHANGED <<aggVars, bufferVars, countVars, chanVars, adder, final,
                   batchesLeft, writeErr, snapshot>>

WriteStore ==
    /\ flusher = "store"
    /\ newMetricsCount' = 0
    /\ flusher' = "len"
    /\ UNCHANGED <<aggVars, bufferVars, droppedMetrics, justDropped, warned, chanVars,
                   adder, final, batchesLeft, writeErr, snapshot>>

\* Mutant: the last, partial batch is forgotten.
nFullBatches == length \div BatchLimit

nBatches == (length \div BatchLimit) + 1

WriteLen ==
    /\ flusher = "len"
    /\ batchesLeft' = nBatches
    /\ snapshot' = added
    /\ flusher' = "batch"
    /\ UNCHANGED <<aggVars, bufferVars, countVars, chanVars, adder, final, writeErr>>

\* Mutant: flushLoop goes on after its final Write.
ReturnToLoop(err) ==
    /\ writeErr' = err
    /\ flusher' = "top"
    /\ batchesLeft' = 0
    /\ snapshot' = 0

Return(err) ==
    /\ writeErr' = err
    /\ flusher' = IF final THEN "done" ELSE "top"
    /\ batchesLeft' = 0
    /\ snapshot' = 0

\* The loop of Write: take a batch, or leave when there is none to take or no
\* turn left.
WriteTakeBatch ==
    /\ flusher = "batch"
    /\ IF batchesLeft > 0 /\ size > 0
       THEN /\ Batch(BatchLimit)
            /\ flusher' = "load"
            /\ batchesLeft' = batchesLeft - 1
            /\ UNCHANGED <<writeErr, snapshot>>
       ELSE /\ Return(FALSE)
            /\ UNCHANGED bufferVars
    /\ UNCHANGED <<aggVars, countVars, chanVars, adder, final>>

\* write reads droppedMetrics, warns, and stores zero.
WriteLoad ==
    /\ flusher = "load"
    /\ warned' = warned + droppedMetrics
    /\ flusher' = IF droppedMetrics > 0 THEN "warn" ELSE "write"
    /\ UNCHANGED <<aggVars, bufferVars, newMetricsCount, droppedMetrics, justDropped,
                   chanVars, adder, final, batchesLeft, writeErr, snapshot>>

\* Mutant: the reported count is not reset.
WriteWarnKeeps ==
    /\ flusher = "warn"
    /\ flusher' = "write"
    /\ UNCHANGED <<aggVars, bufferVars, countVars, chanVars, adder, final, batchesLeft,
                   writeErr, snapshot>>

WriteWarn ==
    /\ flusher = "warn"
    /\ droppedMetrics' = 0
    /\ flusher' = "write"
    /\ UNCHANGED <<aggVars, bufferVars, newMetricsCount, justDropped, warned, chanVars,
                   adder, final, batchesLeft, writeErr, snapshot>>

\* The plugin's Write succeeds or fails, then Accept or Reject.
WriteOk ==
    /\ flusher = "write"
    /\ Accept
    /\ flusher' = "batch"
    /\ UNCHANGED <<aggVars, countVars, chanVars, adder, final, batchesLeft, writeErr,
                   snapshot>>

WriteFails ==
    /\ flusher = "write"
    /\ Reject
    /\ Return(TRUE)
    /\ UNCHANGED <<aggVars, countVars, chanVars, adder, final>>

Flusher == Align \/ FlushTop \/ FlushSelect \/ FavourTicker \/ WritePush
              \/ WriteReset \/ WriteStore \/ WriteLen \/ WriteTakeBatch
              \/ WriteLoad \/ WriteWarn \/ WriteOk \/ WriteFails

\* runOutputs returns once flushLoop has.
Terminated ==
    /\ adder = "wait" /\ flusher = "done"
    /\ UNCHANGED vars

RunNext == Adder \/ Tick \/ FlushSignal \/ Flusher \/ Terminated

\* Goroutines are scheduled and the plugin's Write returns, so flushLoop and a
\* call of AddMetric that has begun go on; time passes, so the ticker ticks.
\* Metrics, flush signals and the end of the input come if they come.
RunSpec ==
    /\ Init /\ [][RunNext]_vars
    /\ WF_vars(Flusher)
    /\ WF_vars(AddMetricCountDropped \/ AddMetricCount \/ AddMetricReset
                 \/ AddMetricSignal)
    /\ WF_vars(Tick)

\* The same, of an output that does not fail for ever.
RecoveringSpec == RunSpec /\ SF_vars(WriteOk)

-----------------------------------------------------------------------------
\* AddMetric compares the count with metric_batch_size for equality, and both
\* goroutines store zero: the count must never be at the batch size when
\* AddMetric adds to it, or no batch would ever be signalled again.
NeverSkipsBatchSize == adder = "count" => newMetricsCount < BatchLimit

\* flushLoop's final Write sends whatever the buffer and the output's own
\* aggregates hold, however many turns that takes, unless the output fails.
FinalWriteEmpties ==
    flusher = "done" /\ final => aggregates = 0 /\ (size = 0 \/ writeErr)

\* "Will call Write one final time before returning": when flushLoop is done,
\* nothing it could send is left, unless that Write failed.
AlwaysFinalWrite == flusher = "done" => size = 0 \/ writeErr

Dropped == {m \in Metric : rejected[m] > 0}

\* The overflow warnings never report more metrics than were dropped, although
\* AddMetric may count another one between write's load and its store.
NeverOverReports == warned <= Cardinality(Dropped)

\* A warning is logged on write if the metric buffer has overflowed: when write
\* looks at droppedMetrics, every metric dropped so far has been or is about to
\* be reported.  (The drops of an AggregatingOutput's Push nobody counts.)
DropsAreReported ==
    flusher = "load" /\ adder = "receive" /\ ~aggregating
        => warned + droppedMetrics = Cardinality(Dropped)

\* Write writes all metrics to the output, stopping when all have been sent on
\* or error: a Write that returns no error has sent every metric that was in
\* the buffer when it began.
WriteSendsSnapshot ==
    [][flusher = "batch" /\ flusher' \in {"top", "done"} /\ snapshot > 0 =>
          \A s \in Slot : buf[s] = Nil \/ buf[s] > snapshot]_vars

\* Once the input has ended flushLoop returns, whatever it was doing.
Terminates == ctxDone ~> flusher = "done"

\* Once no more metrics arrive, every one that did is sent, or dropped for a
\* newer one, or belongs to what a failed final write, or a shutdown during the
\* alignment, leaves.  While they keep arriving there is no such promise: a
\* batch is taken newest first, so each arrival may overtake an old metric.
SettledOnceQuiet ==
    <>[][added' = added]_vars =>
        <>[](\A m \in 1 .. added : \/ accepted[m] + rejected[m] > 0
                                   \/ flusher = "done" /\ (writeErr \/ ~final))
=============================================================================
