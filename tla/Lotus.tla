------------------------------- MODULE Lotus -------------------------------
(***************************************************************************)
(* The life cycle of the Lotus service input, plugins/inputs/lotus:        *)
(* Start launches a goroutine that logs warnings and one that calls run;   *)
(* run waits for the node, subscribes, and leaves the work to GetTips'     *)
(* goroutine (the pump), to one worker for tipsets and one for block       *)
(* headers, and to a goroutine for each of those, which records it.  Stop  *)
(* only cancels the context.                                               *)
(*                                                                         *)
(* The agent around it is reduced to what it does to this input: Start,    *)
(* Stop, closing inputC, and a Run that returns, after which the process   *)
(* ends or, on a reload, lives on with another agent.                      *)
(***************************************************************************)
EXTENDS Naturals

CONSTANT MaxRecording  \* bound: goroutines that record at the same time

ASSUME MaxRecordingType == MaxRecording \in Nat \ {0}

VARIABLES
    process,     \* "alive", "exit1" by os.Exit, "panic" by a send on a closed
                 \* channel, "crash" by another panic, or "ended" by the agent
    agentPhase,  \* what the agent has done to this input
    cancelled,   \* l.shutdown() has been called
    warner,      \* the goroutine that logs warnings; done: warnErr is closed
    runner,      \* where run is
    pump,        \* the goroutine of GetTips; done: chmain is closed
    ended,       \* the subscriptions whose channel the node has closed
    worker,      \* processTipSets, from its "throttle" on, and
                 \* processBlockHeaders
    workerDie,   \* tokens in the channel of that name
    recording,   \* goroutines of processTipset and processHeader
    fatal        \* the node failed before the input was told to stop

lotusVars == <<process, agentPhase, cancelled, warner, runner, pump, ended,
               worker, workerDie, recording, fatal>>

Work == {"tips", "heads"}
workerDieCap == 2

LotusInit ==
    /\ process = "alive" /\ agentPhase = "starting"
    /\ cancelled = FALSE /\ fatal = FALSE
    /\ warner = "off" /\ runner = "off" /\ pump = "off"
    /\ ended = {}
    /\ worker = [w \in Work |-> "off"] /\ workerDie = 0
    /\ recording = 0

\* cctx, which run cancels when it returns.
cctxDone == cancelled \/ runner = "failed"
inputCClosed == agentPhase \in {"closed", "returned"}

-----------------------------------------------------------------------------
\* The agent.

Start ==
    /\ agentPhase = "starting"
    /\ agentPhase' = "running"
    /\ warner' = "select"
    /\ runner' = "wait"
    /\ UNCHANGED <<process, cancelled, pump, ended, worker, workerDie,
                   recording, fatal>>

\* setDefaults cannot parse chain_walk_throttle: the agent does not start.
StartFails ==
    /\ agentPhase = "starting"
    /\ process' = "exit1"
    /\ fatal' = TRUE
    /\ UNCHANGED <<agentPhase, cancelled, warner, runner, pump, ended, worker,
                   workerDie, recording>>

StopLotus ==
    /\ agentPhase = "running"
    /\ agentPhase' = "stopped"
    /\ cancelled' = TRUE
    /\ UNCHANGED <<process, warner, runner, pump, ended, worker, workerDie,
                   recording, fatal>>

\* close(inputC), then the final writes and the return of Run.
AgentGoesOn ==
    /\ \/ agentPhase = "stopped" /\ agentPhase' = "closed"
       \/ agentPhase = "closed" /\ agentPhase' = "returned"
    /\ UNCHANGED <<process, cancelled, warner, runner, pump, ended, worker,
                   workerDie, recording, fatal>>

\* No reload was asked for: main returns.
ProcessEnds ==
    /\ agentPhase = "returned"
    /\ process' = "ended"
    /\ UNCHANGED <<agentPhase, cancelled, warner, runner, pump, ended, worker,
                   workerDie, recording, fatal>>

-----------------------------------------------------------------------------
\* The goroutine that logs warnings closes warnErr when it returns.
WarnerStops ==
    /\ warner = "select"
    /\ cancelled
    /\ warner' = "closed"
    /\ UNCHANGED <<process, agentPhase, cancelled, runner, pump, ended, worker,
                   workerDie, recording, fatal>>

\* Mutant: the goroutine returns after its first warning.
WarnOnce ==
    /\ runner = "warn"
    /\ IF warner = "closed"
       THEN process' = "panic" /\ UNCHANGED <<runner, warner>>
       ELSE runner' = "wait" /\ warner' = "closed" /\ UNCHANGED process
    /\ UNCHANGED <<agentPhase, cancelled, pump, ended, worker,
                   workerDie, recording, fatal>>

\* warnErrors <- err meets its receiver, or panics if that is gone.
Warn ==
    /\ runner = "warn"
    /\ IF warner = "closed"
       THEN process' = "panic" /\ UNCHANGED runner
       ELSE runner' = "wait" /\ UNCHANGED process
    /\ UNCHANGED <<agentPhase, cancelled, warner, pump, ended, worker,
                   workerDie, recording, fatal>>

-----------------------------------------------------------------------------
\* run

\* On a tick of nodeCheckPeriod getAPIUsingLotusConfig is tried.  While there
\* is no API endpoint nothing changes; any other error is a warning.
GetAPI ==
    /\ runner = "wait"
    /\ runner' \in {"warn", "info"}
    /\ UNCHANGED <<process, agentPhase, cancelled, warner, pump, ended, worker,
                   workerDie, recording, fatal>>

\* ID, Version, StateNetworkName; then ChainHead, ChainNotify,
\* SyncIncomingBlocks.  The steps of run that ask the node, in order, with what
\* follows each.
after == [info |-> "record", head |-> "getTips", getTips |-> "getHeads",
          getHeads |-> "select"]

\* GetTips launches the pump, startWorkers the workers.
CallOk ==
    /\ runner \in DOMAIN after
    /\ runner' = after[runner]
    /\ pump' = IF runner = "getTips" THEN "load" ELSE pump
    /\ worker' = IF runner = "getHeads" THEN [tips |-> "throttle", heads |-> "run"]
                                        ELSE worker
    /\ UNCHANGED <<process, agentPhase, cancelled, warner, ended, workerDie,
                   recording, fatal>>

\* The node fails, or the call is cut short by the cancelled context.
CallFails ==
    /\ runner \in DOMAIN after
    /\ runner' = "failed"
    /\ fatal' = (fatal \/ ~cancelled)
    /\ UNCHANGED <<process, agentPhase, cancelled, warner, pump, ended, worker,
                   workerDie, recording>>

\* versionTokens[1] of a version that has no "+": recordLotusInfoPoints panics.
VersionPanics ==
    /\ runner = "info"
    /\ process' = "crash"
    /\ UNCHANGED <<agentPhase, cancelled, warner, runner, pump, ended, worker,
                   workerDie, recording, fatal>>

\* AddFields("observed_info"), a send on inputC.
RecordInfo ==
    /\ runner = "record"
    /\ IF inputCClosed
       THEN process' = "panic" /\ UNCHANGED runner
       ELSE runner' = "head" /\ UNCHANGED process
    /\ UNCHANGED <<agentPhase, cancelled, warner, pump, ended, worker,
                   workerDie, recording, fatal>>

\* The select at the end of run returns an error either way.
RunReturns ==
    /\ runner = "select"
    /\ \/ cancelled /\ UNCHANGED workerDie
       \/ workerDie > 0 /\ workerDie' = workerDie - 1
    /\ runner' = "failed"
    /\ UNCHANGED <<process, agentPhase, cancelled, warner, pump, ended, worker,
                   recording, fatal>>

\* l.Stop(); os.Exit(1)
Exit ==
    /\ runner = "failed"
    /\ cancelled' = TRUE
    /\ process' = "exit1"
    /\ UNCHANGED <<agentPhase, warner, runner, pump, ended, worker, workerDie,
                   recording, fatal>>

Runner == GetAPI \/ Warn \/ CallOk \/ CallFails \/ VersionPanics \/ RecordInfo
             \/ RunReturns \/ Exit

-----------------------------------------------------------------------------
\* The node closes the channel of a subscription: the connection is lost, or
\* the context cancelled.
SubscriptionEnds(s) ==
    /\ \/ s = "notif" /\ pump # "off"
       \/ s = "heads" /\ worker["heads"] # "off"
    /\ s \notin ended
    /\ ended' = ended \union {s}
    /\ fatal' = (fatal \/ ~cancelled)
    /\ UNCHANGED <<process, agentPhase, cancelled, warner, runner, pump, worker,
                   workerDie, recording>>

ConnectionLost ==
    /\ worker["heads"] # "off"
    /\ ended # {"notif", "heads"}
    /\ ended' = {"notif", "heads"}
    /\ fatal' = (fatal \/ ~cancelled)
    /\ UNCHANGED <<process, agentPhase, cancelled, warner, runner, pump, worker,
                   workerDie, recording>>

\* The pump receives a head change: the first, current, makes it load tipsets,
\* if there are any to load, and a later one may make it send a tipset.  A
\* closed channel gives it empty changes without end, which change nothing.
PumpReceives ==
    /\ "notif" \notin ended
    /\ \/ pump = "load" /\ pump' \in {"select", "send"}
       \/ pump = "select" /\ pump' = "send"
    /\ UNCHANGED <<process, agentPhase, cancelled, warner, runner, ended,
                   worker, workerDie, recording, fatal>>

\* loadTipsets fails: the pump returns and closes chmain.
PumpFails ==
    /\ pump = "load"
    /\ "notif" \notin ended
    /\ pump' = "closed"
    /\ fatal' = (fatal \/ ~cancelled)
    /\ UNCHANGED <<process, agentPhase, cancelled, warner, runner, ended,
                   worker, workerDie, recording>>

PumpStops ==
    /\ pump \in {"load", "select"}
    /\ cctxDone
    /\ pump' = "closed"
    /\ UNCHANGED <<process, agentPhase, cancelled, warner, runner, ended,
                   worker, workerDie, recording, fatal>>

\* time.NewTicker panics if chain_walk_throttle is not positive.
NewThrottle ==
    /\ worker["tips"] = "throttle"
    /\ \/ worker' = [worker EXCEPT !["tips"] = "run"] /\ UNCHANGED process
       \/ process' = "crash" /\ UNCHANGED worker
    /\ UNCHANGED <<agentPhase, cancelled, warner, runner, pump, ended, workerDie,
                   recording, fatal>>

\* A worker receives and launches a goroutine that records.  The throttle of
\* processTipSets delays it, no more.
WorkerReceives(w) ==
    /\ worker[w] = "run"
    /\ recording < MaxRecording
    /\ IF w = "tips" THEN pump = "send" /\ pump' = "select"
                     ELSE "heads" \notin ended /\ UNCHANGED pump
    /\ recording' = recording + 1
    /\ UNCHANGED <<process, agentPhase, cancelled, warner, runner, ended,
                   worker, workerDie, fatal>>

\* Mutant: a closed channel ends the worker as a cancelled context does.
WorkerLosesQuietly(w) ==
    /\ worker[w] = "run"
    /\ IF w = "tips" THEN pump = "closed" ELSE "heads" \in ended
    /\ worker' = [worker EXCEPT ![w] = "done"]
    /\ UNCHANGED <<process, agentPhase, cancelled, warner, runner, pump, ended,
                   workerDie, recording, fatal>>

\* Its channel is closed.
WorkerLoses(w) ==
    /\ worker[w] = "run"
    /\ IF w = "tips" THEN pump = "closed" ELSE "heads" \in ended
    /\ worker' = [worker EXCEPT ![w] = "die"]
    /\ UNCHANGED <<process, agentPhase, cancelled, warner, runner, pump, ended,
                   workerDie, recording, fatal>>

\* die <- struct{}{}
WorkerDies(w) ==
    /\ worker[w] = "die"
    /\ workerDie < workerDieCap
    /\ workerDie' = workerDie + 1
    /\ worker' = [worker EXCEPT ![w] = "done"]
    /\ UNCHANGED <<process, agentPhase, cancelled, warner, runner, pump, ended,
                   recording, fatal>>

WorkerStops(w) ==
    /\ worker[w] = "run"
    /\ cctxDone
    /\ worker' = [worker EXCEPT ![w] = "done"]
    /\ UNCHANGED <<process, agentPhase, cancelled, warner, runner, pump, ended,
                   workerDie, recording, fatal>>

\* recordTipsetMessagesPoints or recordBlockHeaderPoints: a send on inputC.
Record ==
    /\ recording > 0
    /\ IF inputCClosed
       THEN process' = "panic" /\ UNCHANGED recording
       ELSE recording' = recording - 1 /\ UNCHANGED process
    /\ UNCHANGED <<agentPhase, cancelled, warner, runner, pump, ended, worker,
                   workerDie, fatal>>

WorkerStep(w) ==
    WorkerReceives(w) \/ WorkerLoses(w) \/ WorkerDies(w) \/ WorkerStops(w)

LotusNext ==
    /\ process = "alive"
    /\ \/ Start \/ StartFails \/ StopLotus \/ AgentGoesOn \/ ProcessEnds
       \/ WarnerStops \/ Runner
       \/ \E s \in {"notif", "heads"} : SubscriptionEnds(s)
       \/ ConnectionLost \/ PumpReceives \/ PumpFails \/ PumpStops
       \/ NewThrottle
       \/ \E w \in Work : WorkerStep(w)
       \/ Record

\* Goroutines that can go on do, and calls of the node return.  Nothing is
\* assumed of the agent, of the node's events or of the order in which select
\* takes what is ready, except that a worker offered the closed channel or the
\* done context again and again takes it.
LotusFairness ==
    /\ WF_lotusVars(process = "alive" /\ Runner)
    /\ WF_lotusVars(process = "alive" /\ WarnerStops)
    /\ WF_lotusVars(process = "alive" /\ Record)
    /\ WF_lotusVars(process = "alive" /\ NewThrottle)
    /\ \A w \in Work :
          WF_lotusVars(process = "alive" /\ (WorkerLoses(w) \/ WorkerDies(w)))

LotusSpec == LotusInit /\ [][LotusNext]_lotusVars /\ LotusFairness

-----------------------------------------------------------------------------
\* Neither the channel of warnings nor inputC is sent on after it was closed,
\* as long as the agent has not called Stop: the goroutines of the input do not
\* surprise each other.
PanicsOnlyAfterStop ==
    process = "panic" => agentPhase \notin {"starting", "running"}

\* A worker that has lost its source takes the input down rather than leave it
\* running without that source: "A worker sends on workerDie to signal that it
\* has failed".  A connection that is lost as a whole is noticed by way of the
\* headers, although the pump, which spins on its closed channel, never is.
LostSourceIsFatal ==
    (pump = "closed" \/ "heads" \in ended) ~> process # "alive"

\* "Gather metrics until the context is cancelled, Failing if fatal error
\* encountered": the process is ended by this input only for such an error.
ExitsOnlyIfFatal == process = "exit1" => fatal
=============================================================================
