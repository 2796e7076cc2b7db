------------------------------- MODULE Agent -------------------------------
(***************************************************************************)
(* The agent from start to shutdown, agent/agent.go: Run connects the      *)
(* outputs, starts the service inputs, and runs a pipeline of goroutines   *)
(* joined by channels,                                                     *)
(*                                                                         *)
(*   inputs -> [processors ->] [aggregators ->] outputs.                   *)
(*                                                                         *)
(* Shutdown is the closing of the channels one after the other from the    *)
(* inputs on.  A send on a closed channel panics, a metric left in one is  *)
(* lost, and a stage that waits for a stage that waits for it never ends.  *)
(*                                                                         *)
(* The outputs' own goroutines are module RunningOutput.                   *)
(***************************************************************************)
EXTENDS Integers, Sequences, FiniteSets

CONSTANTS
    Input,       \* the inputs
    NServices,   \* how many of them are service inputs, started in this order
    NOutputs,
    ChanCap,     \* capacity of the channels, 100 in the code
    MaxMetrics   \* bound: how many metrics the inputs ever make

ASSUME AgentConstants ==
    /\ NServices \in Nat
    /\ NOutputs \in Nat
    /\ ChanCap \in Nat \ {0}
    /\ MaxMetrics \in Nat

Service == 1 .. NServices
Chan == {"inputC", "procC", "aggregations", "outputC"}
Worker == {"processors", "adder", "relay"}

\* A metric of an input is its number in order of arrival on inputC.
Aggregate == 0

VARIABLES
    hasProcessors, hasAggregators,  \* what is configured
    ctxDone,     \* the context of Run is cancelled
    run,         \* where Run is
    connected,   \* how many outputs are connected
    started,     \* how many service inputs startServiceInputs has started
    service,     \* service[s]: what a service input's goroutine does
    input,       \* input[i]: where gatherOnInterval is
    closer,      \* where the goroutine that runs the inputs is
    stopped,     \* how many service inputs have been stopped
    chan, closed,
    stage, held, \* a worker goroutine and what it has yet to send on
    pusher,      \* where push is
    window,      \* metrics in the aggregator that no push has sent
    pending,     \* aggregates the push under way has yet to send
    sink,        \* where runOutputs is
    made,        \* how many metrics the inputs have made
    handed,      \* metrics given to the outputs
    dropped,     \* metrics a processor or drop_original has dropped
    panicked     \* a send on a closed channel

config == <<hasProcessors, hasAggregators>>
startVars == <<run, connected, started>>
inputVars == <<service, input, closer, stopped, made>>
workerVars == <<stage, held, dropped>>
pushVars == <<pusher, window, pending>>
sinkVars == <<sink, handed>>
chanVars == <<chan, closed, panicked>>
vars == <<config, ctxDone, startVars, inputVars, workerVars, pushVars,
          sinkVars, chanVars>>

\* src and dst of the stages, by what is configured.
aggSource == IF hasProcessors THEN "procC" ELSE "inputC"
outSource == IF hasAggregators THEN "outputC" ELSE aggSource
source == [processors |-> "inputC", adder |-> aggSource, relay |-> "aggregations"]
dest == [processors |-> "procC", adder |-> "outputC", relay |-> "outputC"]

Init ==
    /\ hasProcessors \in BOOLEAN /\ hasAggregators \in BOOLEAN
    /\ ctxDone = FALSE
    /\ run = "begin" /\ connected = 0 /\ started = 0
    /\ service = [s \in Service |-> "off"]
    /\ input = [i \in Input |-> "sleep"]
    /\ closer = "inputs" /\ stopped = 0
    /\ chan = [c \in Chan |-> <<>>] /\ closed = {}
    /\ stage = [w \in Worker |->
                  IF (IF w = "processors" THEN hasProcessors ELSE hasAggregators)
                  THEN "receive" ELSE "done"]
    /\ held = [w \in Worker |-> <<>>]
    /\ pusher = IF hasAggregators THEN "wait" ELSE "done"
    /\ window = {} /\ pending = 0
    /\ sink = "receive"
    /\ made = 0 /\ handed = {} /\ dropped = {}
    /\ panicked = FALSE

\* c <- m: waits for room; panics when c is closed.
Put(c, m) ==
    /\ c \in closed \/ Len(chan[c]) < ChanCap
    /\ chan' = IF c \in closed THEN chan ELSE [chan EXCEPT ![c] = Append(@, m)]
    /\ panicked' = (panicked \/ c \in closed)
    /\ UNCHANGED closed

\* m := <-c
Take(c) ==
    /\ chan[c] # <<>>
    /\ chan' = [chan EXCEPT ![c] = Tail(@)]
    /\ UNCHANGED <<closed, panicked>>

Close(c) ==
    /\ closed' = closed \union {c}
    /\ UNCHANGED <<chan, panicked>>

\* Mutant: what the closed channel still holds is not read.
DrainedUnread(c) == c \in closed

\* A range over c ends.
Drained(c) == c \in closed /\ chan[c] = <<>>

-----------------------------------------------------------------------------
\* The caller of Run cancels its context.
Cancel ==
    /\ ~ctxDone
    /\ ctxDone' = TRUE
    /\ UNCHANGED <<config, startVars, inputVars, workerVars, pushVars, sinkVars,
                   chanVars>>

\* Run gives up when its context is done or initPlugins fails.
Begin ==
    /\ run = "begin"
    /\ \/ ~ctxDone /\ run' = "connect"
       \/ run' = "failed"
    /\ UNCHANGED <<config, ctxDone, connected, started, inputVars, workerVars,
                   pushVars, sinkVars, chanVars>>

\* connectOutputs: an output gets a second try, 15 seconds later.
ConnectOk ==
    /\ run \in {"connect", "reconnect"}
    /\ connected < NOutputs
    /\ connected' = connected + 1
    /\ run' = "connect"
    /\ UNCHANGED <<config, ctxDone, started, inputVars, workerVars, pushVars,
                   sinkVars, chanVars>>

ConnectFails ==
    /\ connected < NOutputs
    /\ \/ run = "connect" /\ run' = "retry"
       \/ run = "retry" /\ run' = "reconnect"
       \/ run = "retry" /\ ctxDone /\ run' = "failed"
       \/ run = "reconnect" /\ run' = "failed"
    /\ UNCHANGED <<config, ctxDone, connected, started, inputVars, workerVars,
                   pushVars, sinkVars, chanVars>>

\* startServiceInputs, once every output is connected: when one does not start,
\* those started before it are stopped and Run fails.
Starting == run = "connect" /\ connected = NOutputs

StartOk ==
    /\ Starting /\ started < NServices
    /\ started' = started + 1
    /\ service' = [service EXCEPT ![started + 1] = "idle"]
    /\ UNCHANGED <<config, ctxDone, run, connected, input, closer, stopped, made,
                   workerVars, pushVars, sinkVars, chanVars>>

\* Mutant: the service inputs already started are left running.
StartFailsAtOnce ==
    /\ Starting /\ started < NServices
    /\ run' = "failed"
    /\ UNCHANGED <<config, ctxDone, connected, started, inputVars, workerVars,
                   pushVars, sinkVars, chanVars>>

StartFails ==
    /\ Starting /\ started < NServices
    /\ run' = "unwind"
    /\ UNCHANGED <<config, ctxDone, connected, started, inputVars, workerVars,
                   pushVars, sinkVars, chanVars>>

Unwound ==
    /\ run = "unwind" /\ stopped = started
    /\ run' = "failed"
    /\ UNCHANGED <<config, ctxDone, connected, started, inputVars, workerVars,
                   pushVars, sinkVars, chanVars>>

\* The goroutines of the pipeline are started.
Go ==
    /\ Starting /\ started = NServices
    /\ run' = "running"
    /\ UNCHANGED <<config, ctxDone, connected, started, inputVars, workerVars,
                   pushVars, sinkVars, chanVars>>

-----------------------------------------------------------------------------
\* The bound on the metrics the inputs make.
Bound == made + Cardinality({s \in Service : service[s] = "sending"})
              + Cardinality({i \in Input : input[i] = "sending"}) < MaxMetrics

\* A service input adds metrics whenever it likes, until its Stop returns; Stop
\* waits for a send under way.
ServiceBegins(s) ==
    /\ service[s] = "idle"
    /\ Bound
    /\ service' = [service EXCEPT ![s] = "sending"]
    /\ UNCHANGED <<config, ctxDone, startVars, input, closer, stopped, made,
                   workerVars, pushVars, sinkVars, chanVars>>

ServiceSends(s) ==
    /\ service[s] = "sending"
    /\ service' = [service EXCEPT ![s] = "idle"]
    /\ Put("inputC", made + 1)
    /\ made' = made + 1
    /\ UNCHANGED <<config, ctxDone, startVars, input, closer, stopped,
                   workerVars, pushVars, sinkVars>>

\* stopServiceInputs, or the unwinding of startServiceInputs.
StopService ==
    /\ closer = "stopping" \/ run = "unwind"
    /\ stopped < started
    /\ service[stopped + 1] = "idle"
    /\ service' = [service EXCEPT ![stopped + 1] = "stopped"]
    /\ stopped' = stopped + 1
    /\ UNCHANGED <<config, ctxDone, startVars, input, closer, made, workerVars,
                   pushVars, sinkVars, chanVars>>

\* gatherOnInterval: a jitter sleep, a Gather that adds metrics and that
\* gatherOnce waits for, and a wait for the ticker.
GatherStep(i, from, to) ==
    /\ run = "running"
    /\ input[i] = from
    /\ input' = [input EXCEPT ![i] = to]

GatherMoves(i) ==
    /\ \/ GatherStep(i, "sleep", "gather")
       \/ GatherStep(i, "gather", "sending") /\ Bound
       \/ GatherStep(i, "gather", "wait")
       \/ GatherStep(i, "wait", "sleep")
    /\ UNCHANGED <<config, ctxDone, startVars, service, closer, stopped, made,
                   workerVars, pushVars, sinkVars, chanVars>>

GatherSends(i) ==
    /\ GatherStep(i, "sending", "gather")
    /\ Put("inputC", made + 1)
    /\ made' = made + 1
    /\ UNCHANGED <<config, ctxDone, startVars, service, closer, stopped,
                   workerVars, pushVars, sinkVars>>

GatherStops(i) ==
    /\ ctxDone
    /\ GatherStep(i, "wait", "done") \/ GatherStep(i, "sleep", "done")
    /\ UNCHANGED <<config, ctxDone, startVars, service, closer, stopped, made,
                   workerVars, pushVars, sinkVars, chanVars>>

\* runInputs returns; the service inputs are stopped; inputC is closed.
InputsDone ==
    /\ run = "running" /\ closer = "inputs"
    /\ \A i \in Input : input[i] = "done"
    /\ closer' = "stopping"
    /\ UNCHANGED <<config, ctxDone, startVars, service, input, stopped, made,
                   workerVars, pushVars, sinkVars, chanVars>>

\* Mutant: inputC is closed without waiting for the service inputs to stop.
CloseInputEarly ==
    /\ closer = "stopping"
    /\ closer' = "done"
    /\ Close("inputC")
    /\ UNCHANGED <<config, ctxDone, startVars, service, input, stopped, made,
                   workerVars, pushVars, sinkVars>>

CloseInput ==
    /\ closer = "stopping" /\ stopped = started
    /\ closer' = "done"
    /\ Close("inputC")
    /\ UNCHANGED <<config, ctxDone, startVars, service, input, stopped, made,
                   workerVars, pushVars, sinkVars>>

-----------------------------------------------------------------------------
\* The workers receive a metric, send on what becomes of it, and end when
\* their source is closed and drained.

Becomes(w, out) ==
    /\ held' = [held EXCEPT ![w] = out]
    /\ stage' = [stage EXCEPT ![w] = IF out = <<>> THEN "receive" ELSE "send"]

\* applyProcessors drops the metric, passes it on, or adds a copy.
applied(m) == IF hasProcessors THEN {<<>>, <<m>>, <<m, m>>} ELSE {<<m>>}

\* runProcessors, and the loop over aggregations of runAggregators.
Process(w) ==
    LET m == Head(chan[source[w]])
    IN  /\ run = "running" /\ stage[w] = "receive"
        /\ Take(source[w])
        /\ \E out \in applied(m) :
              /\ Becomes(w, out)
              /\ dropped' = IF out = <<>> THEN dropped \union {m} ELSE dropped
        /\ UNCHANGED <<config, ctxDone, startVars, inputVars, pushVars, sinkVars>>

\* drop_original or not.
Original(m) ==
    \/ Becomes("adder", <<m>>) /\ UNCHANGED dropped
    \/ Becomes("adder", <<>>) /\ dropped' = dropped \union {m}

\* The first goroutine of runAggregators takes a metric: the aggregators filter
\* it out, or have to lock to add it.
AdderTakes ==
    LET m == Head(chan[source["adder"]])
    IN  /\ run = "running" /\ stage["adder"] = "receive"
        /\ Take(source["adder"])
        /\ \/ Original(m)
           \/ /\ held' = [held EXCEPT !["adder"] = <<m>>]
              /\ stage' = [stage EXCEPT !["adder"] = "add"]
              /\ UNCHANGED dropped
        /\ UNCHANGED <<config, ctxDone, startVars, inputVars, pushVars, sinkVars>>

\* With the lock, which a push under way holds, they keep it, unless its time is
\* outside their window.
AdderAdds ==
    LET m == held["adder"][1]
    IN  /\ stage["adder"] = "add"
        /\ pusher \notin {"push", "lastPush"}
        /\ window' \in {window, window \union {m}}
        /\ Original(m)
        /\ UNCHANGED <<config, ctxDone, startVars, inputVars, pusher, pending,
                       sinkVars, chanVars>>

WorkerSends(w) ==
    /\ stage[w] = "send"
    /\ Put(dest[w], Head(held[w]))
    /\ Becomes(w, Tail(held[w]))
    /\ UNCHANGED <<config, ctxDone, startVars, inputVars, dropped, pushVars,
                   sinkVars>>

Ends(w) ==
    /\ run = "running" /\ stage[w] = "receive"
    /\ Drained(source[w])
    /\ stage' = [stage EXCEPT ![w] = "done"]
    /\ UNCHANGED <<config, ctxDone, startVars, inputVars, held, dropped,
                   pushVars, sinkVars>>

\* Mutant: procC stays open.
ProcessorsEndOpen == Ends("processors") /\ UNCHANGED chanVars

ProcessorsEnd == Ends("processors") /\ Close("procC")

\* cancel() of the context the pushes watch: stage["adder"] = "done".
AdderEnds == Ends("adder") /\ UNCHANGED chanVars

\* wg.Wait() for the other two goroutines of runAggregators.
RelayEnds == /\ stage["adder"] = "done" /\ pusher = "done"
             /\ Ends("relay") /\ Close("outputC")

-----------------------------------------------------------------------------
\* push: at the end of every period, and once more when the context is done.
\* A Push of an aggregator that has something sends it.
PushBegins(kind) ==
    /\ run = "running" /\ pusher = "wait"
    /\ pusher' = kind
    /\ pending' = IF window = {} THEN 0 ELSE 1
    /\ UNCHANGED <<config, ctxDone, startVars, inputVars, workerVars, window,
                   sinkVars, chanVars>>

PushPeriod == PushBegins("push")

PushLast == stage["adder"] = "done" /\ PushBegins("lastPush")

PushSends ==
    /\ pending > 0
    /\ Put("aggregations", Aggregate)
    /\ pending' = pending - 1
    /\ UNCHANGED <<config, ctxDone, startVars, inputVars, workerVars, pusher,
                   window, sinkVars>>

\* Reset; after the last push of the last aggregator the channel is closed.
PushEnds ==
    /\ pending = 0
    /\ \/ pusher = "push" /\ pusher' = "wait" /\ UNCHANGED chanVars
       \/ pusher = "lastPush" /\ pusher' = "done" /\ Close("aggregations")
    /\ window' = {}
    /\ UNCHANGED <<config, ctxDone, startVars, inputVars, workerVars, pending,
                   sinkVars>>

-----------------------------------------------------------------------------
\* runOutputs: every metric goes to every output; then the outputs write a last
\* time.
OutputsReceive ==
    /\ run = "running" /\ sink = "receive"
    /\ Take(outSource)
    /\ handed' = handed \union {Head(chan[outSource])}
    /\ UNCHANGED <<config, ctxDone, startVars, inputVars, workerVars, pushVars,
                   sink>>

OutputsCancel ==
    /\ run = "running" /\ sink = "receive"
    /\ Drained(outSource)
    /\ sink' = "flush"
    /\ UNCHANGED <<config, ctxDone, startVars, inputVars, workerVars, pushVars,
                   handed, chanVars>>

OutputsFlushed ==
    /\ sink = "flush"
    /\ sink' = "done"
    /\ UNCHANGED <<config, ctxDone, startVars, inputVars, workerVars, pushVars,
                   handed, chanVars>>

\* wg.Wait() of Run, then closeOutputs.
Stop ==
    /\ run = "running"
    /\ closer = "done" /\ sink = "done"
    /\ stage["processors"] = "done" /\ stage["relay"] = "done"
    /\ run' = "stopped"
    /\ connected' = 0
    /\ UNCHANGED <<config, ctxDone, started, inputVars, workerVars, pushVars,
                   sinkVars, chanVars>>

Startup == Begin \/ ConnectOk \/ ConnectFails \/ StartOk \/ StartFails
              \/ Unwound \/ Go
Inputs == (\E s \in Service : ServiceSends(s)) \/ StopService
             \/ InputsDone \/ CloseInput
Aggregators == AdderTakes \/ AdderAdds \/ WorkerSends("adder") \/ AdderEnds
Relay == Process("relay") \/ WorkerSends("relay") \/ RelayEnds
Processors == Process("processors") \/ WorkerSends("processors") \/ ProcessorsEnd
Outputs == OutputsReceive \/ OutputsCancel \/ OutputsFlushed \/ Stop

Next ==
    \/ Cancel \/ Startup \/ Inputs \/ Processors \/ Aggregators \/ Relay
    \/ PushPeriod \/ PushLast \/ PushSends \/ PushEnds \/ Outputs
    \/ \E s \in Service : ServiceBegins(s)
    \/ \E i \in Input : GatherMoves(i) \/ GatherSends(i) \/ GatherStops(i)

Spec == Init /\ [][Next]_vars

\* Goroutines run, Gather returns, Stop waits only for a send, the outputs'
\* final writes return.  A select that is offered the context again and again
\* takes it, and a mutex is handed over.  Inputs make metrics if they do.
Fairness ==
    /\ WF_vars(Startup) /\ WF_vars(StopService \/ InputsDone \/ CloseInput)
    /\ \A s \in Service : WF_vars(ServiceSends(s))
    /\ \A i \in Input : /\ WF_vars(GatherMoves(i)) /\ WF_vars(GatherSends(i))
                        /\ SF_vars(GatherStops(i))
    /\ WF_vars(Processors) /\ WF_vars(Aggregators) /\ SF_vars(AdderAdds)
    /\ WF_vars(Relay) /\ WF_vars(Outputs)
    /\ WF_vars(PushSends \/ PushEnds) /\ SF_vars(PushLast)

FairSpec == Spec /\ Fairness

-----------------------------------------------------------------------------
TypeOK ==
    /\ hasProcessors \in BOOLEAN /\ hasAggregators \in BOOLEAN
    /\ ctxDone \in BOOLEAN
    /\ run \in {"begin", "connect", "retry", "reconnect", "unwind", "running",
                "failed", "stopped"}
    /\ connected \in 0 .. NOutputs /\ started \in 0 .. NServices
    /\ service \in [Service -> {"off", "idle", "sending", "stopped"}]
    /\ input \in [Input -> {"sleep", "gather", "sending", "wait", "done"}]
    /\ closer \in {"inputs", "stopping", "done"} /\ stopped \in 0 .. NServices
    /\ chan \in [Chan -> Seq(Nat)] /\ closed \subseteq Chan
    /\ stage \in [Worker -> {"receive", "add", "send", "done"}]
    /\ held \in [Worker -> Seq(Nat)]
    /\ pusher \in {"wait", "push", "lastPush", "done"}
    /\ window \subseteq Nat /\ pending \in 0 .. 1
    /\ sink \in {"receive", "flush", "done"}
    /\ made \in Nat /\ handed \subseteq Nat /\ dropped \subseteq Nat
    /\ panicked \in BOOLEAN

\* No goroutine sends on a channel after the stage that closes it has done so:
\* close(dst) waits for every sender, the service inputs' own goroutines and
\* the two that share outputC included.
NeverSendsOnClosed == ~panicked

\* "Runs until src is closed and all metrics have been processed": when Run
\* returns nil, every metric an input made has reached the outputs or was
\* dropped on purpose, no channel holds anything, and what the aggregators held
\* has been pushed.
NothingLeftBehind ==
    run = "stopped" =>
        /\ 1 .. made \subseteq handed \union dropped
        /\ \A c \in Chan : chan[c] = <<>>
        /\ window = {}

\* A service input that was started has been stopped when Run returns, after a
\* failed start too.
ServicesStopped ==
    run \in {"failed", "stopped"} =>
        \A s \in Service : service[s] \in {"off", "stopped"}

\* A cancelled context makes a running agent stop: no stage waits for ever, on
\* a full channel or for a channel to be closed.
ShutdownCompletes == run = "running" /\ ctxDone ~> run = "stopped"
=============================================================================
