------------------------------- MODULE Reload -------------------------------
(***************************************************************************)
(* reloadLoop and runAgent of cmd/telegraf/telegraf.go: the loop that runs *)
(* one agent after the other, the goroutine of each iteration that waits   *)
(* for a signal, the channel `reload` between them, and the pid file.      *)
(*                                                                         *)
(* An agent's own run is module Agent's; here it ends after its context is *)
(* cancelled, on an error, or by itself in test mode.                      *)
(***************************************************************************)
EXTENDS Naturals, Sequences

CONSTANTS MaxIterations, MaxSignals

ASSUME ReloadConstants == MaxIterations \in Nat \ {0} /\ MaxSignals \in Nat

Iteration == 1 .. MaxIterations

VARIABLES
    testMode,
    main,        \* "take", "fill", "load", "run", "ended" or "fatal"
    iteration,   \* 0 before the first
    reload,      \* contents of the channel, which holds one value
    signals,     \* contents of each iteration's channel, which holds one
    handler,     \* each iteration's goroutine
    ctxDone,     \* iterations whose context is cancelled
    stopClosed,  \* the service manager has closed `stop`
    raised,      \* signals sent to the process
    hups,        \* how many were SIGHUP
    pidfile      \* "none", "written", or "left" when it could not be removed

reloadVars == <<testMode, main, iteration, reload, signals, handler, ctxDone,
                stopClosed, raised, hups, pidfile>>

ReloadInit ==
    /\ testMode \in BOOLEAN
    /\ main = "take" /\ iteration = 0 /\ reload = <<TRUE>>
    /\ signals = [i \in Iteration |-> <<>>]
    /\ handler = [i \in Iteration |-> "none"]
    /\ ctxDone = {} /\ stopClosed = FALSE
    /\ raised = 0 /\ hups = 0 /\ pidfile = "none"

\* `for <-reload`.
TakeReload ==
    /\ main = "take" /\ reload # <<>>
    /\ reload' = Tail(reload)
    /\ main' = IF Head(reload) THEN "fill" ELSE "ended"
    /\ UNCHANGED <<testMode, iteration, signals, handler, ctxDone, stopClosed,
                   raised, hups, pidfile>>

\* Mutant: the channel is left empty.
BeginIterationEmpty ==
    /\ main = "fill" /\ Len(reload) = 0
    /\ iteration < MaxIterations
    /\ iteration' = iteration + 1
    /\ handler' = [handler EXCEPT ![iteration + 1] = "wait"]
    /\ main' = "load"
    /\ UNCHANGED <<testMode, reload, signals, ctxDone, stopClosed, raised, hups,
                   pidfile>>

\* reload <- false, a new context, the signal channel and its goroutine.
BeginIteration ==
    /\ main = "fill" /\ Len(reload) = 0
    /\ iteration < MaxIterations
    /\ reload' = Append(reload, FALSE)
    /\ iteration' = iteration + 1
    /\ handler' = [handler EXCEPT ![iteration + 1] = "wait"]
    /\ main' = "load"
    /\ UNCHANGED <<testMode, signals, ctxDone, stopClosed, raised, hups, pidfile>>

\* The configuration is loaded and the pid file written.
RunAgent ==
    /\ main = "load"
    /\ main' = "run"
    /\ pidfile' \in IF testMode THEN {pidfile} ELSE {pidfile, "written"}
    /\ UNCHANGED <<testMode, iteration, reload, signals, handler, ctxDone,
                   stopClosed, raised, hups>>

\* log.Fatalf, at the first start and at a reload alike.
LoadFails ==
    /\ main = "load"
    /\ main' = "fatal"
    /\ UNCHANGED <<testMode, iteration, reload, signals, handler, ctxDone,
                   stopClosed, raised, hups, pidfile>>

\* runAgent returns and the deferred function removes the pid file.
RunReturnsTo(to) ==
    /\ main = "run"
    /\ main' = to
    /\ pidfile' \in IF pidfile = "written" THEN {"none", "left"} ELSE {pidfile}
    /\ UNCHANGED <<testMode, iteration, reload, signals, handler, ctxDone,
                   stopClosed, raised, hups>>

AgentDone == (testMode \/ iteration \in ctxDone) /\ RunReturnsTo("take")

AgentFails == RunReturnsTo("fatal")

\* signal.Notify: every iteration's channel so far gets the signal, if it has
\* room; the channels of past iterations are not read any more.
Raise(s) ==
    /\ raised < MaxSignals /\ raised' = raised + 1
    /\ main \notin {"ended", "fatal"} /\ iteration > 0
    /\ hups' = hups + (IF s = "HUP" THEN 1 ELSE 0)
    /\ signals' = [i \in Iteration |->
                      IF i <= iteration /\ signals[i] = <<>> THEN <<s>>
                                                             ELSE signals[i]]
    /\ UNCHANGED <<testMode, main, iteration, reload, handler, ctxDone,
                   stopClosed, pidfile>>

CloseStop ==
    /\ ~stopClosed /\ stopClosed' = TRUE
    /\ UNCHANGED <<testMode, main, iteration, reload, signals, handler, ctxDone,
                   raised, hups, pidfile>>

\* The goroutine takes one signal and looks at no other.
Handle(i) ==
    /\ handler[i] = "wait" /\ signals[i] # <<>>
    /\ signals' = [signals EXCEPT ![i] = Tail(@)]
    /\ handler' = [handler EXCEPT ![i] =
                      IF Head(signals[i]) = "HUP" THEN "drain" ELSE "cancel"]
    /\ UNCHANGED <<testMode, main, iteration, reload, ctxDone, stopClosed,
                   raised, hups, pidfile>>

HandleStop(i) ==
    /\ handler[i] = "wait" /\ stopClosed
    /\ handler' = [handler EXCEPT ![i] = "cancel"]
    /\ UNCHANGED <<testMode, main, iteration, reload, signals, ctxDone,
                   stopClosed, raised, hups, pidfile>>

\* Mutant: the `false` of the loop is not taken out first.
DrainSkipped(i) ==
    /\ handler[i] = "drain"
    /\ handler' = [handler EXCEPT ![i] = "refill"]
    /\ UNCHANGED <<testMode, main, iteration, reload, signals, ctxDone,
                   stopClosed, raised, hups, pidfile>>

\* `<-reload` in the goroutine.
Drain(i) ==
    /\ handler[i] = "drain" /\ reload # <<>>
    /\ reload' = Tail(reload)
    /\ handler' = [handler EXCEPT ![i] = "refill"]
    /\ UNCHANGED <<testMode, main, iteration, signals, ctxDone, stopClosed,
                   raised, hups, pidfile>>

\* reload <- true.
Refill(i) ==
    /\ handler[i] = "refill" /\ Len(reload) = 0
    /\ reload' = Append(reload, TRUE)
    /\ handler' = [handler EXCEPT ![i] = "cancel"]
    /\ UNCHANGED <<testMode, main, iteration, signals, ctxDone, stopClosed,
                   raised, hups, pidfile>>

Cancel(i) ==
    /\ handler[i] = "cancel"
    /\ ctxDone' = ctxDone \union {i}
    /\ handler' = [handler EXCEPT ![i] = "done"]
    /\ UNCHANGED <<testMode, main, iteration, reload, signals, stopClosed,
                   raised, hups, pidfile>>

Handler(i) == Handle(i) \/ HandleStop(i) \/ Drain(i) \/ Refill(i) \/ Cancel(i)

ReloadNext ==
    /\ main \notin {"ended", "fatal"}
    /\ \/ TakeReload \/ BeginIteration \/ RunAgent \/ LoadFails
       \/ AgentDone \/ AgentFails \/ CloseStop
       \/ \E s \in {"HUP", "TERM"} : Raise(s)
       \/ \E i \in Iteration : Handler(i)

\* Both goroutines are scheduled, and an agent whose context is cancelled
\* returns (what that takes is in module Agent).
ReloadFairness ==
    /\ WF_reloadVars(TakeReload) /\ WF_reloadVars(BeginIteration)
    /\ WF_reloadVars(RunAgent) /\ WF_reloadVars(AgentDone)
    /\ \A i \in Iteration : WF_reloadVars(main \notin {"ended", "fatal"} /\ Handler(i))

ReloadSpec == ReloadInit /\ [][ReloadNext]_reloadVars /\ ReloadFairness

-----------------------------------------------------------------------------
\* While the loop waits for the channel there is a value in it, or the
\* goroutine of the iteration is about to put one there; and there is never one
\* too many: the agent is run again only for a SIGHUP, and once for each.
LoopNotStuck ==
    /\ main = "take" => reload # <<>> \/ \E i \in Iteration : handler[i] = "refill"
    /\ iteration <= 1 + hups

\* The only signal for the iteration is s, and it has yet to be seen.
Awaits(s) ==
    iteration > 0 /\ handler[iteration] = "wait" /\ signals[iteration] = <<s>>

\* The signal an iteration sees decides: SIGTERM ends the process, and SIGHUP
\* runs the agent again, unless that agent fails or the process is stopped.
SignalsObeyed ==
    /\ Awaits("TERM") ~> (main \in {"ended", "fatal"})
    /\ Awaits("HUP") ~> (main \in {"fill", "fatal"} \/ stopClosed \/ testMode)
=============================================================================
