------------------------------- MODULE Execd -------------------------------
(***************************************************************************)
(* The execd input, plugins/inputs/execd: cmdLoop keeps a child process    *)
(* running, whose output becomes metrics, and restarts it after a delay    *)
(* when it ends.  Stop closes the child's stdin and gives it 200 ms, then  *)
(* SIGTERM, then, 5 s later, SIGKILL (WaitTimeout of internal).            *)
(*                                                                         *)
(* cmdRun runs in a goroutine of its own; the fields cmd and stdin that    *)
(* cmdLoop uses at the end are the ones cmdRun has got round to setting.   *)
(***************************************************************************)

VARIABLES
    execCancelled,  \* Stop has called cancel
    loop,           \* where cmdLoop is
    cmdRun,         \* where cmdRun is
    stdin,          \* e.stdin: "nil", "open" or "closed"
    cmd,            \* e.cmd: "nil", "new", "started", or "waited" on
    child,          \* the child of this cmdRun
    stdout,         \* the child has its stdout open
    orphaned,       \* a child was still running when the next was launched
    signal,         \* what WaitTimeout has sent
    waitErr,        \* WaitTimeout returned because Wait was refused
    execPanicked    \* e.stdin was nil

execVars == <<execCancelled, loop, cmdRun, stdin, cmd, child, stdout,
              orphaned, signal, waitErr, execPanicked>>

ExecInit ==
    /\ execCancelled = FALSE
    /\ loop = "top" /\ cmdRun = "off"
    /\ stdin = "nil" /\ cmd = "nil"
    /\ child = "none" /\ stdout = FALSE /\ orphaned = FALSE
    /\ signal = "none" /\ waitErr = FALSE /\ execPanicked = FALSE

StopExecd ==
    /\ ~execCancelled
    /\ execCancelled' = TRUE
    /\ UNCHANGED <<loop, cmdRun, stdin, cmd, child, stdout, orphaned,
                   signal, waitErr, execPanicked>>

-----------------------------------------------------------------------------
\* cmdLoop

LaunchRun ==
    /\ loop = "top"
    /\ loop' = "select"
    /\ cmdRun' = "begin"
    /\ orphaned' = (orphaned \/ child = "alive")
    /\ child' = "none" /\ stdout' = FALSE
    /\ UNCHANGED <<execCancelled, stdin, cmd, signal, waitErr, execPanicked>>

\* err := <-done
RunIsDone ==
    /\ loop = "select"
    /\ cmdRun = "done"
    /\ loop' = "delay"
    /\ UNCHANGED <<execCancelled, cmdRun, stdin, cmd, child, stdout, orphaned, signal, waitErr, execPanicked>>

RestartOrReturn ==
    /\ loop = "delay"
    /\ \/ loop' = "top"
       \/ execCancelled /\ loop' = "returned"
    /\ UNCHANGED <<execCancelled, cmdRun, stdin, cmd, child, stdout, orphaned, signal, waitErr, execPanicked>>

\* ctx.Done(): e.stdin.Close()
CloseStdin ==
    /\ loop = "select"
    /\ execCancelled
    /\ IF stdin = "nil"
       THEN execPanicked' = TRUE /\ loop' = "returned" /\ UNCHANGED stdin
       ELSE stdin' = "closed" /\ loop' = "waitTimeout" /\ UNCHANGED execPanicked
    /\ UNCHANGED <<execCancelled, cmdRun, cmd, child, stdout, orphaned,
                   signal, waitErr>>

\* WaitTimeout: Wait is refused on a command that has not been started or that
\* cmdRun waits for already; then the timers are stopped.
WaitRefused ==
    /\ loop = "waitTimeout"
    /\ cmd \in {"new", "waited"}
    /\ waitErr' = TRUE
    /\ loop' = "returned"
    /\ UNCHANGED <<execCancelled, cmdRun, stdin, cmd, child, stdout, orphaned, signal, execPanicked>>

WaitBegins ==
    /\ loop = "waitTimeout"
    /\ cmd = "started"
    /\ cmd' = "waited"
    /\ loop' = "wait"
    /\ UNCHANGED <<execCancelled, cmdRun, stdin, child, stdout, orphaned,
                   signal, waitErr, execPanicked>>

\* Mutant: a child that ignores SIGTERM is not killed.
SendTermOnly ==
    /\ loop = "wait" /\ child = "alive"
    /\ signal = "none" /\ signal' = "TERM"
    /\ UNCHANGED <<execCancelled, loop, cmdRun, stdin, cmd, child, stdout,
                   orphaned, waitErr, execPanicked>>

\* The two timers.
SendSignal ==
    /\ loop = "wait" /\ child = "alive"
    /\ \/ signal = "none" /\ signal' = "TERM"
       \/ signal = "TERM" /\ signal' = "KILL"
    /\ UNCHANGED <<execCancelled, loop, cmdRun, stdin, cmd, child, stdout,
                   orphaned, waitErr, execPanicked>>

WaitReturns ==
    /\ loop = "wait" /\ child # "alive"
    /\ loop' = "returned"
    /\ UNCHANGED <<execCancelled, cmdRun, stdin, cmd, child, stdout, orphaned, signal, waitErr, execPanicked>>

-----------------------------------------------------------------------------
\* cmdRun

\* exec.Command; then StdinPipe, which may fail.
NewCommand ==
    /\ cmdRun = "begin"
    /\ cmd' = "new"
    /\ cmdRun' \in {"pipe", "done"}
    /\ UNCHANGED <<execCancelled, loop, stdin, child, stdout, orphaned,
                   signal, waitErr, execPanicked>>

\* e.stdin = stdin; then the other pipes, which may fail.
SetStdin ==
    /\ cmdRun = "pipe"
    /\ stdin' = "open"
    /\ cmdRun' \in {"start", "done"}
    /\ UNCHANGED <<execCancelled, loop, cmd, child, stdout, orphaned,
                   signal, waitErr, execPanicked>>

StartChild ==
    /\ cmdRun = "start"
    /\ cmd' = "started" /\ child' = "alive" /\ stdout' = TRUE
    /\ cmdRun' = "read"
    /\ UNCHANGED <<execCancelled, loop, stdin, orphaned, signal,
                   waitErr, execPanicked>>

StartChildFails ==
    /\ cmdRun = "start"
    /\ cmdRun' = "done"
    /\ UNCHANGED <<execCancelled, loop, stdin, cmd, child, stdout, orphaned, signal, waitErr, execPanicked>>

\* The readers see the end of the child's output; then Wait, which is refused
\* if WaitTimeout waits already.
ReadersEnd ==
    /\ cmdRun = "read" /\ ~stdout
    /\ cmdRun' = IF cmd = "waited" THEN "done" ELSE "wait"
    /\ cmd' = "waited"
    /\ UNCHANGED <<execCancelled, loop, stdin, child, stdout, orphaned,
                   signal, waitErr, execPanicked>>

\* Mutant: the end of the output is taken for the end of the child.
ReapAtOnce ==
    /\ cmdRun = "wait"
    /\ cmdRun' = "done"
    /\ UNCHANGED <<execCancelled, loop, stdin, cmd, child, stdout, orphaned, signal, waitErr, execPanicked>>

\* e.cmd.Wait() returns.
Reap ==
    /\ cmdRun = "wait"
    /\ child # "alive"
    /\ cmdRun' = "done"
    /\ UNCHANGED <<execCancelled, loop, stdin, cmd, child, stdout, orphaned, signal, waitErr, execPanicked>>

-----------------------------------------------------------------------------
\* The child exits when it likes, and when it is killed; it may close its
\* output before that.
ChildExits ==
    /\ child = "alive"
    /\ child' = "exited" /\ stdout' = FALSE
    /\ UNCHANGED <<execCancelled, loop, cmdRun, stdin, cmd, orphaned,
                   signal, waitErr, execPanicked>>

ChildClosesStdout ==
    /\ child = "alive" /\ stdout
    /\ stdout' = FALSE
    /\ UNCHANGED <<execCancelled, loop, cmdRun, stdin, cmd, child, orphaned, signal, waitErr, execPanicked>>

CmdLoop == LaunchRun \/ RunIsDone \/ RestartOrReturn \/ CloseStdin
              \/ WaitRefused \/ WaitBegins \/ SendSignal \/ WaitReturns
CmdRun == NewCommand \/ SetStdin \/ StartChild \/ StartChildFails
             \/ ReadersEnd \/ Reap

ExecNext == StopExecd \/ CmdLoop \/ CmdRun \/ ChildExits \/ ChildClosesStdout

\* Goroutines go on, timers fire, a killed child exits, and a select offered
\* the done context again and again takes it.  A child need not exit otherwise.
ExecFairness ==
    /\ WF_execVars(CmdLoop)
    /\ SF_execVars(CloseStdin)
    /\ WF_execVars(CmdRun)
    /\ WF_execVars(signal = "KILL" /\ ChildExits)

ExecSpec == ExecInit /\ [][ExecNext]_execVars /\ ExecFairness

-----------------------------------------------------------------------------
\* A restart never leaves a second child beside the one that was running, and
\* when Stop has returned none is left, unless it was called while cmdRun was
\* on its way to start one, or was already waiting for one that had closed its
\* output: then Wait is refused and nothing is signalled.
NoOrphan ==
    /\ ~orphaned
    /\ loop = "returned" => child # "alive" \/ waitErr \/ execPanicked

\* Stop returns, even if the child ignores the end of its input and SIGTERM.
ExecdStopReturns == execCancelled ~> loop = "returned"
=============================================================================
