------------------------------ MODULE Limiter ------------------------------
(***************************************************************************)
(* internal/limiter: a goroutine that offers at most n tokens per tick on  *)
(* an unbuffered channel, and Stop, which waits for it.                    *)
(***************************************************************************)
EXTENDS Naturals

CONSTANT Tokens  \* n

ASSUME LimiterConstants == Tokens \in Nat \ {0}

VARIABLES
    limiter,     \* "select", "send" or "returned"
    counter,
    tick,        \* a tick is waiting in ticker.C, which holds one
    shutdown,    \* shutdown is closed
    closedC,     \* C is closed: Stop is done
    emitted      \* tokens taken since the last tick

limiterVars == <<limiter, counter, tick, shutdown, closedC, emitted>>

LimiterInit ==
    /\ limiter = "select" /\ counter = 0 /\ emitted = 0
    /\ tick = FALSE /\ shutdown = FALSE /\ closedC = FALSE

\* A further tick is dropped when one is waiting.
Ticks ==
    /\ tick' = TRUE /\ emitted' = 0
    /\ UNCHANGED <<limiter, counter, shutdown, closedC>>

SelectShutdown ==
    /\ limiter = "select" /\ shutdown
    /\ limiter' = "returned"
    /\ UNCHANGED <<counter, tick, shutdown, closedC, emitted>>

SelectTick ==
    /\ limiter = "select" /\ tick
    /\ tick' = FALSE /\ counter' = 0
    /\ UNCHANGED <<limiter, shutdown, closedC, emitted>>

\* Mutant: one token too many.
SelectDefaultInclusive ==
    /\ limiter = "select" /\ ~tick /\ ~shutdown
    /\ counter <= Tokens
    /\ limiter' = "send"
    /\ UNCHANGED <<counter, tick, shutdown, closedC, emitted>>

\* With no token left the goroutine spins.
SelectDefault ==
    /\ limiter = "select" /\ ~tick /\ ~shutdown
    /\ counter < Tokens
    /\ limiter' = "send"
    /\ UNCHANGED <<counter, tick, shutdown, closedC, emitted>>

TakeToken ==
    /\ limiter = "send"
    /\ limiter' = "select"
    /\ counter' = counter + 1 /\ emitted' = emitted + 1
    /\ UNCHANGED <<tick, shutdown, closedC>>

SendShutdown ==
    /\ limiter = "send" /\ shutdown
    /\ limiter' = "returned"
    /\ UNCHANGED <<counter, tick, shutdown, closedC, emitted>>

StopLimiter ==
    /\ ~shutdown
    /\ shutdown' = TRUE
    /\ UNCHANGED <<limiter, counter, tick, closedC, emitted>>

StopCloses ==
    /\ shutdown /\ limiter = "returned" /\ ~closedC
    /\ closedC' = TRUE
    /\ UNCHANGED <<limiter, counter, tick, shutdown, emitted>>

LimiterNext ==
    \/ Ticks \/ SelectShutdown \/ SelectTick \/ SelectDefault
    \/ TakeToken \/ SendShutdown \/ StopLimiter \/ StopCloses

\* The limiter is scheduled; nobody is obliged to take a token.  The select
\* picks at random between a tick and the shutdown, so a shutdown that stays
\* ready is picked in the end.
LimiterFairness ==
    /\ SF_limiterVars(SelectShutdown) /\ WF_limiterVars(SelectTick)
    /\ WF_limiterVars(SelectDefault) /\ WF_limiterVars(SendShutdown)
    /\ WF_limiterVars(StopCloses)

LimiterSpec == LimiterInit /\ [][LimiterNext]_limiterVars /\ LimiterFairness

-----------------------------------------------------------------------------
\* "will emit from the C channel only 'n' times every 'rate' seconds": the
\* tokens taken between two ticks are at most n.
OnlyNTimes == emitted <= Tokens

\* What the code keeps to: at most one token more than n is taken between two
\* ticks, the one that was offered before the first of them and not yet taken.
OneTokenLate == emitted <= Tokens + 1
=============================================================================
