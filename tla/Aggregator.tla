----------------------------- MODULE Aggregator -----------------------------
(***************************************************************************)
(* The time windows of a running aggregator: updateWindow, runAggregators  *)
(* and push of agent/agent.go, Add and Push of                             *)
(* internal/models/running_aggregator.go.  The goroutine that adds takes   *)
(* metrics in order from a channel, so that they arrive late by any time;  *)
(* the goroutine that pushes is woken at the end of the window, or later.  *)
(*                                                                         *)
(* Time is a small integer.  That a push holds the aggregator's lock while *)
(* it sends is module Agent's; here it is one step.                        *)
(***************************************************************************)
EXTENDS Integers, Sequences

CONSTANTS
    Period, Delay, Grace,  \* of the aggregator's configuration
    Starts,                \* start times to look at
    EndOfTime,             \* bound: the clock stops here
    MaxAggMetrics          \* bound: metrics of a behaviour

ASSUME AggregatorConstants ==
    /\ Period \in Nat \ {0} /\ Delay \in Nat /\ Grace \in Nat
    /\ Starts \subseteq 0 .. EndOfTime
    /\ EndOfTime \in Nat /\ MaxAggMetrics \in Nat

VARIABLES
    startTime,
    now,
    queue,        \* timestamps of the metrics in the channel
    created,      \* how many metrics there have been
    periodStart, periodEnd,
    aggregate,    \* timestamps of the metrics in the aggregator
    pushes,       \* the windows pushed and the metrics in each
    discarded,    \* metrics outside the window, with the circumstances
    aggInput,     \* "open", "closed", or "drained": the adding goroutine is done
    pushing       \* push has not returned

aggVars == <<startTime, now, queue, created, periodStart, periodEnd, aggregate,
             pushes, discarded, aggInput, pushing>>

\* The next multiple of the period, or the time itself if it is one.
AlignTime(t) == IF t % Period = 0 THEN t ELSE t - (t % Period) + Period

updateWindow(start, round) ==
    LET until == IF round
                 THEN IF AlignTime(start) = start THEN AlignTime(start + 1)
                                                  ELSE AlignTime(start)
                 ELSE start + Period
    IN [since |-> until - Period, until |-> until]

AggInit ==
    /\ startTime \in Starts
    /\ now = startTime
    /\ \E round \in BOOLEAN :
          LET w == updateWindow(startTime, round)
          IN periodStart = w.since /\ periodEnd = w.until
    /\ queue = <<>> /\ created = 0
    /\ aggregate = {} /\ pushes = <<>> /\ discarded = {}
    /\ aggInput = "open" /\ pushing = TRUE

TimeGoesOn ==
    /\ now < EndOfTime
    /\ now' = now + 1
    /\ UNCHANGED <<startTime, queue, created, periodStart, periodEnd,
                   aggregate, pushes, discarded, aggInput, pushing>>

\* An input makes a metric with the time of its source, which may be behind or
\* ahead of the agent's.
Create(t) ==
    /\ aggInput = "open"
    /\ created < MaxAggMetrics /\ created' = created + 1
    /\ queue' = Append(queue, t)
    /\ UNCHANGED <<startTime, now, periodStart, periodEnd, aggregate, pushes,
                   discarded, aggInput, pushing>>

CloseSource ==
    /\ aggInput = "open"
    /\ aggInput' = "closed"
    /\ UNCHANGED <<startTime, now, queue, created, periodStart, periodEnd,
                   aggregate, pushes, discarded, pushing>>

\* The adding goroutine ends and cancels the context of push.
SourceDrained ==
    /\ aggInput = "closed" /\ queue = <<>>
    /\ aggInput' = "drained"
    /\ UNCHANGED <<startTime, now, queue, created, periodStart, periodEnd,
                   aggregate, pushes, discarded, pushing>>

\* Mutant: the delay is not allowed for.
OutsideStrictly(t) == t < periodStart - Grace \/ t > periodEnd

Outside(t) == t < periodStart - Grace \/ t > periodEnd + Delay

AddToWindow ==
    /\ queue # <<>>
    /\ queue' = Tail(queue)
    /\ LET t == Head(queue)
       IN IF Outside(t)
          THEN /\ discarded' = discarded \union
                      {[time |-> t, at |-> now, end |-> periodEnd]}
               /\ UNCHANGED aggregate
          ELSE /\ aggregate' = aggregate \union {t}
               /\ UNCHANGED discarded
    /\ UNCHANGED <<startTime, now, created, periodStart, periodEnd, pushes,
                   aggInput, pushing>>

\* Mutant: the next window begins when the push does.
PushDrifting ==
    /\ pushes' = Append(pushes, [since |-> periodStart, until |-> periodEnd,
                                 metrics |-> aggregate])
    /\ periodStart' = now
    /\ periodEnd' = now + Period
    /\ aggregate' = {}

\* Push: the window moves, then the aggregate is sent and reset.
Push ==
    /\ pushes' = Append(pushes, [since |-> periodStart, until |-> periodEnd,
                                 metrics |-> aggregate])
    /\ periodStart' = periodEnd
    /\ periodEnd' = periodEnd + Period
    /\ aggregate' = {}

\* Mutant: an end that has already passed is waited for in vain.
PushOnTimeOnly ==
    /\ pushing
    /\ now = periodEnd
    /\ Push
    /\ UNCHANGED <<startTime, now, queue, created, discarded, aggInput, pushing>>

\* time.After(until), which fires at once when the end has passed.
PushDue ==
    /\ pushing
    /\ now >= periodEnd
    /\ Push
    /\ UNCHANGED <<startTime, now, queue, created, discarded, aggInput, pushing>>

PushFinally ==
    /\ pushing
    /\ aggInput = "drained"
    /\ Push
    /\ pushing' = FALSE
    /\ UNCHANGED <<startTime, now, queue, created, discarded, aggInput>>

AggNext ==
    \/ TimeGoesOn \/ CloseSource \/ SourceDrained \/ AddToWindow
    \/ PushDue \/ PushFinally
    \/ \E t \in {now - Period, now - 1, now, now + 1} : Create(t)

\* The pushing goroutine is scheduled when its timer has fired.
AggFairness == WF_aggVars(PushDue)

AggSpec == AggInit /\ [][AggNext]_aggVars /\ AggFairness

-----------------------------------------------------------------------------
Windows ==
    {<<pushes[i].since, pushes[i].until>> : i \in 1 .. Len(pushes)}
        \union {<<periodStart, periodEnd>>}

\* The windows follow each other without gap or overlap from the start time
\* on, aligned or not, and however late a push is; and what a push sends belongs
\* to its window, give or take grace and delay.
WindowsCoverTime ==
    /\ \A t \in startTime .. (periodEnd - 1) :
          \E w \in Windows : /\ w[1] <= t /\ t < w[2]
                             /\ \A v \in Windows : v[1] <= t /\ t < v[2] => v = w
    /\ \A i \in 1 .. Len(pushes) : \A t \in pushes[i].metrics :
          pushes[i].since - Grace <= t /\ t <= pushes[i].until + Delay

\* The window that runAggregators opens before the first Add, and those that
\* follow it, leave no metric out that is added at the time it carries, unless a
\* push is overdue by more than the delay.  One that waits in the channel while
\* windows pass may be discarded.
FreshIsAggregated ==
    \A d \in discarded : d.time = d.at => d.at > d.end + Delay

\* "Ensures that Push will be called for each period, even if it has already
\* elapsed": each window whose end has come is pushed, be the push ever so
\* late, unless the final push has ended the goroutine.
EveryPeriodPushed ==
    \A e \in 1 .. EndOfTime :
        (periodEnd = e /\ now >= e)
            ~> (~pushing \/ \E i \in 1 .. Len(pushes) : pushes[i].until = e)
=============================================================================
