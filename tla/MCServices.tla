----------------------------- MODULE MCServices -----------------------------
(***************************************************************************)
(* The PostgreSQL output, the windows of an aggregator, the reload loop,   *)
(* the log file, the rate limiter and the metric buffer of an output,      *)
(* model-checked in one run.  They share no state: a behaviour is a        *)
(* behaviour of one of them, which `service` names, while the others stay  *)
(* as they begin.                                                          *)
(***************************************************************************)
EXTENDS Postgresql, Aggregator, Reload, LogFile, Limiter

CONSTANTS Cap, BatchLimit, MaxMetrics, MaxBurst

VARIABLES
    service,
    buf, first, last, size, batchFirst, batchSize, taken, burst, added,
    written, rejected, bufferSize, panicked

Ring == INSTANCE MCBuffer WITH batch <- taken, accepted <- written

ringVars == <<buf, first, last, size, batchFirst, batchSize, taken, burst, added,
              written, rejected, bufferSize, panicked>>

servicesVars ==
    <<service, pgVars, aggVars, reloadVars, logVars, limiterVars, ringVars>>

\* Two measurements, alone and together; tag sets one of which contains the
\* other, apart and in one batch, and the empty one; two types, neither of
\* which can hold the other.
PgBatchSet ==
    LET a1  == [name |-> "a", tags |-> {"t1"}, kind |-> "int8"]
        a12 == [name |-> "a", tags |-> {"t1", "t2"}, kind |-> "int8"]
        b1  == [name |-> "b", tags |-> {"t1"}, kind |-> "float8"]
        b0  == [name |-> "b", tags |-> {}, kind |-> "int8"]
    IN {<<a1>>, <<a12>>, <<a1, a12>>, <<a1, b1>>, <<a12, b0>>, <<b1, b0>>}

\* A service that stays as it begins begins in one way only.
ServicesInit ==
    /\ service \in {"postgresql", "aggregator", "reload", "logfile", "limiter", "ring"}
    /\ PgInit /\ AggInit /\ ReloadInit /\ LogInit /\ LimiterInit
    /\ Ring!BufferInit
    /\ service # "postgresql" => tagsAsFK /\ tagsAsJSON
    /\ service # "aggregator" => startTime = 0 /\ periodEnd = Period
    /\ service # "reload" => testMode

ServicesNext ==
    /\ UNCHANGED service
    /\ \/ /\ service = "postgresql" /\ PgNext
          /\ UNCHANGED <<aggVars, reloadVars, logVars, limiterVars, ringVars>>
       \/ /\ service = "aggregator" /\ AggNext
          /\ UNCHANGED <<pgVars, reloadVars, logVars, limiterVars, ringVars>>
       \/ /\ service = "reload" /\ ReloadNext
          /\ UNCHANGED <<pgVars, aggVars, logVars, limiterVars, ringVars>>
       \/ /\ service = "logfile" /\ LogNext
          /\ UNCHANGED <<pgVars, aggVars, reloadVars, limiterVars, ringVars>>
       \/ /\ service = "limiter" /\ LimiterNext
          /\ UNCHANGED <<pgVars, aggVars, reloadVars, logVars, ringVars>>
       \/ /\ service = "ring" /\ Ring!Next
          /\ UNCHANGED <<pgVars, aggVars, reloadVars, logVars, limiterVars>>

\* The fairness of the service that moves.
ServicesFairness ==
    \/ service = "postgresql" /\ PgFairness
    \/ service = "aggregator" /\ AggFairness
    \/ service = "reload" /\ ReloadFairness
    \/ service = "logfile" /\ LogFairness
    \/ service = "limiter" /\ LimiterFairness
    \/ service = "ring"

ServicesSpec ==
    ServicesInit /\ [][ServicesNext]_servicesVars /\ ServicesFairness

\* Every metric is in one slot, in the outstanding batch, or told its fate once,
\* while no more than Cap + 1 metrics are added during a write.
ExactlyOnePlace == Ring!ExactlyOnePlace

\* "When full, the oldest metrics will be overwritten".
DropsOldestFirst == Ring!DropsOldestFirst

\* The ring implements the bounded queue of MetricQueue.
RefinesQueue == Ring!RefinesQueue
=============================================================================
