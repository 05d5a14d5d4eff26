--------------------------------- MODULE Metrics ---------------------------------
(***************************************************************************)
(* What internal/metrics/metrics.go aggregates of one AgentSpec for the    *)
(* autoscaler.  Its 95th percentile is the longest latency it was ever     *)
(* told, and its queue depth the deepest: both only rise.  The cleanup     *)
(* forgets what nobody asks for during a day; the autoscaler asks at every *)
(* reconciliation, so that it never comes to that.                         *)
(***************************************************************************)
EXTENDS Integers

CONSTANTS
    Latencies,  \* latencies of requests, in milliseconds
    Depths      \* depths of a Keeper's queue

ASSUME MeasuresAssumption == Latencies \cup Depths \subseteq Nat \ {0}

VARIABLES
    p95,        \* aggregatedLatency: P95, 0 before the first request
    queueDepth  \* aggregatedQueue

metrics == <<p95, queueDepth>>

NewCollector == p95 = 0 /\ queueDepth = 0

Greater(m, n) == IF m > n THEN m ELSE n

RecordLatency(latency) == p95' = Greater(p95, latency) /\ UNCHANGED queueDepth

SetQueueDepth(depth) == queueDepth' = Greater(queueDepth, depth) /\ UNCHANGED p95

\* The Keepers report, in any order.
AggregateMetrics ==
    \/ \E latency \in Latencies : RecordLatency(latency)
    \/ \E depth \in Depths : SetQueueDepth(depth)

GetLatencyStats == p95

GetQueueDepth == queueDepth
================================================================================
