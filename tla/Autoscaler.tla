------------------------------ MODULE Autoscaler ------------------------------
(***************************************************************************)
(* internal/autoscaler as the Queen's loop calls it.  The drones it counts *)
(* are all those with the AgentSpec's label: the warm pool's carry it too. *)
(* The cooldown only delays a scaling; time is not modelled, so that any   *)
(* wait may be over.  An AgentSpec without limits is not asked about: it   *)
(* is the Queen's alone (module Queen).                                    *)
(***************************************************************************)
EXTENDS Fleet, Metrics

CONSTANT
    Scalings    \* scaling configurations: MinReplicas, MaxReplicas, TargetLatencyMs

ASSUME ScalingsAssumption ==
    \A s \in Scalings : s \in [min : Nat, max : Nat, target : Nat] /\ (s.min > 0 \/ s.max > 0)

VARIABLES
    scaling,    \* the AgentSpec's
    scaler      \* where EvaluateAndScale is, with its decision

autoscaler == <<scaling, scaler, metrics>>

ScalerIdle == [step |-> "rest", desired |-> 0, left |-> 0, victims |-> {}, hand |-> 0]

AutoscalerInit ==
    /\ scaling \in Scalings
    /\ scaler = ScalerIdle
    /\ NewCollector

Lesser(m, n) == IF m < n THEN m ELSE n

(* Latency first, then the queue, then the limits.                         *)
LatencyReplicas(current, min) ==
    LET target == scaling.target
        latency == GetLatencyStats
    IN  IF target = 0 \/ latency = 0 THEN current
        ELSE IF latency > target THEN (current * latency) \div target
        ELSE IF latency < (target * 80) \div 100 /\ current > min THEN current - 1
        ELSE current

QueueReplicas(current, so_far) ==
    IF GetQueueDepth > 10 THEN Greater(so_far, (current * (10 + GetQueueDepth)) \div 10)
    ELSE so_far

\* Mutant: the queue is looked at after the limits were applied.
EvaluateQueueLast(current) ==
    LET min == OrDefault(scaling.min, 1)
        max == OrDefault(scaling.max, 10)
        wanted == LatencyReplicas(current, min)
    IN  QueueReplicas(current, Lesser(Greater(wanted, min), max))

EvaluateScaling(current) ==
    LET min == OrDefault(scaling.min, 1)
        max == OrDefault(scaling.max, 10)
        wanted == QueueReplicas(current, LatencyReplicas(current, min))
    IN  Lesser(Greater(wanted, min), max)

MakeDecision(current) ==
    LET desired == EvaluateScaling(current)
    IN  [desired |-> desired,
         action  |-> IF desired > current THEN "up"
                     ELSE IF desired < current THEN "down" ELSE "none"]

--------------------------------------------------------------------------------
(* EvaluateAndScale.  One goroutine calls it, so that an operation it      *)
(* finds in progress is one it began itself and never finished: none.      *)
EvaluateAndScale ==
    LET decision == MakeDecision(Cardinality(DOMAIN drones))
    IN  /\ scaler.step = "rest"
        /\ decision.action # "none"
        /\ scaler' = [scaler EXCEPT !.step = decision.action, !.desired = decision.desired]
        /\ UNCHANGED <<scaling, metrics, fleet>>

\* ExecuteScaling ended, with an error or without.
Complete == scaler' = ScalerIdle

\* It lists the drones again and scales towards the figure decided before.
ExecuteScaling ==
    LET current == Cardinality(DOMAIN drones)
        up == scaler.step = "up"
        count == IF up THEN scaler.desired - current ELSE current - scaler.desired
    IN  /\ scaler.step \in {"up", "down"}
        /\ IF count > 0
           THEN scaler' = [scaler EXCEPT !.step = IF up THEN "launch" ELSE "discard",
                                            !.left = count,
                                            !.victims = IF up THEN {} ELSE DOMAIN drones]
           ELSE Complete
        /\ UNCHANGED <<scaling, metrics, fleet>>

ScaleUp ==
    /\ scaler.step = "launch"
    /\ Obtain
    /\ scaler' = [scaler EXCEPT !.step = "record", !.hand = launched']
    /\ UNCHANGED <<scaling, metrics>>

ScaleUpFails ==
    /\ \/ scaler.step = "launch" /\ ~Fits /\ UNCHANGED fleet
       \/ scaler.step = "launch" /\ ObtainFails
       \/ scaler.step = "record" /\ RecordFails(scaler.hand)
    /\ Complete
    /\ UNCHANGED <<scaling, metrics>>

ScaledUp ==
    /\ scaler.step = "record"
    /\ Record(scaler.hand, FALSE)
    /\ IF scaler.left = 1 THEN Complete
       ELSE scaler' = [scaler EXCEPT !.step = "launch", !.left = @ - 1, !.hand = 0]
    /\ UNCHANGED <<scaling, metrics>>

(* Which drone comes next depends on names that are random.  One that is   *)
(* no longer in the store does not count.                                  *)
ScaleDown(p) ==
    LET left == scaler.left - (IF p \in DOMAIN drones THEN 1 ELSE 0)
        victims == scaler.victims \ {p}
    IN  /\ scaler.step = "discard"
        /\ p \in scaler.victims
        /\ Discard(p)
        /\ IF left = 0 \/ victims = {} THEN Complete
           ELSE scaler' = [scaler EXCEPT !.left = left, !.victims = victims]
        /\ UNCHANGED <<scaling, metrics>>

ScalerStep ==
    \/ EvaluateAndScale
    \/ ExecuteScaling
    \/ ScaleUp
    \/ ScaledUp
    \/ \E p \in scaler.victims : ScaleDown(p)

--------------------------------------------------------------------------------
AutoscalerTypeOK ==
    /\ scaling \in Scalings
    /\ p95 \in Nat /\ queueDepth \in Nat
    /\ scaler \in [step : {"rest", "up", "down", "launch", "record", "discard"},
                   desired : Nat, left : Nat, victims : SUBSET Nat, hand : Nat]

================================================================================
