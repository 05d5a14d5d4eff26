------------------------------ MODULE ElasticFleet ------------------------------
(***************************************************************************)
(* The Queen with an autoscaler and a warm pool (internal/queen/queen.go,  *)
(* performReconciliation): its loop looks after the pool of a hive's       *)
(* stages or scales an AgentSpec, one after the other, next to the warm    *)
(* pool's own loop, the pool's clients and API clients.                    *)
(***************************************************************************)
EXTENDS Autoscaler, WarmPool

CONSTANT DisturbanceBound  \* bound of the model: failures, removals, reports of metrics

ASSUME DisturbanceAssumption == DisturbanceBound \in Nat

VARIABLE budget

vars == <<fleet, autoscaler, warmpool, budget>>

Init ==
    /\ FleetInit /\ AutoscalerInit /\ WarmPoolInit
    /\ budget = DisturbanceBound

Spend == budget > 0 /\ budget' = budget - 1

\* reconcileHiveWarmPool asks for one drone where the hive asks for none.
ReconcileHiveWarmPool(min) == scaler.step = "rest" /\ EnsurePool(min)

Scale == filler["queen"].step = "rest" /\ ScalerStep

Failure ==
    \/ ScaleUpFails /\ UNCHANGED warmpool
    \/ \E a \in Fillers : FillFails(a) /\ UNCHANGED autoscaler

Next ==
    \/ /\ \/ \E min \in Sizes : ReconcileHiveWarmPool(min)
          \/ PoolStep
       /\ UNCHANGED <<autoscaler, budget>>
    \/ Scale /\ UNCHANGED <<warmpool, budget>>
    \/ AggregateMetrics /\ Spend /\ UNCHANGED <<fleet, scaling, scaler, warmpool>>
    \/ Failure /\ Spend
    \/ /\ \E p \in DOMAIN drones : RemoveDrone(p)
       /\ Spend
       /\ UNCHANGED <<autoscaler, warmpool>>

Spec == Init /\ [][Next]_vars

--------------------------------------------------------------------------------
TypeOK ==
    /\ FleetTypeOK /\ AutoscalerTypeOK /\ WarmPoolTypeOK
    /\ budget \in 0 .. DisturbanceBound

Occurrences(p, s) == Cardinality({i \in DOMAIN s : s[i] = p})

(* The places where the pool and its clients hold process p.               *)
Places(p) ==
    LET In(S) == IF p \in S THEN 1 ELSE 0
        pooled == UNION {{<<i, j>> : j \in {j \in DOMAIN WarmDrones(i) : WarmDrones(i)[j] = p}} :
                         i \in DOMAIN pools}
    IN  Cardinality(pooled) + Occurrences(p, victims) + In(lent) + In({client.drone})
        + In({filler["queen"].hand}) + In({filler["maintenance"].hand}) + In({scaler.hand})

(***************************************************************************)
(* A warm drone has one holder: it waits in one pool once, or was handed   *)
(* to a client, or is being deleted, or being made.  The cleanup never     *)
(* stops a drone a client was given, two clients never get the same one,   *)
(* although sizes and pools are read long before they are used.            *)
(***************************************************************************)
HeldOnce == \A p \in 1 .. launched : Places(p) <= 1

(***************************************************************************)
(* Two loops that fill a pool at the same time, and drones brought back    *)
(* meanwhile, never take it past the largest minimum it was asked for.     *)
(***************************************************************************)
PoolWithinSize == \A i \in DOMAIN pools : CurrentSize(i) <= pools[i].top

(***************************************************************************)
(* docs/ARCHITECTURE.md: "Configurable thresholds".  The drones the        *)
(* autoscaler made never outnumber MaxReplicas, although it decides on one *)
(* count of drones and acts on a later one, and the warm pool adds to and  *)
(* takes from the drones it counts.                                        *)
(***************************************************************************)
Ceiling == OrDefault(scaling.max, 10)

ReplicasInBounds == Cardinality({p \in DOMAIN drones : ~drones[p].warm}) <= Ceiling

(***************************************************************************)
(* No process is left behind: what the launcher tracks has a record in     *)
(* the store or is in the hands of the call that makes it, however that    *)
(* call fails; save where an API client deleted the record, which stops    *)
(* nothing.                                                                *)
(***************************************************************************)
NoProcessLeftBehind ==
    tracked \subseteq DOMAIN drones \cup removed
                      \cup {filler["queen"].hand, filler["maintenance"].hand, scaler.hand}

================================================================================
