-------------------------- MODULE ElasticFleetProofs --------------------------
(***************************************************************************)
(* ElasticFleet: where warm drones are, how many drones there are, and     *)
(* what becomes of their processes, for any node, any minimum sizes and    *)
(* scaling limits, any metrics, and any number of drones and pools.        *)
(***************************************************************************)
EXTENDS ElasticFleet, SequenceTheorems, FiniteSetTheorems, TLAPS

--------------------------------------------------------------------------------
(* The inductive invariant.                                                *)

Making == {"record", "ready", "add"}
Filling == {"size"} \cup Making

FillersInOrder ==
    /\ \A a \in Fillers :
          /\ filler[a].step \in Filling =>
                filler[a].pool \in DOMAIN pools /\ filler[a].min <= pools[filler[a].pool].top
          /\ filler[a].hand # 0 <=> filler[a].step \in Making
    /\ filler["queen"].step \in {"rest"} \cup Filling

CleanupInOrder ==
    /\ filler["maintenance"].step \in {"shrink", "discard"} => cleanup # <<>>
    /\ victims # <<>> => filler["maintenance"].step = "discard"
    /\ \A i \in DOMAIN cleanup : cleanup[i].pool \in DOMAIN pools

ClientInOrder ==
    /\ client.step # "rest" => client.pool \in DOMAIN pools
    /\ client.drone # 0 <=> client.step \in {"check", "put"}

PoolsInOrder ==
    /\ warmPools # NoPool => warmPools \in DOMAIN pools
    /\ \A i \in DOMAIN pools : pools[i].min <= pools[i].top /\ CurrentSize(i) <= pools[i].top

\* The drones that are not the warm pool's: with those still to be made they
\* are what the autoscaler decided on.
Cold == {p \in DOMAIN drones : ~drones[p].warm}

ScalerInOrder ==
    /\ scaler.hand # 0 <=> scaler.step = "record"
    /\ scaler.step \in {"launch", "record", "discard"} => scaler.left > 0
    /\ scaler.step # "rest" => scaler.desired <= Ceiling
    /\ scaler.step \in {"launch", "record"} => Cardinality(Cold) + scaler.left <= scaler.desired

Recording == {filler[a].hand : a \in {b \in Fillers : filler[b].step = "record"}} \cup {scaler.hand}

Accounted == tracked \subseteq DOMAIN drones \cup removed \cup Recording

\* Who may hold a drone.
Holders == {"pool", "victims", "lent", "client", "queen", "maintenance", "scaler"}

Pooled == {p \in Nat : \E i \in DOMAIN pools : \E j \in DOMAIN WarmDrones(i) : WarmDrones(i)[j] = p}

Held(h) == CASE h = "pool" -> Pooled
             [] h = "victims" -> Range(victims)
             [] h = "lent" -> lent
             [] h = "client" -> {client.drone} \ {0}
             [] h = "scaler" -> {scaler.hand} \ {0}
             [] OTHER -> {filler[h].hand} \ {0}

Known == \A h \in Holders : Held(h) \subseteq 1 .. launched

Apart == \A g, h \in Holders : g # h => Held(g) \cap Held(h) = {}

PooledOnce ==
    \A i, k \in DOMAIN pools : \A j \in DOMAIN WarmDrones(i), l \in DOMAIN WarmDrones(k) :
        WarmDrones(i)[j] = WarmDrones(k)[l] => i = k /\ j = l

Shape == FillersInOrder /\ CleanupInOrder /\ ClientInOrder /\ PoolsInOrder

Inv ==
    /\ TypeOK /\ Shape
    /\ ScalerInOrder /\ ReplicasInBounds
    /\ Accounted
    /\ Known /\ Apart /\ PooledOnce /\ IsInjective(victims)

--------------------------------------------------------------------------------
(* The fleet.                                                              *)

\* What an AgentSpec requires is a natural number of either resource.
LEMMA RequiredType ==
    /\ Required.cpu \in Nat /\ Required.memory \in Nat
    /\ Required = [cpu |-> Required.cpu, memory |-> Required.memory]
<1>1. ResourceMultiplier(tier) \in Nat
    BY DEF ResourceMultiplier
<1>2. OrDefault(RequestCPU, 500) \in Nat /\ OrDefault(RequestMemory, 512) \in Nat
    BY NodeAssumption DEF OrDefault
<1>3. \A m, n \in Nat : (m * n) \div 10 \in Int
    OBVIOUS
<1>4. \A m \in Int, n \in Nat : AtLeast(m, n) \in Nat
    BY DEF AtLeast
<1> DEFINE scaled(n) == (n * ResourceMultiplier(tier)) \div 10
<1>5. scaled(OrDefault(RequestCPU, 500)) \in Int /\ scaled(OrDefault(RequestMemory, 512)) \in Int
    BY <1>1, <1>2, <1>3
<1> HIDE DEF scaled
<1>6. /\ AtLeast(scaled(OrDefault(RequestCPU, 500)), 100) \in Nat
      /\ AtLeast(scaled(OrDefault(RequestMemory, 512)), 128) \in Nat
    BY <1>4, <1>5
<1>7. Required = [cpu |-> AtLeast(scaled(OrDefault(RequestCPU, 500)), 100),
                  memory |-> AtLeast(scaled(OrDefault(RequestMemory, 512)), 128)]
    BY DEF Required, scaled
<1> QED
    BY <1>6, <1>7

\* Every operation on the fleet keeps its types.
LEMMA FleetTyped ==
    ASSUME FleetTypeOK,
           \/ Obtain \/ ObtainFails
           \/ \E p \in 1 .. launched, warm \in BOOLEAN : Record(p, warm)
           \/ \E p \in Nat : RecordFails(p) \/ MarkRunning(p) \/ Discard(p) \/ RemoveDrone(p)
           \/ UNCHANGED fleet
    PROVE  FleetTypeOK' /\ launched' >= launched
<1> USE DEF FleetTypeOK
<1>1. ASSUME Reserve PROVE available' \in [cpu : Nat, memory : Nat]
    BY <1>1, RequiredType DEF Reserve, Fits
<1>2. CASE Obtain
    BY <1>1, <1>2 DEF Obtain
<1>3. CASE ObtainFails
    BY <1>1, <1>3 DEF ObtainFails
<1>4. ASSUME NEW p \in 1 .. launched, NEW warm \in BOOLEAN, Record(p, warm)
      PROVE  FleetTypeOK' /\ launched' >= launched
    <2>1. [phase |-> "Starting", warm |-> warm] \in DroneRecords
        BY DEF DroneRecords
    <2>2. drones' \in [DOMAIN drones' -> DroneRecords] /\ DOMAIN drones' = DOMAIN drones \cup {p}
        BY <1>4, <2>1 DEF Record
    <2> QED
        BY <1>4, <2>2 DEF Record
<1>5. ASSUME NEW p \in Nat, MarkRunning(p)
      PROVE  FleetTypeOK' /\ launched' >= launched
    <2>1. \A r \in DroneRecords : [r EXCEPT !.phase = "Running"] \in DroneRecords
        BY DEF DroneRecords
    <2>2. drones' \in [DOMAIN drones' -> DroneRecords] /\ DOMAIN drones' = DOMAIN drones
        BY <1>5, <2>1 DEF MarkRunning
    <2> QED
        BY <1>5, <2>2 DEF MarkRunning
<1>6. ASSUME NEW p \in Nat, Discard(p) \/ RemoveDrone(p)
      PROVE  FleetTypeOK' /\ launched' >= launched
    <2>1. drones' \in [DOMAIN drones' -> DroneRecords] /\ DOMAIN drones' = DOMAIN drones \ {p}
        BY <1>6 DEF Discard, RemoveDrone, Restrict
    <2> QED
        BY <1>6, <2>1 DEF Discard, RemoveDrone
<1>7. CASE \E p \in Nat : RecordFails(p)
    BY <1>7 DEF RecordFails
<1>8. CASE UNCHANGED fleet
    BY <1>8 DEF fleet
<1> QED
    BY <1>2, <1>3, <1>4, <1>5, <1>6, <1>7, <1>8

LEMMA DronesFinite ==
    ASSUME FleetTypeOK
    PROVE  IsFiniteSet(DOMAIN drones) /\ Cardinality(DOMAIN drones) \in Nat
<1> launched \in Int /\ 1 \in Int
    BY DEF FleetTypeOK
<1>1. IsFiniteSet(1 .. launched)
    BY FS_Interval
<1>2. DOMAIN drones \in SUBSET (1 .. launched)
    BY DEF FleetTypeOK
<1> QED
    BY <1>1, <1>2, FS_Subset, FS_CardinalityType

--------------------------------------------------------------------------------
(* The autoscaler.                                                         *)

\* Whatever the metrics say, the decision is within the limits.
LEMMA DecisionWithinLimits ==
    ASSUME AutoscalerTypeOK, NEW current \in Nat
    PROVE  EvaluateScaling(current) \in Nat /\ EvaluateScaling(current) <= Ceiling
<1>1. scaling \in [min : Nat, max : Nat, target : Nat]
    BY ScalingsAssumption DEF AutoscalerTypeOK
<1> DEFINE min == OrDefault(scaling.min, 1)
           max == OrDefault(scaling.max, 10)
<1>2. min \in Nat /\ max \in Nat /\ max = Ceiling
    BY <1>1 DEF OrDefault, Ceiling
<1>3. LatencyReplicas(current, min) \in Int
    <2>1. \A m, n \in Nat : n # 0 => m \div n \in Int
        OBVIOUS
    <2>2. current * p95 \in Nat
        BY DEF AutoscalerTypeOK
    <2> QED
        BY <1>1, <1>2, <2>1, <2>2 DEF LatencyReplicas, GetLatencyStats, AutoscalerTypeOK
<1>4. ASSUME NEW n \in Int PROVE QueueReplicas(current, n) \in Int
    <2>1. (current * (10 + queueDepth)) \in Nat
        BY DEF AutoscalerTypeOK
    <2>2. (current * (10 + queueDepth)) \div 10 \in Int
        BY <2>1
    <2> QED
        BY <1>4, <2>2 DEF QueueReplicas, GetQueueDepth, Greater
<1> HIDE DEF min, max
<1>5. \A n \in Int : Lesser(Greater(n, min), max) \in Nat /\ Lesser(Greater(n, min), max) <= max
    BY <1>2 DEF Lesser, Greater
<1> QED
    BY <1>2, <1>3, <1>4, <1>5 DEF EvaluateScaling, min, max

\* A step of the autoscaler, or a call of it that fails, keeps its types.
LEMMA ScalerTyped ==
    ASSUME FleetTypeOK, AutoscalerTypeOK, ScalerInOrder,
           \/ ScalerStep \/ ScaleUpFails
           \/ AggregateMetrics /\ UNCHANGED <<fleet, scaling, scaler>>
           \/ UNCHANGED autoscaler
    PROVE  AutoscalerTypeOK'
<1> USE DEF AutoscalerTypeOK
<1>1. ScalerIdle \in [step : {"rest", "up", "down", "launch", "record", "discard"},
                      desired : Nat, left : Nat, victims : SUBSET Nat, hand : Nat]
    BY DEF ScalerIdle
<1>2. CASE EvaluateAndScale
    <2>1. MakeDecision(Cardinality(DOMAIN drones)).desired \in Nat
        BY DronesFinite, DecisionWithinLimits DEF MakeDecision
    <2>2. MakeDecision(Cardinality(DOMAIN drones)).action \in {"up", "down", "none"}
        BY DEF MakeDecision
    <2> QED
        BY <1>2, <2>1, <2>2 DEF EvaluateAndScale, metrics
<1>3. CASE ExecuteScaling
    <2>1. DOMAIN drones \subseteq Nat
        BY DEF FleetTypeOK
    <2> DEFINE current == Cardinality(DOMAIN drones)
               up == scaler.step = "up"
               count == IF up THEN scaler.desired - current ELSE current - scaler.desired
    <2>2. count \in Int
        BY DronesFinite
    <2>3. CASE count > 0
        <3>1. scaler' = [step |-> IF up THEN "launch" ELSE "discard", desired |-> scaler.desired,
                         left |-> count, victims |-> IF up THEN {} ELSE DOMAIN drones,
                         hand |-> scaler.hand]
            BY <1>3, <2>3 DEF ExecuteScaling
        <3> HIDE DEF count
        <3> QED
            BY <1>3, <2>1, <2>2, <2>3, <3>1 DEF ExecuteScaling, metrics
    <2>4. CASE ~(count > 0)
        BY <1>1, <1>3, <2>4 DEF ExecuteScaling, Complete, metrics
    <2> QED
        BY <2>3, <2>4
<1>4. CASE ScaleUp
    <2>1. launched' \in Nat
        BY <1>4 DEF ScaleUp, Obtain, FleetTypeOK
    <2>2. scaler' = [step |-> "record", desired |-> scaler.desired, left |-> scaler.left,
                     victims |-> scaler.victims, hand |-> launched']
        BY <1>4 DEF ScaleUp
    <2> QED
        BY <1>4, <2>1, <2>2 DEF ScaleUp, metrics
<1>5. CASE ScaledUp
    <2>1. CASE scaler.left = 1
        BY <1>1, <1>5, <2>1 DEF ScaledUp, Complete, metrics
    <2>2. CASE scaler.left # 1
        <3>1. scaler' = [step |-> "launch", desired |-> scaler.desired, left |-> scaler.left - 1,
                         victims |-> scaler.victims, hand |-> 0]
            BY <1>5, <2>2 DEF ScaledUp
        <3>2. scaler.left - 1 \in Nat
            BY <1>5 DEF ScaledUp, ScalerInOrder
        <3> QED
            BY <1>5, <3>1, <3>2 DEF ScaledUp, metrics
    <2> QED
        BY <2>1, <2>2
<1>6. ASSUME NEW p \in scaler.victims, ScaleDown(p)
      PROVE  AutoscalerTypeOK'
    <2>1. scaler.left - (IF p \in DOMAIN drones THEN 1 ELSE 0) \in Nat
        BY <1>6 DEF ScaleDown, ScalerInOrder
    <2> QED
        BY <1>1, <1>6, <2>1 DEF ScaleDown, Complete, metrics
<1>7. CASE ScaleUpFails
    BY <1>1, <1>7 DEF ScaleUpFails, Complete, metrics
<1>8. CASE AggregateMetrics /\ UNCHANGED <<fleet, scaling, scaler>>
    <2>1. p95' \in Nat /\ queueDepth' \in Nat
        BY <1>8, MeasuresAssumption
           DEF AggregateMetrics, RecordLatency, SetQueueDepth, Greater
    <2> QED
        BY <1>8, <2>1
<1>9. CASE UNCHANGED autoscaler
    BY <1>9 DEF autoscaler, metrics
<1> QED
    BY <1>2, <1>3, <1>4, <1>5, <1>6, <1>7, <1>8, <1>9 DEF ScalerStep

--------------------------------------------------------------------------------
(* The warm pool.                                                          *)

\* A goroutine takes a step, and the other one does not.
LEMMA FillerMoves ==
    ASSUME WarmPoolTypeOK, NEW a \in Fillers, NEW call \in FillCalls,
           filler' = [filler EXCEPT ![a] = call]
    PROVE  /\ filler' \in [Fillers -> FillCalls]
           /\ filler'[a] = call
           /\ \A b \in Fillers : b # a => filler'[b] = filler[b]
BY DEF WarmPoolTypeOK

\* At the end of a fill the goroutine has nothing in its hands.
LEMMA FillEnds ==
    ASSUME WarmPoolTypeOK, NEW a \in Fillers, EndFill(a)
    PROVE  /\ filler' \in [Fillers -> FillCalls]
           /\ filler'[a].step = (IF a = "maintenance" THEN "identify" ELSE "rest")
           /\ filler'[a].hand = 0
           /\ \A b \in Fillers : b # a => filler'[b] = filler[b]
<1> DEFINE call == [step |-> IF a = "maintenance" THEN "identify" ELSE "rest",
                    pool |-> NoPool, min |-> 0, hand |-> 0]
<1>1. call \in FillCalls
    BY DEF FillCalls, NoPool
<1>2. [AtRest EXCEPT !.step = "identify"] =
          [step |-> "identify", pool |-> NoPool, min |-> 0, hand |-> 0]
    BY DEF AtRest
<1>3. (IF a = "maintenance" THEN [AtRest EXCEPT !.step = "identify"] ELSE AtRest) = call
    BY <1>2 DEF AtRest
<1>4. filler' = [filler EXCEPT ![a] = call]
    BY <1>3 DEF EndFill
<1>5. call.step = (IF a = "maintenance" THEN "identify" ELSE "rest") /\ call.hand = 0
    OBVIOUS
<1> HIDE DEF call
<1>6. filler' \in [Fillers -> FillCalls] /\ filler'[a] = call
      /\ \A b \in Fillers : b # a => filler'[b] = filler[b]
    BY <1>1, <1>4, FillerMoves
<1> QED
    BY <1>5, <1>6

LEMMA PutDronesProperties ==
    ASSUME WarmPoolTypeOK, NEW i \in DOMAIN pools, NEW ds \in Seq(Nat), NEW idle \in 0 .. 2,
           PutDrones(i, ds, idle)
    PROVE  /\ pools' \in Seq(Pools)
           /\ DOMAIN pools' = DOMAIN pools
           /\ \A k \in DOMAIN pools :
                 /\ pools'[k].min = pools[k].min
                 /\ pools'[k].top = pools[k].top
                 /\ pools'[k].drones = IF k = i THEN ds ELSE pools[k].drones
<1> DEFINE pool == [min |-> pools[i].min, drones |-> ds, idle |-> idle, top |-> pools[i].top]
<1>1. pools[i] \in Pools
    BY DEF WarmPoolTypeOK
<1>2. pool \in Pools
    BY <1>1 DEF Pools
<1>3. pools' = [pools EXCEPT ![i] = pool]
    BY DEF PutDrones
<1>4. pools' \in Seq(Pools) /\ DOMAIN pools' = DOMAIN pools
    <2>1. pools \in Seq(Pools) /\ i \in 1 .. Len(pools)
        BY DEF WarmPoolTypeOK
    <2> HIDE DEF pool
    <2> QED
        BY <1>2, <1>3, <2>1, ExceptSeq
<1>5. \A k \in DOMAIN pools : pools'[k] = IF k = i THEN pool ELSE pools[k]
    BY <1>3
<1> QED
    BY <1>4, <1>5

LEMMA PoolTypes ==
    ASSUME NEW ps \in Seq(Pools)
    PROVE  /\ DOMAIN ps = 1 .. Len(ps) /\ Len(ps) \in Nat
           /\ \A i \in DOMAIN ps :
                 /\ ps[i] \in Pools /\ ps[i].drones \in Seq(Nat) /\ Len(ps[i].drones) \in Nat
                 /\ ps[i].min \in Int /\ ps[i].top \in Nat /\ ps[i].idle \in 0 .. 2
<1>1. DOMAIN ps = 1 .. Len(ps) /\ Len(ps) \in Nat
    BY LenProperties
<1>2. \A i \in DOMAIN ps : ps[i] \in Pools
    BY <1>1
<1>3. \A pool \in Pools : /\ pool.drones \in Seq(Nat) /\ Len(pool.drones) \in Nat
                         /\ pool.min \in Int /\ pool.top \in Nat /\ pool.idle \in 0 .. 2
    BY SizesAssumption, LenProperties DEF Pools
<1> QED
    BY <1>1, <1>2, <1>3

\* What every step but EnsurePool does to the pools: some of them get other
\* drones, not too many.
PoolsKept ==
    /\ pools' \in Seq(Pools)
    /\ DOMAIN pools' = DOMAIN pools
    /\ \A i \in DOMAIN pools :
          /\ pools'[i].min = pools[i].min /\ pools'[i].top = pools[i].top
          /\ Len(pools'[i].drones) <= pools[i].top
    /\ warmPools' \in {warmPools, NoPool}

LEMMA KeptInOrder ==
    ASSUME WarmPoolTypeOK, PoolsInOrder, PoolsKept
    PROVE  PoolsInOrder' /\ warmPools' \in Nat
BY DEF PoolsInOrder, PoolsKept, CurrentSize, WarmDrones, WarmPoolTypeOK, NoPool

LEMMA UnchangedKept ==
    ASSUME WarmPoolTypeOK, PoolsInOrder, UNCHANGED pools, warmPools' \in {warmPools, NoPool}
    PROVE  PoolsKept
BY DEF PoolsInOrder, PoolsKept, CurrentSize, WarmDrones, WarmPoolTypeOK

LEMMA PutKept ==
    ASSUME WarmPoolTypeOK, PoolsInOrder, UNCHANGED warmPools,
           NEW i \in DOMAIN pools, NEW ds \in Seq(Nat), NEW idle \in 0 .. 2,
           PutDrones(i, ds, idle), Len(ds) <= pools[i].top
    PROVE  PoolsKept
<1>1. \A k \in DOMAIN pools : Len(pools'[k].drones) <= pools[k].top
    BY PutDronesProperties DEF PoolsInOrder, CurrentSize, WarmDrones
<1> QED
    BY <1>1, PutDronesProperties DEF PoolsKept

\* A goroutine that takes a step leaves the other one's call in order, as no
\* pool goes and no pool is asked for less than before.
LEMMA OthersInOrder ==
    ASSUME WarmPoolTypeOK, FillersInOrder, pools' \in Seq(Pools),
           DOMAIN pools \subseteq DOMAIN pools',
           \A i \in DOMAIN pools : pools'[i].top >= pools[i].top,
           NEW a \in Fillers, \A b \in Fillers : b # a => filler'[b] = filler[b],
           filler'[a].step \in Filling =>
                filler'[a].pool \in DOMAIN pools' /\ filler'[a].min <= pools'[filler'[a].pool].top,
           filler'[a].hand # 0 <=> filler'[a].step \in Making,
           a = "queen" => filler'[a].step \in {"rest"} \cup Filling
    PROVE  FillersInOrder'
<1>1. ASSUME NEW b \in Fillers, b # a, filler[b].step \in Filling
      PROVE  filler[b].pool \in DOMAIN pools' /\ filler[b].min <= pools'[filler[b].pool].top
    <2>1. filler[b].pool \in DOMAIN pools /\ filler[b].min <= pools[filler[b].pool].top
        BY <1>1 DEF FillersInOrder
    <2>2. filler[b].min \in Int /\ pools[filler[b].pool].top \in Int
        BY <2>1, PoolTypes DEF WarmPoolTypeOK, FillCalls
    <2>3. \A i \in DOMAIN pools' : pools'[i].top \in Int
        BY PoolTypes
    <2> QED
        BY <2>1, <2>2, <2>3
<1>2. \A b \in Fillers :
          /\ filler'[b].step \in Filling =>
                filler'[b].pool \in DOMAIN pools' /\ filler'[b].min <= pools'[filler'[b].pool].top
          /\ filler'[b].hand # 0 <=> filler'[b].step \in Making
    BY <1>1 DEF FillersInOrder
<1>3. filler'["queen"].step \in {"rest"} \cup Filling
    BY DEF FillersInOrder, Fillers
<1> QED
    BY <1>2, <1>3 DEF FillersInOrder

\* A step of a goroutine in fillPool.
LEMMA FillStepInOrder ==
    ASSUME WarmPoolTypeOK, Shape, PoolsKept, UNCHANGED <<warmPools, cleanup, victims, lent, client>>,
           NEW a \in Fillers, filler[a].step \in {"rest"} \cup Filling,
           filler' \in [Fillers -> FillCalls],
           \A b \in Fillers : b # a => filler'[b] = filler[b],
           \/ /\ filler'[a].step \in Filling
              /\ filler'[a].pool \in DOMAIN pools
              /\ filler'[a].min <= pools[filler'[a].pool].top
              /\ filler'[a].hand # 0 <=> filler'[a].step \in Making
           \/ /\ filler'[a].step = (IF a = "maintenance" THEN "identify" ELSE "rest")
              /\ filler'[a].hand = 0
    PROVE  WarmPoolTypeOK' /\ Shape'
<1> USE DEF Shape
<1>1. \A i \in DOMAIN pools : pools[i].top \in Int
    BY PoolTypes DEF WarmPoolTypeOK
<1>2. \A i \in DOMAIN pools : pools'[i].top >= pools[i].top
    BY <1>1 DEF PoolsKept
<1>3. FillersInOrder'
    <2>1. filler'[a].step \in Filling =>
                filler'[a].pool \in DOMAIN pools' /\ filler'[a].min <= pools'[filler'[a].pool].top
        BY DEF PoolsKept, Filling, Making
    <2>2. filler'[a].hand # 0 <=> filler'[a].step \in Making
        BY DEF Filling, Making
    <2>3. a = "queen" => filler'[a].step \in {"rest"} \cup Filling
        OBVIOUS
    <2> QED
        BY <1>2, <2>1, <2>2, <2>3, OthersInOrder DEF PoolsKept
<1>4. CleanupInOrder'
    BY DEF CleanupInOrder, PoolsKept, Fillers, Filling, Making
<1>5. ClientInOrder'
    BY DEF ClientInOrder, PoolsKept
<1> QED
    BY <1>3, <1>4, <1>5, KeptInOrder DEF WarmPoolTypeOK, PoolsKept

\* Making a pool, or asking for one.
LEMMA EnsurePoolInOrder ==
    ASSUME WarmPoolTypeOK, Shape, NEW min \in Sizes, EnsurePool(min)
    PROVE  WarmPoolTypeOK' /\ Shape'
<1> USE DEF Shape
<1> DEFINE call == [step |-> "size", pool |-> warmPools', min |-> min, hand |-> 0]
<1>0. /\ {"queen", "maintenance"} = Fillers
      /\ pools \in Seq(Pools) /\ DOMAIN pools = 1 .. Len(pools) /\ Len(pools) \in Nat
      /\ \A i \in DOMAIN pools :
            /\ pools[i] \in Pools /\ pools[i].drones \in Seq(Nat) /\ Len(pools[i].drones) \in Nat
            /\ pools[i].min \in Int /\ pools[i].top \in Nat /\ pools[i].idle \in 0 .. 2
    BY PoolTypes DEF Fillers, WarmPoolTypeOK
<1>1. /\ pools' \in Seq(Pools) /\ warmPools' \in DOMAIN pools'
      /\ DOMAIN pools \subseteq DOMAIN pools'
      /\ \A i \in DOMAIN pools : pools'[i].top >= pools[i].top
      /\ min <= pools'[warmPools'].top
      /\ PoolsInOrder'
    <2>1. CASE warmPools = NoPool
        <3>1. AtLeast(min, 0) \in Nat /\ min <= AtLeast(min, 0) /\ min \in Int
            BY SizesAssumption DEF AtLeast
        <3>2. NewPool(min) \in Pools /\ NewPool(min).drones = <<>>
              /\ NewPool(min).min = min /\ NewPool(min).top = AtLeast(min, 0)
            BY <3>1, EmptySeq DEF NewPool, Pools
        <3>3. /\ pools' \in Seq(Pools) /\ Len(pools') = Len(pools) + 1
              /\ \A i \in DOMAIN pools : pools'[i] = pools[i]
              /\ pools'[Len(pools) + 1] = NewPool(min)
              /\ warmPools' = Len(pools) + 1
              /\ DOMAIN pools' = 1 .. Len(pools) + 1
            BY <1>0, <2>1, <3>2, AppendProperties DEF EnsurePool
        <3>4. PoolsInOrder'
            <4>1. Len(<<>>) = 0
                BY EmptySeq
            <4>2. Len(pools'[Len(pools) + 1].drones) = 0
                BY <3>2, <3>3, <4>1
            <4>3. \A i \in DOMAIN pools' : pools'[i].min <= pools'[i].top
                                         /\ Len(pools'[i].drones) <= pools'[i].top
                BY <1>0, <3>1, <3>2, <3>3, <4>2 DEF PoolsInOrder, CurrentSize, WarmDrones
            <4> QED
                BY <1>0, <3>3, <4>3 DEF PoolsInOrder, CurrentSize, WarmDrones
        <3> QED
            BY <1>0, <3>1, <3>2, <3>3, <3>4
    <2>2. CASE warmPools # NoPool
        <3> DEFINE pool == [min |-> min, drones |-> pools[warmPools].drones, idle |-> 0,
                            top |-> AtLeast(pools[warmPools].top, min)]
        <3>1. warmPools \in DOMAIN pools
            BY <2>2 DEF PoolsInOrder
        <3>2. /\ AtLeast(pools[warmPools].top, min) \in Nat /\ min \in Int
              /\ AtLeast(pools[warmPools].top, min) >= pools[warmPools].top
              /\ AtLeast(pools[warmPools].top, min) >= min
            BY <1>0, <3>1, SizesAssumption DEF AtLeast
        <3>3. pool \in Pools
            BY <1>0, <3>1, <3>2 DEF Pools
        <3>4. pools' = [pools EXCEPT ![warmPools] = pool] /\ warmPools' = warmPools
            BY <2>2 DEF EnsurePool
        <3>5. pools' \in Seq(Pools) /\ DOMAIN pools' = DOMAIN pools
            <4> HIDE DEF pool
            <4> QED
                BY <1>0, <3>1, <3>3, <3>4, ExceptSeq
        <3>6. \A i \in DOMAIN pools : pools'[i] = IF i = warmPools THEN pool ELSE pools[i]
            BY <3>4
        <3>7. PoolsInOrder'
            BY <1>0, <3>1, <3>2, <3>4, <3>5, <3>6 DEF PoolsInOrder, CurrentSize, WarmDrones
        <3> QED
            BY <1>0, <3>1, <3>2, <3>4, <3>5, <3>6, <3>7
    <2> QED
        BY <2>1, <2>2
<1>2. warmPools' \in Nat /\ call \in FillCalls
    <2>1. warmPools' \in 1 .. Len(pools')
        BY <1>1, LenProperties
    <2>2. Len(pools') \in Nat
        BY <1>1, LenProperties
    <2>3. warmPools' \in Nat
        BY <2>1, <2>2
    <2>4. min \in Int
        BY SizesAssumption
    <2> QED
        BY <2>3, <2>4 DEF FillCalls
<1>3. /\ filler' \in [Fillers -> FillCalls] /\ filler'["queen"] = call
      /\ filler'["maintenance"] = filler["maintenance"]
    BY <1>0, <1>2, FillerMoves DEF EnsurePool
<1>4. FillersInOrder'
    <2>1. /\ filler'["queen"].step = "size" /\ filler'["queen"].pool = warmPools'
          /\ filler'["queen"].min = min /\ filler'["queen"].hand = 0
        BY <1>3
    <2>2. \A b \in Fillers : b # "queen" => filler'[b] = filler[b]
        BY <1>3 DEF Fillers
    <2> QED
        BY <1>0, <1>1, <2>1, <2>2, OthersInOrder DEF Filling, Making
<1>5. CleanupInOrder' /\ ClientInOrder'
    BY <1>0, <1>1, <1>3 DEF EnsurePool, CleanupInOrder, ClientInOrder
<1> QED
    BY <1>1, <1>2, <1>3, <1>4, <1>5 DEF EnsurePool, WarmPoolTypeOK

\* Filling a pool.
LEMMA FillInOrder ==
    ASSUME FleetTypeOK, WarmPoolTypeOK, Shape, NEW a \in Fillers,
           Filled(a) \/ LaunchWarm(a) \/ RecordWarm(a) \/ Ready(a) \/ Add(a) \/ FillFails(a)
    PROVE  WarmPoolTypeOK' /\ Shape'
<1> USE DEF Shape
<1>0. /\ pools \in Seq(Pools)
      /\ \A i \in DOMAIN pools :
            /\ pools[i] \in Pools /\ pools[i].drones \in Seq(Nat) /\ Len(pools[i].drones) \in Nat
            /\ pools[i].min \in Int /\ pools[i].top \in Nat /\ pools[i].idle \in 0 .. 2
      /\ filler[a] \in FillCalls
    BY PoolTypes DEF WarmPoolTypeOK
<1>1. filler[a].step \in Filling
    BY DEF Filled, LaunchWarm, RecordWarm, Ready, Add, FillFails, Filling, Making
<1>2. ASSUME UNCHANGED pools, OtherThanFill, EndFill(a)
      PROVE  WarmPoolTypeOK' /\ Shape'
    <2>1. PoolsKept
        BY <1>2, UnchangedKept DEF OtherThanFill
    <2>2. /\ filler' \in [Fillers -> FillCalls]
          /\ filler'[a].step = (IF a = "maintenance" THEN "identify" ELSE "rest")
          /\ filler'[a].hand = 0
          /\ \A b \in Fillers : b # a => filler'[b] = filler[b]
        BY <1>2, FillEnds
    <2> QED
        BY <1>1, <1>2, <2>1, <2>2, FillStepInOrder DEF OtherThanFill
<1>3. ASSUME NEW step \in Filling, NEW hand \in Nat, hand # 0 <=> step \in Making,
             DOMAIN filler' = Fillers, \A b \in Fillers : b # a => filler'[b] = filler[b],
             filler'[a] = [step |-> step, pool |-> filler[a].pool,
                           min |-> filler[a].min, hand |-> hand],
             PoolsKept, OtherThanFill, filler' = [b \in Fillers |-> filler'[b]]
      PROVE  WarmPoolTypeOK' /\ Shape'
    <2>1. filler'[a] \in FillCalls
        BY <1>0, <1>3 DEF FillCalls, Filling, Making
    <2>2. /\ filler'[a].step = step /\ filler'[a].pool = filler[a].pool
          /\ filler'[a].min = filler[a].min /\ filler'[a].hand = hand
        BY <1>3
    <2>3. filler' \in [Fillers -> FillCalls]
        BY <1>3, <2>1 DEF WarmPoolTypeOK
    <2>4. filler[a].pool \in DOMAIN pools /\ filler[a].min <= pools[filler[a].pool].top
        BY <1>1 DEF FillersInOrder
    <2> QED
        BY <1>1, <1>3, <2>2, <2>3, <2>4, FillStepInOrder DEF OtherThanFill
<1>4. UNCHANGED pools /\ OtherThanFill => PoolsKept
    BY UnchangedKept DEF OtherThanFill
<1>5. CASE Filled(a)
    BY <1>2, <1>5 DEF Filled
<1>6. CASE FillFails(a)
    BY <1>2, <1>6 DEF FillFails
<1>7. CASE LaunchWarm(a)
    <2>1. launched' \in Nat /\ launched' # 0
        BY <1>7 DEF LaunchWarm, Obtain, FleetTypeOK
    <2>2. /\ filler' = [b \in Fillers |-> filler'[b]]
          /\ \A b \in Fillers : b # a => filler'[b] = filler[b]
          /\ filler'[a] = [step |-> "record", pool |-> filler[a].pool,
                           min |-> filler[a].min, hand |-> launched']
        BY <1>0, <1>7 DEF LaunchWarm, WarmPoolTypeOK, FillCalls
    <2>3. DOMAIN filler' = Fillers
        BY <2>2
    <2> QED
        BY <1>3, <1>4, <1>7, <2>1, <2>2, <2>3 DEF LaunchWarm, Filling, Making
<1>8. CASE RecordWarm(a) \/ Ready(a)
    <2>1. PICK step \in {"ready", "add"} : filler' = [filler EXCEPT ![a].step = step]
        BY <1>8 DEF RecordWarm, Ready
    <2>2. filler[a].hand \in Nat /\ filler[a].hand # 0
        BY <1>0, <1>8 DEF RecordWarm, Ready, FillersInOrder, Making, FillCalls
    <2>3. /\ filler' = [b \in Fillers |-> filler'[b]]
          /\ \A b \in Fillers : b # a => filler'[b] = filler[b]
          /\ filler'[a] = [step |-> step, pool |-> filler[a].pool,
                           min |-> filler[a].min, hand |-> filler[a].hand]
        BY <1>0, <2>1 DEF WarmPoolTypeOK, FillCalls
    <2>4. DOMAIN filler' = Fillers
        BY <2>3
    <2> QED
        BY <1>3, <1>4, <1>8, <2>2, <2>3, <2>4 DEF RecordWarm, Ready, Filling, Making
<1>9. CASE Add(a)
    <2> DEFINE i == filler[a].pool
    <2>1. i \in DOMAIN pools /\ filler[a].min <= pools[i].top
        BY <1>1 DEF FillersInOrder
    <2>2. CASE CurrentSize(i) < filler[a].min
        <3>1. filler[a].hand \in Nat /\ filler[a].min \in Int
            BY <1>0 DEF FillCalls
        <3>2. /\ Append(WarmDrones(i), filler[a].hand) \in Seq(Nat)
              /\ Len(Append(WarmDrones(i), filler[a].hand)) = Len(WarmDrones(i)) + 1
            BY <1>0, <2>1, <3>1, AppendProperties DEF WarmDrones
        <3>3. PoolsKept
            <4>1. Len(WarmDrones(i)) + 1 <= pools[i].top
                BY <1>0, <2>1, <2>2, <3>1 DEF CurrentSize, WarmDrones
            <4>2. PutDrones(i, Append(WarmDrones(i), filler[a].hand), pools[i].idle)
                BY <1>9, <2>2 DEF Add
            <4>3. pools[i].idle \in 0 .. 2 /\ UNCHANGED warmPools
                BY <1>0, <1>9, <2>1 DEF Add, OtherThanFill
            <4> QED
                BY <2>1, <3>2, <4>1, <4>2, <4>3, PutKept
        <3>4. /\ filler' = [b \in Fillers |-> filler'[b]]
              /\ \A b \in Fillers : b # a => filler'[b] = filler[b]
              /\ filler'[a] = [step |-> "size", pool |-> filler[a].pool,
                               min |-> filler[a].min, hand |-> 0]
            BY <1>0, <1>9, <2>2 DEF Add, WarmPoolTypeOK, FillCalls
        <3>5. DOMAIN filler' = Fillers
            BY <3>4
        <3> QED
            BY <1>3, <1>9, <3>3, <3>4, <3>5 DEF Add, Filling, Making
    <2>3. CASE ~(CurrentSize(i) < filler[a].min)
        BY <1>2, <1>9, <2>3 DEF Add
    <2> QED
        BY <2>2, <2>3
<1> QED
    BY <1>5, <1>6, <1>7, <1>8, <1>9

\* The maintenance loop: what it reads of the pool, and the shrinking.
LEMMA CleanupStepInOrder ==
    ASSUME WarmPoolTypeOK, Shape,
           MaintainPools \/ Identify \/ Shrink \/ DiscardVictim \/ EndCleanup
    PROVE  WarmPoolTypeOK' /\ Shape'
<1> USE DEF Shape
<1>0. /\ pools \in Seq(Pools) /\ "maintenance" \in Fillers
      /\ \A i \in DOMAIN pools :
            /\ pools[i] \in Pools /\ pools[i].drones \in Seq(Nat) /\ Len(pools[i].drones) \in Nat
            /\ pools[i].min \in Int /\ pools[i].top \in Nat /\ pools[i].idle \in 0 .. 2
      /\ filler["maintenance"] \in FillCalls /\ cleanup \in Seq(CleanupSteps)
    BY PoolTypes DEF WarmPoolTypeOK, Fillers
<1>1. CASE MaintainPools
    <2> DEFINE call == [step |-> "size", pool |-> warmPools, min |-> pools[warmPools].min,
                        hand |-> 0]
    <2>1. warmPools \in DOMAIN pools /\ pools[warmPools].min <= pools[warmPools].top
        BY <1>1 DEF MaintainPools, PoolsInOrder
    <2>2. call \in FillCalls
        BY <1>0, <2>1 DEF FillCalls, WarmPoolTypeOK
    <2>3. PoolsKept
        BY <1>1, UnchangedKept DEF MaintainPools
    <2>4. /\ filler' \in [Fillers -> FillCalls] /\ filler'["maintenance"] = call
          /\ \A b \in Fillers : b # "maintenance" => filler'[b] = filler[b]
        BY <1>0, <1>1, <2>2, FillerMoves DEF MaintainPools
    <2> QED
        BY <1>0, <1>1, <2>1, <2>3, <2>4, FillStepInOrder DEF MaintainPools, Filling, Making
\* The steps after the fill: the goroutine holds nothing, and the steps of the
\* cleanup name pools that were made.
<1>2. ASSUME PoolsKept, UNCHANGED <<lent, client>>, victims' \in Seq(Nat),
             cleanup' \in Seq(CleanupSteps),
             \A i \in DOMAIN cleanup' : cleanup'[i].pool \in DOMAIN pools,
             NEW step \in {"rest", "shrink", "discard"},
             \/ filler' = [filler EXCEPT !["maintenance"] =
                               [step |-> step, pool |-> NoPool, min |-> 0, hand |-> 0]]
             \/ /\ filler["maintenance"].step \in {"shrink", "discard"}
                /\ filler' = [filler EXCEPT !["maintenance"].step = step],
             step # "rest" => cleanup' # <<>>,
             victims' # <<>> => step = "discard"
      PROVE  WarmPoolTypeOK' /\ Shape'
    <2>1. /\ filler' \in [Fillers -> FillCalls]
          /\ filler'["maintenance"].step = step /\ filler'["maintenance"].hand = 0
          /\ \A b \in Fillers : b # "maintenance" => filler'[b] = filler[b]
        <3>1. CASE filler' = [filler EXCEPT !["maintenance"] =
                                 [step |-> step, pool |-> NoPool, min |-> 0, hand |-> 0]]
            <4>1. [step |-> step, pool |-> NoPool, min |-> 0, hand |-> 0] \in FillCalls
                BY DEF FillCalls, NoPool
            <4> QED
                BY <1>0, <3>1, <4>1, FillerMoves
        <3>2. CASE /\ filler["maintenance"].step \in {"shrink", "discard"}
                   /\ filler' = [filler EXCEPT !["maintenance"].step = step]
            <4>1. filler["maintenance"].hand = 0
                BY <1>0, <3>2 DEF FillersInOrder, Making
            <4> QED
                BY <1>0, <3>2, <4>1 DEF WarmPoolTypeOK, FillCalls
        <3> QED
            BY <1>2, <3>1, <3>2
    <2>2. \A i \in DOMAIN pools : pools'[i].top >= pools[i].top
        BY <1>0, <1>2 DEF PoolsKept
    <2>3. FillersInOrder'
        BY <1>0, <1>2, <2>1, <2>2, OthersInOrder DEF PoolsKept, Filling, Making
    <2>4. CleanupInOrder'
        BY <1>2, <2>1 DEF CleanupInOrder, PoolsKept
    <2>5. ClientInOrder'
        BY <1>2 DEF ClientInOrder, PoolsKept
    <2> QED
        BY <1>2, <2>1, <2>3, <2>4, <2>5, KeptInOrder DEF WarmPoolTypeOK, PoolsKept
<1>3. CASE Identify
    <2> DEFINE i == warmPools
               shrink == i # NoPool /\ pools[i].idle > 0 /\ CurrentSize(i) > pools[i].min
               drop == i # NoPool /\ pools[i].idle > 1 /\ pools[i].min = 0
               one == [pool |-> i, count |-> CurrentSize(i) - pools[i].min, remove |-> FALSE]
               all == [pool |-> i, count |-> CurrentSize(i), remove |-> TRUE]
    <2>1. i # NoPool => i \in DOMAIN pools /\ i \in Nat
        BY DEF PoolsInOrder, WarmPoolTypeOK
    <2>2. shrink => one \in CleanupSteps
        <3>1. shrink => CurrentSize(i) - pools[i].min \in Nat
            BY <1>0, <2>1 DEF CurrentSize, WarmDrones
        <3> QED
            BY <2>1, <3>1 DEF CleanupSteps
    <2>3. drop => all \in CleanupSteps
        BY <1>0, <2>1 DEF CurrentSize, WarmDrones, CleanupSteps
    <2>4. one.pool = i /\ all.pool = i
        OBVIOUS
    <2>5. cleanup' = (IF shrink THEN <<one>> ELSE <<>>) \o (IF drop THEN <<all>> ELSE <<>>)
        BY <1>3 DEF Identify
    <2>6. filler' = [filler EXCEPT !["maintenance"] =
                        [step |-> IF shrink \/ drop THEN "shrink" ELSE "rest",
                         pool |-> NoPool, min |-> 0, hand |-> 0]]
        <3>1. [AtRest EXCEPT !.step = "shrink"] =
                  [step |-> "shrink", pool |-> NoPool, min |-> 0, hand |-> 0]
            BY DEF AtRest
        <3>2. (IF shrink \/ drop THEN [AtRest EXCEPT !.step = "shrink"] ELSE AtRest) =
                  [step |-> IF shrink \/ drop THEN "shrink" ELSE "rest",
                   pool |-> NoPool, min |-> 0, hand |-> 0]
            BY <3>1 DEF AtRest
        <3> QED
            BY <1>3, <3>2 DEF Identify
    <2> HIDE DEF one, all
    <2>7. /\ cleanup' \in Seq(CleanupSteps)
          /\ \A k \in DOMAIN cleanup' : cleanup'[k].pool \in DOMAIN pools
          /\ shrink \/ drop => cleanup' # <<>>
        <3>1. CASE shrink /\ drop
            BY <2>1, <2>2, <2>3, <2>4, <2>5, <3>1
        <3>2. CASE shrink /\ ~drop
            BY <2>1, <2>2, <2>4, <2>5, <3>2
        <3>3. CASE ~shrink /\ drop
            BY <2>1, <2>3, <2>4, <2>5, <3>3
        <3>4. CASE ~shrink /\ ~drop
            BY <2>5, <3>4
        <3> QED
            BY <3>1, <3>2, <3>3, <3>4
    <2>8. PoolsKept /\ victims' = <<>> /\ UNCHANGED <<lent, client>>
        BY <1>3, UnchangedKept DEF Identify, CleanupInOrder
    <2> HIDE DEF shrink, drop
    <2>9. CASE shrink \/ drop
        <3>1. filler' = [filler EXCEPT !["maintenance"] =
                            [step |-> "shrink", pool |-> NoPool, min |-> 0, hand |-> 0]]
            BY <2>6, <2>9
        <3> QED
            BY <1>2, <2>7, <2>8, <2>9, <3>1, EmptySeq
    <2>10. CASE ~(shrink \/ drop)
        BY <1>2, <2>6, <2>7, <2>8, <2>10
    <2> QED
        BY <2>9, <2>10
<1>4. CASE Shrink
    <2> DEFINE i == Head(cleanup).pool
               n == IF Head(cleanup).count > CurrentSize(i) THEN CurrentSize(i)
                    ELSE Head(cleanup).count
    <2>1. cleanup # <<>> /\ Head(cleanup) = cleanup[1] /\ 1 \in DOMAIN cleanup
        BY <1>0, <1>4 DEF Shrink, CleanupInOrder
    <2>2. i \in DOMAIN pools /\ n \in Nat /\ n <= CurrentSize(i) /\ CurrentSize(i) \in Nat
        <3>1. i \in DOMAIN pools
            BY <2>1 DEF CleanupInOrder
        <3>2. CurrentSize(i) \in Nat
            BY <1>0, <3>1 DEF CurrentSize, WarmDrones
        <3>3. Head(cleanup).count \in Nat
            <4>1. cleanup[1] \in CleanupSteps
                BY <1>0, <2>1
            <4> QED
                BY <2>1, <4>1 DEF CleanupSteps
        <3> QED
            BY <3>1, <3>2, <3>3
    <2> DEFINE rest == SubSeq(WarmDrones(i), n + 1, CurrentSize(i))
               taken == SubSeq(WarmDrones(i), 1, n)
    <2>3. /\ victims' = taken /\ PutDrones(i, rest, pools[i].idle)
          /\ filler["maintenance"].step = "shrink"
          /\ filler' = [filler EXCEPT !["maintenance"].step = "discard"]
          /\ UNCHANGED <<warmPools, cleanup, lent, client>>
        BY <1>4 DEF Shrink
    <2> HIDE DEF i, n
    <2>4. /\ taken \in Seq(Nat) /\ rest \in Seq(Nat) /\ Len(rest) <= CurrentSize(i)
        <3>1. WarmDrones(i) \in Seq(Nat) /\ Len(WarmDrones(i)) = CurrentSize(i)
            BY <1>0, <2>2 DEF WarmDrones, CurrentSize
        <3> QED
            BY <2>2, <3>1, SubSeqProperties
    <2>5. Len(rest) <= pools[i].top
        <3>1. Len(rest) \in Nat /\ pools[i].top \in Nat /\ CurrentSize(i) <= pools[i].top
            BY <1>0, <2>2, <2>4, LenProperties DEF PoolsInOrder
        <3> HIDE DEF rest
        <3> QED
            BY <2>2, <2>4, <3>1
    <2> HIDE DEF rest, taken
    <2>6. PoolsKept
        BY <1>0, <2>2, <2>3, <2>4, <2>5, PutKept
    <2> QED
        BY <1>0, <1>2, <2>1, <2>3, <2>4, <2>6 DEF CleanupInOrder
<1>5. CASE DiscardVictim
    <2>1. Tail(victims) \in Seq(Nat)
        BY <1>5 DEF DiscardVictim, WarmPoolTypeOK
    <2>2. PoolsKept
        BY <1>5, UnchangedKept DEF DiscardVictim
    <2>3. filler' = [filler EXCEPT !["maintenance"].step = "discard"]
        BY <1>5 DEF DiscardVictim, WarmPoolTypeOK, FillCalls
    <2>4. cleanup # <<>>
        BY <1>5 DEF DiscardVictim, CleanupInOrder
    <2> QED
        BY <1>0, <1>2, <1>5, <2>1, <2>2, <2>3, <2>4 DEF DiscardVictim, CleanupInOrder
<1>6. CASE EndCleanup
    <2>1. cleanup # <<>>
        BY <1>6 DEF EndCleanup, CleanupInOrder
    <2>2. /\ Tail(cleanup) \in Seq(CleanupSteps)
          /\ \A k \in DOMAIN Tail(cleanup) : Tail(cleanup)[k].pool \in DOMAIN pools
        BY <1>0, <2>1 DEF CleanupInOrder
    <2>3. filler' = [filler EXCEPT !["maintenance"] =
                        [step |-> IF Tail(cleanup) = <<>> THEN "rest" ELSE "shrink",
                         pool |-> NoPool, min |-> 0, hand |-> 0]]
        <3>1. [AtRest EXCEPT !.step = "shrink"] =
                  [step |-> "shrink", pool |-> NoPool, min |-> 0, hand |-> 0]
            BY DEF AtRest
        <3>2. (IF Tail(cleanup) = <<>> THEN AtRest ELSE [AtRest EXCEPT !.step = "shrink"]) =
                  [step |-> IF Tail(cleanup) = <<>> THEN "rest" ELSE "shrink",
                   pool |-> NoPool, min |-> 0, hand |-> 0]
            BY <3>1 DEF AtRest
        <3> QED
            BY <1>6, <3>2 DEF EndCleanup
    <2>4. PoolsKept
        BY <1>6, UnchangedKept DEF EndCleanup
    <2> QED
        BY <1>2, <1>6, <2>2, <2>3, <2>4 DEF EndCleanup, WarmPoolTypeOK
<1> QED
    BY <1>1, <1>3, <1>4, <1>5, <1>6

\* The clients of the pool, and time.
LEMMA ClientStepInOrder ==
    ASSUME WarmPoolTypeOK, Shape, 0 \notin lent,
           \/ AskDrone \/ GetWarmDrone \/ CheckReturned \/ ReturnDrone
           \/ \E p \in lent : BringBack(p)
           \/ TimePasses
           \/ UNCHANGED warmpool
    PROVE  WarmPoolTypeOK' /\ Shape'
<1> USE DEF Shape
<1> DEFINE Calls == [step : {"rest", "take", "check", "put"}, pool : Nat, drone : Nat]
<1>0. /\ pools \in Seq(Pools) /\ client \in Calls /\ NoCall \in Calls
      /\ \A i \in DOMAIN pools :
            /\ pools[i] \in Pools /\ pools[i].drones \in Seq(Nat) /\ Len(pools[i].drones) \in Nat
            /\ pools[i].min \in Int /\ pools[i].top \in Nat /\ pools[i].idle \in 0 .. 2
    BY PoolTypes DEF WarmPoolTypeOK, NoCall, NoPool
<1>1. ASSUME PoolsKept, UNCHANGED <<warmPools, filler, cleanup, victims>>, lent' \subseteq Nat,
             client' \in Calls, client'.step # "rest" => client'.pool \in DOMAIN pools,
             client'.drone # 0 <=> client'.step \in {"check", "put"}
      PROVE  WarmPoolTypeOK' /\ Shape'
    <2>1. FillersInOrder'
        BY <1>0, <1>1 DEF FillersInOrder, PoolsKept
    <2>2. CleanupInOrder' /\ ClientInOrder'
        BY <1>1 DEF CleanupInOrder, ClientInOrder, PoolsKept
    <2> QED
        BY <1>1, <2>1, <2>2, KeptInOrder DEF WarmPoolTypeOK, PoolsKept
<1>2. NoCall.step = "rest" /\ NoCall.drone = 0
    BY DEF NoCall
<1>3. UNCHANGED <<warmPools, pools>> => PoolsKept
    BY UnchangedKept
<1>4. CASE AskDrone
    BY <1>0, <1>1, <1>3, <1>4 DEF AskDrone, WarmPoolTypeOK, PoolsInOrder
<1>5. CASE GetWarmDrone
    <2> DEFINE i == client.pool
    <2>1. i \in DOMAIN pools
        BY <1>5 DEF GetWarmDrone, ClientInOrder
    <2>2. CASE WarmDrones(i) = <<>>
        BY <1>0, <1>1, <1>2, <1>3, <1>5, <2>2 DEF GetWarmDrone, WarmPoolTypeOK
    <2>3. CASE WarmDrones(i) # <<>>
        <3>1. WarmDrones(i) \in Seq(Nat) /\ CurrentSize(i) = Len(WarmDrones(i))
            BY <1>0, <2>1 DEF WarmDrones, CurrentSize
        <3>2. /\ Tail(WarmDrones(i)) \in Seq(Nat) /\ Head(WarmDrones(i)) \in Nat
              /\ Len(Tail(WarmDrones(i))) = CurrentSize(i) - 1
            BY <2>3, <3>1
        <3>3. Len(Tail(WarmDrones(i))) <= pools[i].top
            BY <1>0, <2>1, <3>1, <3>2, LenProperties DEF PoolsInOrder
        <3>4. PoolsKept
            <4>1. PutDrones(i, Tail(WarmDrones(i)), 0) /\ UNCHANGED warmPools
                BY <1>5, <2>3 DEF GetWarmDrone
            <4>2. 0 \in 0 .. 2
                OBVIOUS
            <4> QED
                BY <2>1, <3>2, <3>3, <4>1, <4>2, PutKept
        <3>5. lent' \subseteq Nat
            BY <1>5, <2>3, <3>2 DEF GetWarmDrone, WarmPoolTypeOK
        <3> QED
            BY <1>0, <1>1, <1>2, <1>5, <3>4, <3>5 DEF GetWarmDrone
    <2> QED
        BY <2>2, <2>3
<1>6. CASE CheckReturned
    BY <1>0, <1>1, <1>2, <1>3, <1>6 DEF CheckReturned, WarmPoolTypeOK, ClientInOrder
<1>7. CASE ReturnDrone
    <2> DEFINE i == client.pool
    <2>1. i \in DOMAIN pools
        BY <1>7 DEF ReturnDrone, ClientInOrder
    <2>2. CASE CurrentSize(i) < pools[i].min
        <3>1. WarmDrones(i) \in Seq(Nat) /\ CurrentSize(i) = Len(WarmDrones(i))
            BY <1>0, <2>1 DEF WarmDrones, CurrentSize
        <3>2. /\ Append(WarmDrones(i), client.drone) \in Seq(Nat)
              /\ Len(Append(WarmDrones(i), client.drone)) = CurrentSize(i) + 1
            BY <1>0, <3>1, AppendProperties
        <3>3. CurrentSize(i) + 1 <= pools[i].top
            BY <1>0, <2>1, <2>2, <3>1, LenProperties DEF PoolsInOrder
        <3>4. PoolsKept
            <4>1. PutDrones(i, Append(WarmDrones(i), client.drone), 0) /\ UNCHANGED warmPools
                BY <1>7, <2>2 DEF ReturnDrone
            <4>2. 0 \in 0 .. 2
                OBVIOUS
            <4> QED
                BY <2>1, <3>2, <3>3, <4>1, <4>2, PutKept
        <3> QED
            BY <1>0, <1>1, <1>2, <1>7, <3>4 DEF ReturnDrone, WarmPoolTypeOK
    <2>3. CASE ~(CurrentSize(i) < pools[i].min)
        BY <1>0, <1>1, <1>2, <1>3, <1>7, <2>3 DEF ReturnDrone, WarmPoolTypeOK
    <2> QED
        BY <2>2, <2>3
<1>8. ASSUME NEW p \in lent, BringBack(p)
      PROVE  WarmPoolTypeOK' /\ Shape'
    <2>1. p \in Nat /\ p # 0
        BY DEF WarmPoolTypeOK
    <2> QED
        BY <1>0, <1>1, <1>2, <1>3, <1>8, <2>1 DEF BringBack, WarmPoolTypeOK, PoolsInOrder
<1>9. CASE TimePasses
    <2> DEFINE i == warmPools
    <2>1. i \in DOMAIN pools
        BY <1>9 DEF TimePasses, PoolsInOrder
    <2>2. PutDrones(i, pools[i].drones, pools[i].idle + 1)
        <3>1. [pools[i] EXCEPT !.idle = pools[i].idle + 1] =
                  [min |-> pools[i].min, drones |-> pools[i].drones,
                   idle |-> pools[i].idle + 1, top |-> pools[i].top]
            <4>1. \A pool \in Pools, n \in Int :
                     [pool EXCEPT !.idle = n] = [min |-> pool.min, drones |-> pool.drones,
                                                 idle |-> n, top |-> pool.top]
                BY DEF Pools
            <4>2. pools[i].idle + 1 \in Int
                BY <1>0, <2>1
            <4> QED
                BY <1>0, <2>1, <4>1, <4>2
        <3>2. pools' = [pools EXCEPT ![i] = [pools[i] EXCEPT !.idle = pools[i].idle + 1]]
            BY <1>9 DEF TimePasses
        <3> QED
            BY <3>1, <3>2 DEF PutDrones
    <2>3. pools[i].idle + 1 \in 0 .. 2
        BY <1>0, <1>9, <2>1 DEF TimePasses
    <2>4. PoolsKept
        BY <1>0, <1>9, <2>1, <2>2, <2>3, PutKept
           DEF TimePasses, PoolsInOrder, CurrentSize, WarmDrones
    <2> QED
        BY <1>0, <1>1, <1>9, <2>4 DEF TimePasses, WarmPoolTypeOK, ClientInOrder
<1>10. CASE UNCHANGED warmpool
    BY <1>0, <1>1, <1>3, <1>10 DEF warmpool, WarmPoolTypeOK, ClientInOrder
<1> QED
    BY <1>4, <1>5, <1>6, <1>7, <1>8, <1>9, <1>10

--------------------------------------------------------------------------------
(* Who holds a drone.                                                      *)

\* Drones that only one holder gets stay apart.
LEMMA HeldMoves ==
    ASSUME Known, Apart, launched \in Nat, launched' \in Nat, launched' >= launched,
           NEW to \in Holders, NEW moved \in SUBSET (1 .. launched'),
           \A h \in Holders \ {to} : Held(h)' \subseteq Held(h) /\ Held(h)' \cap moved = {},
           Held(to)' \subseteq Held(to) \cup moved
    PROVE  Known' /\ Apart'
<1>1. \A h \in Holders : Held(h) \subseteq 1 .. launched'
    BY DEF Known
<1>2. Known'
    BY <1>1 DEF Known
<1>3. Apart'
    BY DEF Apart
<1> QED
    BY <1>2, <1>3

LEMMA HeldStays ==
    ASSUME Known, Apart, launched \in Nat, launched' \in Nat, launched' >= launched,
           \A h \in Holders : Held(h)' \subseteq Held(h)
    PROVE  Known' /\ Apart'
<1>1. \A h \in Holders : Held(h) \subseteq 1 .. launched'
    BY DEF Known
<1> QED
    BY <1>1 DEF Known, Apart

\* Pools that keep a suffix of their drones, `shift` of them gone, still have
\* every drone once, and none of those that are gone.
LEMMA PooledStay ==
    ASSUME PooledOnce, pools \in Seq(Pools), pools' \in Seq(Pools),
           NEW shift \in [DOMAIN pools' -> Nat],
           \A k \in DOMAIN pools' : \A j \in DOMAIN pools'[k].drones :
               /\ k \in DOMAIN pools /\ j + shift[k] \in DOMAIN pools[k].drones
               /\ pools'[k].drones[j] = pools[k].drones[j + shift[k]]
    PROVE  /\ PooledOnce' /\ Pooled' \subseteq Pooled
           /\ \A k \in DOMAIN pools \cap DOMAIN pools' : \A j \in DOMAIN pools[k].drones :
                  j <= shift[k] => pools[k].drones[j] \notin Pooled'
<1> USE DEF WarmDrones
<1>1. /\ \A k \in DOMAIN pools : \A j \in DOMAIN pools[k].drones : j \in Nat
      /\ \A k \in DOMAIN pools' : \A j \in DOMAIN pools'[k].drones : j \in Nat /\ j > 0
    <2>1. /\ \A k \in DOMAIN pools : pools[k].drones \in Seq(Nat)
          /\ \A k \in DOMAIN pools' : pools'[k].drones \in Seq(Nat)
        BY PoolTypes
    <2>2. \A s \in Seq(Nat) : \A j \in DOMAIN s : j \in Nat /\ j > 0
        BY LenProperties
    <2> QED
        BY <2>1, <2>2
<1>2. PooledOnce'
    <2> SUFFICES ASSUME NEW i \in DOMAIN pools', NEW k \in DOMAIN pools',
                        NEW j \in DOMAIN pools'[i].drones, NEW l \in DOMAIN pools'[k].drones,
                        pools'[i].drones[j] = pools'[k].drones[l]
                 PROVE  i = k /\ j = l
        BY DEF PooledOnce
    <2>1. i = k /\ j + shift[i] = l + shift[k]
        <3>1. /\ i \in DOMAIN pools /\ j + shift[i] \in DOMAIN pools[i].drones
              /\ k \in DOMAIN pools /\ l + shift[k] \in DOMAIN pools[k].drones
              /\ pools[i].drones[j + shift[i]] = pools[k].drones[l + shift[k]]
            OBVIOUS
        <3>2. \A m \in DOMAIN pools[i].drones, n \in DOMAIN pools[k].drones :
                  pools[i].drones[m] = pools[k].drones[n] => i = k /\ m = n
            BY <3>1 DEF PooledOnce
        <3> QED
            BY <3>1, <3>2
    <2> QED
        BY <1>1, <2>1
<1>3. Pooled' \subseteq Pooled
    BY DEF Pooled
<1>4. ASSUME NEW k \in DOMAIN pools \cap DOMAIN pools', NEW j \in DOMAIN pools[k].drones,
             j <= shift[k], pools[k].drones[j] \in Pooled'
      PROVE  FALSE
    <2>1. PICK i \in DOMAIN pools' : \E l \in DOMAIN pools'[i].drones :
              pools'[i].drones[l] = pools[k].drones[j]
        BY <1>4 DEF Pooled
    <2>2. PICK l \in DOMAIN pools'[i].drones : pools'[i].drones[l] = pools[k].drones[j]
        BY <2>1
    <2>3. i = k /\ l + shift[i] = j
        <3>1. /\ i \in DOMAIN pools /\ l + shift[i] \in DOMAIN pools[i].drones
              /\ pools[i].drones[l + shift[i]] = pools[k].drones[j]
            BY <2>2
        <3>2. \A m \in DOMAIN pools[i].drones, n \in DOMAIN pools[k].drones :
                  pools[i].drones[m] = pools[k].drones[n] => i = k /\ m = n
            BY <3>1 DEF PooledOnce
        <3> QED
            BY <3>1, <3>2
    <2> QED
        BY <1>1, <1>4, <2>3
<1> QED
    BY <1>2, <1>3, <1>4

\* A pool that gets a drone which is in none.
LEMMA PooledJoin ==
    ASSUME PooledOnce, WarmPoolTypeOK, NEW p \in Nat, p \notin Pooled, NEW i \in DOMAIN pools,
           NEW idle \in 0 .. 2, PutDrones(i, Append(WarmDrones(i), p), idle)
    PROVE  PooledOnce' /\ Pooled' \subseteq Pooled \cup {p}
<1> USE DEF WarmDrones
<1>1. \A k \in DOMAIN pools : pools[k].drones \in Seq(Nat)
    BY PoolTypes DEF WarmPoolTypeOK
<1> DEFINE n == Len(pools[i].drones)
<1>2. /\ Append(pools[i].drones, p) \in Seq(Nat) /\ n \in Nat
      /\ DOMAIN pools[i].drones = 1 .. n
      /\ DOMAIN Append(pools[i].drones, p) = 1 .. n + 1
      /\ \A j \in 1 .. n : Append(pools[i].drones, p)[j] = pools[i].drones[j]
      /\ Append(pools[i].drones, p)[n + 1] = p
    <2>1. pools[i].drones \in Seq(Nat)
        BY <1>1
    <2> QED
        BY <2>1, AppendProperties, LenProperties
<1> HIDE DEF n
<1>3. /\ DOMAIN pools' = DOMAIN pools
      /\ \A k \in DOMAIN pools :
             pools'[k].drones = IF k = i THEN Append(pools[i].drones, p) ELSE pools[k].drones
    BY <1>2, PutDronesProperties
<1>4. \A k \in DOMAIN pools : \A j \in DOMAIN pools'[k].drones :
          \/ k = i /\ j = n + 1 /\ pools'[k].drones[j] = p
          \/ j \in DOMAIN pools[k].drones /\ pools'[k].drones[j] = pools[k].drones[j]
    <2>1. ASSUME NEW j \in DOMAIN pools'[i].drones
          PROVE  \/ j = n + 1 /\ pools'[i].drones[j] = p
                 \/ j \in DOMAIN pools[i].drones /\ pools'[i].drones[j] = pools[i].drones[j]
        <3>1. pools'[i].drones = Append(pools[i].drones, p)
            BY <1>3
        <3>2. j \in 1 .. n + 1
            BY <1>2, <3>1
        <3>3. j = n + 1 \/ j \in 1 .. n
            BY <1>2, <3>2
        <3> QED
            BY <1>2, <3>1, <3>3
    <2>2. ASSUME NEW k \in DOMAIN pools, k # i
          PROVE  pools'[k].drones = pools[k].drones
        BY <1>3, <2>2
    <2> QED
        BY <2>1, <2>2
<1>5. \A k \in DOMAIN pools : \A j \in DOMAIN pools[k].drones : pools[k].drones[j] # p
    BY DEF Pooled
<1>6. PooledOnce'
    <2> SUFFICES ASSUME NEW h \in DOMAIN pools, NEW k \in DOMAIN pools,
                        NEW j \in DOMAIN pools'[h].drones, NEW l \in DOMAIN pools'[k].drones,
                        pools'[h].drones[j] = pools'[k].drones[l]
                 PROVE  h = k /\ j = l
        BY <1>3 DEF PooledOnce
    <2> QED
        BY <1>4, <1>5 DEF PooledOnce
<1>7. Pooled' \subseteq Pooled \cup {p}
    BY <1>3, <1>4 DEF Pooled
<1> QED
    BY <1>6, <1>7

Safe == Known /\ Apart /\ PooledOnce /\ IsInjective(victims)

\* What the steps of the pool assume of the state and of the fleet.
PoolReady ==
    /\ FleetTypeOK /\ WarmPoolTypeOK /\ Shape /\ Safe
    /\ launched' \in Nat /\ launched' >= launched /\ UNCHANGED scaler

LEMMA SameDrones ==
    ASSUME PooledOnce, pools \in Seq(Pools), pools' \in Seq(Pools),
           \A k \in DOMAIN pools' : \A j \in DOMAIN pools'[k].drones :
               /\ k \in DOMAIN pools /\ j \in DOMAIN pools[k].drones
               /\ pools'[k].drones[j] = pools[k].drones[j]
    PROVE  PooledOnce' /\ Pooled' \subseteq Pooled
<1> DEFINE shift == [k \in DOMAIN pools' |-> 0]
<1>1. shift \in [DOMAIN pools' -> Nat]
    OBVIOUS
<1>2. ASSUME NEW k \in DOMAIN pools', NEW j \in DOMAIN pools'[k].drones
      PROVE  /\ k \in DOMAIN pools /\ j + shift[k] \in DOMAIN pools[k].drones
             /\ pools'[k].drones[j] = pools[k].drones[j + shift[k]]
    <2>1. pools'[k].drones \in Seq(Nat)
        BY PoolTypes
    <2>2. j \in Nat
        BY <2>1, LenProperties
    <2>3. j + shift[k] = j
        BY <2>2
    <2> QED
        BY <2>3
<1> HIDE DEF shift
<1> QED
    BY <1>1, <1>2, PooledStay

\* Filling moves the drone that was made into the pool.
LEMMA FillSafe ==
    ASSUME PoolReady, NEW a \in Fillers,
           Filled(a) \/ LaunchWarm(a) \/ RecordWarm(a) \/ Ready(a) \/ Add(a) \/ FillFails(a)
    PROVE  Safe'
<1> USE DEF PoolReady, Safe
<1>0. /\ a \in Holders /\ filler[a] \in FillCalls /\ launched \in Nat
      /\ UNCHANGED <<victims, lent, client>>
    BY DEF Fillers, Holders, WarmPoolTypeOK, FleetTypeOK, OtherThanFill,
           Filled, LaunchWarm, RecordWarm, Ready, Add, FillFails
<1>1. IsInjective(victims)'
    BY <1>0
<1>2. \A h \in Fillers : Held(h) = {filler[h].hand} \ {0} /\ Held(h)' = {filler'[h].hand} \ {0}
    BY DEF Fillers, Held
<1>3. ASSUME \A b \in Fillers : b # a => filler'[b] = filler[b]
      PROVE  \A h \in Holders \ {a, "pool"} : Held(h)' = Held(h)
    BY <1>0, <1>2, <1>3 DEF Fillers, Holders, Held
<1>4. UNCHANGED pools => PooledOnce' /\ Held("pool")' = Held("pool")
    BY DEF PooledOnce, Held, Pooled, WarmDrones
<1>5. ASSUME UNCHANGED pools, EndFill(a)
      PROVE  Safe'
    <2>1. filler'[a].hand = 0 /\ \A b \in Fillers : b # a => filler'[b] = filler[b]
        BY <1>5, FillEnds
    <2>2. \A h \in Holders : Held(h)' \subseteq Held(h)
        BY <1>2, <1>3, <1>4, <1>5, <2>1
    <2> QED
        BY <1>0, <1>1, <1>4, <1>5, <2>2, HeldStays
<1>6. CASE Filled(a) \/ FillFails(a)
    BY <1>5, <1>6 DEF Filled, FillFails
<1>7. CASE LaunchWarm(a)
    <2>1. launched' = launched + 1
        BY <1>7 DEF LaunchWarm, Obtain
    <2>2. filler'[a].hand = launched' /\ \A b \in Fillers : b # a => filler'[b] = filler[b]
        BY <1>7 DEF LaunchWarm, WarmPoolTypeOK
    <2>3. \A h \in Holders \ {a} : Held(h)' \subseteq Held(h) /\ Held(h)' \cap {launched'} = {}
        <3>1. \A h \in Holders : launched' \notin Held(h)
            BY <1>0, <2>1 DEF Known
        <3> QED
            BY <1>3, <1>4, <1>7, <2>2, <3>1 DEF LaunchWarm
    <2>4. Held(a)' \subseteq Held(a) \cup {launched'} /\ {launched'} \in SUBSET (1 .. launched')
        BY <1>0, <1>2, <2>1, <2>2
    <2> QED
        BY <1>0, <1>1, <1>4, <1>7, <2>3, <2>4, HeldMoves DEF LaunchWarm
<1>8. CASE RecordWarm(a) \/ Ready(a)
    <2>1. filler'[a].hand = filler[a].hand /\ \A b \in Fillers : b # a => filler'[b] = filler[b]
        <3>1. PICK step \in {"ready", "add"} : filler' = [filler EXCEPT ![a].step = step]
            BY <1>8 DEF RecordWarm, Ready
        <3> QED
            BY <1>0, <3>1 DEF WarmPoolTypeOK, FillCalls
    <2>2. \A h \in Holders : Held(h)' \subseteq Held(h)
        BY <1>2, <1>3, <1>4, <1>8, <2>1 DEF RecordWarm, Ready
    <2> QED
        BY <1>0, <1>1, <1>4, <1>8, <2>2, HeldStays DEF RecordWarm, Ready
<1>9. CASE Add(a)
    <2> DEFINE i == filler[a].pool
               p == filler[a].hand
    <2>1. CASE CurrentSize(i) < filler[a].min
        <3>1. p \in Nat /\ p # 0 /\ Held(a) = {p}
            BY <1>0, <1>2, <1>9 DEF Add, FillersInOrder, Shape, Making, FillCalls
        <3>2. p \notin Held("pool") /\ Held("pool") = Pooled /\ Held("pool")' = Pooled'
            BY <1>0, <3>1 DEF Apart, Held, Fillers, Holders
        <3>3. PooledOnce' /\ Pooled' \subseteq Pooled \cup {p}
            <4>1. i \in DOMAIN pools
                BY <1>9 DEF Add, FillersInOrder, Shape, Filling, Making
            <4>2. pools[i].idle \in 0 .. 2
                BY <4>1, PoolTypes DEF WarmPoolTypeOK
            <4>3. PutDrones(i, Append(WarmDrones(i), p), pools[i].idle)
                BY <1>9, <2>1 DEF Add
            <4> QED
                BY <3>1, <3>2, <4>1, <4>2, <4>3, PooledJoin
        <3>4. filler'[a].hand = 0 /\ \A b \in Fillers : b # a => filler'[b] = filler[b]
            BY <1>0, <1>9, <2>1 DEF Add, WarmPoolTypeOK, FillCalls
        <3>5. Held(a)' = {}
            BY <1>2, <3>4
        <3>6. \A h \in Holders \ {"pool"} : Held(h)' \subseteq Held(h) /\ Held(h)' \cap {p} = {}
            <4>1. \A h \in Holders \ {a} : p \notin Held(h)
                BY <1>0, <3>1 DEF Apart
            <4> QED
                BY <1>3, <3>4, <3>5, <4>1
        <3>7. {p} \in SUBSET (1 .. launched')
            <4>1. p \in 1 .. launched
                BY <1>0, <3>1 DEF Known
            <4> QED
                BY <1>0, <4>1
        <3>8. "pool" \in Holders
            BY DEF Holders
        <3>9. Known' /\ Apart'
            <4> HIDE DEF p
            <4> QED
                BY <1>0, <3>2, <3>3, <3>6, <3>7, <3>8, HeldMoves
        <3> QED
            BY <1>1, <3>3, <3>9
    <2>2. CASE ~(CurrentSize(i) < filler[a].min)
        BY <1>5, <1>9, <2>2 DEF Add
    <2> QED
        BY <2>1, <2>2
<1> QED
    BY <1>6, <1>7, <1>8, <1>9

\* Shrinking takes the drones out of the pool before it deletes them, and a
\* pool that is asked for keeps its drones.
LEMMA CleanupSafe ==
    ASSUME PoolReady,
           \/ \E min \in Sizes : EnsurePool(min)
           \/ MaintainPools \/ Identify \/ Shrink \/ DiscardVictim \/ EndCleanup
    PROVE  Safe'
<1> USE DEF PoolReady, Safe
<1>0. /\ launched \in Nat /\ pools \in Seq(Pools) /\ filler \in [Fillers -> FillCalls]
      /\ UNCHANGED <<lent, client>> /\ Fillers = {"queen", "maintenance"}
      /\ cleanup \in Seq(CleanupSteps)
    BY DEF FleetTypeOK, WarmPoolTypeOK, EnsurePool, MaintainPools, Identify, Shrink,
           DiscardVictim, EndCleanup, Fillers
<1>1. ASSUME Held("pool")' \subseteq Held("pool"), Held("victims")' \subseteq Held("victims"),
             \A a \in Fillers : filler'[a].hand \in {filler[a].hand, 0}
      PROVE  Known' /\ Apart'
    <2>1. \A h \in Holders : Held(h)' \subseteq Held(h)
        BY <1>0, <1>1 DEF Holders, Held, Fillers
    <2> QED
        BY <1>0, <2>1, HeldStays
<1>2. UNCHANGED pools => PooledOnce' /\ Held("pool")' = Held("pool")
    BY DEF PooledOnce, Held, Pooled, WarmDrones
<1>3. UNCHANGED victims => IsInjective(victims)' /\ Held("victims")' = Held("victims")
    BY DEF Held
<1>4. Held("pool") = Pooled /\ Held("pool")' = Pooled'
    BY DEF Held
<1>5. Held("victims") = Range(victims) /\ Held("victims")' = Range(victims')
    BY DEF Held
<1>6. ASSUME NEW min \in Sizes, EnsurePool(min) PROVE Safe'
    <2>1. pools' \in Seq(Pools)
        BY <1>6, EnsurePoolInOrder DEF WarmPoolTypeOK
    <2>2. ASSUME NEW k \in DOMAIN pools', NEW j \in DOMAIN pools'[k].drones
          PROVE  /\ k \in DOMAIN pools /\ j \in DOMAIN pools[k].drones
                 /\ pools'[k].drones[j] = pools[k].drones[j]
        <3>1. CASE warmPools = NoPool
            <4>1. pools' = Append(pools, NewPool(min)) /\ NewPool(min).drones = <<>>
                BY <1>6, <3>1 DEF EnsurePool, NewPool
            <4>2. /\ Len(pools) \in Nat /\ DOMAIN pools = 1 .. Len(pools)
                  /\ DOMAIN pools' = 1 .. Len(pools) + 1
                  /\ \A i \in 1 .. Len(pools) : pools'[i] = pools[i]
                  /\ pools'[Len(pools) + 1] = NewPool(min)
                <5> HIDE DEF NewPool
                <5>1. NewPool(min) \in Pools
                    <6>1. AtLeast(min, 0) \in Nat /\ min \in Int
                        BY SizesAssumption DEF AtLeast
                    <6> QED
                        BY <6>1, EmptySeq DEF NewPool, Pools
                <5> QED
                    BY <1>0, <4>1, <5>1, AppendProperties, LenProperties
            <4>3. k = Len(pools) + 1 \/ k \in 1 .. Len(pools)
                BY <4>2
            <4>4. DOMAIN <<>> = {}
                BY EmptySeq
            <4>5. k # Len(pools) + 1
                BY <4>1, <4>2, <4>4
            <4> QED
                BY <4>2, <4>3, <4>5
        <3>2. CASE warmPools # NoPool
            <4> DEFINE pool == [min |-> min, drones |-> pools[warmPools].drones, idle |-> 0,
                                top |-> AtLeast(pools[warmPools].top, min)]
            <4>1. pools' = [pools EXCEPT ![warmPools] = pool]
                BY <1>6, <3>2 DEF EnsurePool
            <4>2. pool.drones = pools[warmPools].drones
                OBVIOUS
            <4> HIDE DEF pool
            <4>3. DOMAIN pools' = DOMAIN pools
                  /\ \A i \in DOMAIN pools : pools'[i].drones = pools[i].drones
                BY <4>1, <4>2
            <4> QED
                BY <4>3
        <3> QED
            BY <3>1, <3>2
    <2>3. PooledOnce' /\ Pooled' \subseteq Pooled
        BY <1>0, <2>1, <2>2, SameDrones
    <2>4. UNCHANGED victims /\ \A a \in Fillers : filler'[a].hand \in {filler[a].hand, 0}
        <3>1. filler'["queen"].hand = 0 /\ filler'["maintenance"] = filler["maintenance"]
            BY <1>0, <1>6 DEF EnsurePool
        <3> QED
            BY <1>0, <1>6, <3>1 DEF EnsurePool
    <2> QED
        BY <1>1, <1>3, <1>4, <2>3, <2>4
<1>7. CASE MaintainPools
    <2>1. \A a \in Fillers : filler'[a].hand \in {filler[a].hand, 0}
        BY <1>0, <1>7 DEF MaintainPools
    <2> QED
        BY <1>1, <1>2, <1>3, <1>7, <2>1 DEF MaintainPools
<1>8. CASE Identify
    <2>1. \A a \in Fillers : filler'[a].hand \in {filler[a].hand, 0}
        <3>1. PICK call : call.hand = 0 /\ filler' = [filler EXCEPT !["maintenance"] = call]
            <4>1. AtRest.hand = 0 /\ [AtRest EXCEPT !.step = "shrink"].hand = 0
                BY DEF AtRest
            <4> QED
                BY <1>8, <4>1 DEF Identify
        <3> QED
            BY <1>0, <3>1
    <2> QED
        BY <1>1, <1>2, <1>3, <1>8, <2>1 DEF Identify
<1>9. CASE Shrink
    <2> DEFINE i == Head(cleanup).pool
               n == IF Head(cleanup).count > CurrentSize(i) THEN CurrentSize(i)
                    ELSE Head(cleanup).count
               ds == WarmDrones(i)
               rest == SubSeq(ds, n + 1, CurrentSize(i))
               taken == SubSeq(ds, 1, n)
    <2>1. i \in DOMAIN pools /\ n \in Nat /\ n <= CurrentSize(i) /\ CurrentSize(i) \in Nat
        <3>1. cleanup # <<>> /\ Head(cleanup) = cleanup[1] /\ 1 \in DOMAIN cleanup
            BY <1>0, <1>9 DEF Shrink, CleanupInOrder, Shape
        <3>2. i \in DOMAIN pools
            BY <3>1 DEF CleanupInOrder, Shape
        <3>3. CurrentSize(i) \in Nat
            BY <1>0, <3>2, PoolTypes DEF CurrentSize, WarmDrones
        <3>4. cleanup[1] \in CleanupSteps
            BY <1>0, <3>1
        <3>5. Head(cleanup).count \in Nat
            BY <3>1, <3>4 DEF CleanupSteps
        <3> QED
            BY <3>2, <3>3, <3>5
    <2>2. /\ victims' = taken /\ PutDrones(i, rest, pools[i].idle)
          /\ filler["maintenance"].step = "shrink"
          /\ filler' = [filler EXCEPT !["maintenance"].step = "discard"]
        BY <1>9 DEF Shrink
    <2> HIDE DEF i, n
    <2>3. ds \in Seq(Nat) /\ Len(ds) = CurrentSize(i) /\ DOMAIN ds = 1 .. CurrentSize(i)
          /\ pools[i].idle \in 0 .. 2
        BY <1>0, <2>1, PoolTypes, LenProperties DEF WarmDrones, CurrentSize
    <2> HIDE DEF ds
    <2>4. /\ taken \in Seq(Nat) /\ rest \in Seq(Nat)
          /\ DOMAIN taken = 1 .. n /\ \A j \in 1 .. n : taken[j] = ds[j]
          /\ DOMAIN rest = 1 .. (CurrentSize(i) - n)
          /\ \A j \in DOMAIN rest : j + n \in DOMAIN ds /\ rest[j] = ds[j + n]
        BY <2>1, <2>3, SubSeqProperties
    <2> HIDE DEF taken, rest
    <2>5. /\ pools' \in Seq(Pools) /\ DOMAIN pools' = DOMAIN pools
          /\ \A k \in DOMAIN pools :
                 pools'[k].drones = IF k = i THEN rest ELSE pools[k].drones
        BY <2>1, <2>2, <2>3, <2>4, PutDronesProperties
    <2> DEFINE shift == [k \in DOMAIN pools' |-> IF k = i THEN n ELSE 0]
    <2>6. shift \in [DOMAIN pools' -> Nat] /\ shift[i] = n
        BY <2>1, <2>5
    <2>7. ASSUME NEW k \in DOMAIN pools', NEW j \in DOMAIN pools'[k].drones
          PROVE  /\ k \in DOMAIN pools /\ j + shift[k] \in DOMAIN pools[k].drones
                 /\ pools'[k].drones[j] = pools[k].drones[j + shift[k]]
        <3>1. CASE k = i
            BY <2>4, <2>5, <3>1 DEF ds, WarmDrones
        <3>2. CASE k # i
            <4>1. pools'[k].drones \in Seq(Nat)
                BY <2>5, PoolTypes
            <4>2. j + shift[k] = j
                BY <3>2, <4>1, LenProperties
            <4> QED
                BY <2>5, <3>2, <4>2
        <3> QED
            BY <3>1, <3>2
    <2> HIDE DEF shift
    <2>8. /\ PooledOnce' /\ Pooled' \subseteq Pooled
          /\ \A j \in DOMAIN ds : j <= n => ds[j] \notin Pooled'
        BY <1>0, <2>1, <2>5, <2>6, <2>7, PooledStay DEF ds, WarmDrones
    <2>9. Range(taken) \subseteq Pooled /\ Range(taken) \cap Pooled' = {}
        <3>1. \A j \in 1 .. n : j \in DOMAIN ds /\ j <= n /\ taken[j] = ds[j]
            BY <2>1, <2>3, <2>4
        <3>2. \A j \in DOMAIN ds : ds[j] \in Pooled
            BY <2>1, <2>3 DEF Pooled, ds
        <3> QED
            BY <2>4, <2>8, <3>1, <3>2 DEF Range
    <2>10. IsInjective(victims)'
        <3>1. \A j, l \in DOMAIN ds : ds[j] = ds[l] => j = l
            BY <2>1 DEF PooledOnce, ds
        <3>2. \A j \in 1 .. n : j \in DOMAIN ds /\ taken[j] = ds[j]
            BY <2>1, <2>3, <2>4
        <3> QED
            BY <2>2, <2>4, <3>1, <3>2 DEF IsInjective
    <2>11. filler'["maintenance"].hand = filler["maintenance"].hand
           /\ filler'["queen"] = filler["queen"]
        BY <1>0, <2>2 DEF FillCalls
    <2>12. \A h \in Holders \ {"victims", "pool"} : Held(h)' = Held(h)
        BY <1>0, <2>11 DEF Holders, Held
    <2>13. \A h \in Holders \ {"victims"} :
               Held(h)' \subseteq Held(h) /\ Held(h)' \cap Range(taken) = {}
        BY <1>4, <2>8, <2>9, <2>12 DEF Apart, Holders
    <2>14. /\ Range(taken) \in SUBSET (1 .. launched') /\ "victims" \in Holders
           /\ Held("victims")' \subseteq Held("victims") \cup Range(taken)
        <3>1. Pooled \subseteq 1 .. launched
            BY <1>4 DEF Known, Holders
        <3> QED
            BY <1>0, <1>5, <2>2, <2>9, <3>1 DEF Holders
    <2> QED
        BY <1>0, <2>8, <2>10, <2>13, <2>14, HeldMoves
<1>10. CASE DiscardVictim
    <2>1. victims \in Seq(Nat) /\ victims # <<>> /\ victims' = Tail(victims)
        BY <1>10 DEF DiscardVictim, WarmPoolTypeOK
    <2>2. /\ Len(victims) \in Nat /\ DOMAIN victims = 1 .. Len(victims)
          /\ DOMAIN Tail(victims) = 1 .. (Len(victims) - 1)
          /\ \A j \in DOMAIN Tail(victims) :
                 j + 1 \in DOMAIN victims /\ Tail(victims)[j] = victims[j + 1]
        <3>1. Len(victims) \in Nat /\ Len(victims) # 0 /\ DOMAIN victims = 1 .. Len(victims)
            BY <2>1, LenProperties, EmptySeq
        <3> QED
            BY <2>1, <3>1
    <2>3. IsInjective(victims)'
        BY <2>1, <2>2 DEF IsInjective
    <2>4. Held("victims")' \subseteq Held("victims")
        BY <1>5, <2>1, <2>2 DEF Range
    <2> QED
        BY <1>1, <1>2, <1>10, <2>3, <2>4 DEF DiscardVictim
<1>11. CASE EndCleanup
    <2>1. \A a \in Fillers : filler'[a].hand \in {filler[a].hand, 0}
        <3>1. PICK call : call.hand = 0 /\ filler' = [filler EXCEPT !["maintenance"] = call]
            <4>1. AtRest.hand = 0 /\ [AtRest EXCEPT !.step = "shrink"].hand = 0
                BY DEF AtRest
            <4> QED
                BY <1>11, <4>1 DEF EndCleanup
        <3> QED
            BY <1>0, <3>1
    <2> QED
        BY <1>1, <1>2, <1>3, <1>11, <2>1 DEF EndCleanup
<1> QED
    BY <1>6, <1>7, <1>8, <1>9, <1>10, <1>11

\* A drone goes from the pool to a client and back.
LEMMA ClientSafe ==
    ASSUME PoolReady,
           \/ AskDrone \/ GetWarmDrone \/ CheckReturned \/ ReturnDrone
           \/ \E p \in lent : BringBack(p)
           \/ TimePasses
           \/ UNCHANGED warmpool
    PROVE  Safe'
<1> USE DEF PoolReady, Safe
<1>0. /\ launched \in Nat /\ pools \in Seq(Pools) /\ UNCHANGED <<filler, victims>>
      /\ {"pool", "lent", "client"} \subseteq Holders
      /\ \A p \in 1 .. launched : {p} \in SUBSET (1 .. launched')
    BY DEF FleetTypeOK, WarmPoolTypeOK, AskDrone, GetWarmDrone, CheckReturned, ReturnDrone,
           BringBack, TimePasses, warmpool, Holders
<1>1. IsInjective(victims)' /\ \A h \in Holders \ {"pool", "lent", "client"} : Held(h)' = Held(h)
    BY <1>0 DEF Holders, Held
<1>2. UNCHANGED pools => PooledOnce' /\ Held("pool")' = Held("pool")
    BY DEF PooledOnce, Held, Pooled, WarmDrones
<1>3. /\ Held("pool") = Pooled /\ Held("pool")' = Pooled'
      /\ Held("lent") = lent /\ Held("lent")' = lent'
      /\ Held("client") = {client.drone} \ {0} /\ Held("client")' = {client'.drone} \ {0}
    BY DEF Held
<1>4. ASSUME Held("pool")' \subseteq Held("pool"), lent' \subseteq lent,
             client'.drone \in {client.drone, 0}
      PROVE  Known' /\ Apart'
    <2>1. \A h \in Holders : Held(h)' \subseteq Held(h)
        BY <1>1, <1>3, <1>4
    <2> QED
        BY <1>0, <2>1, HeldStays
<1>5. NoCall.drone = 0
    BY DEF NoCall
<1>6. CASE AskDrone
    BY <1>1, <1>2, <1>4, <1>6 DEF AskDrone
<1>7. CASE GetWarmDrone
    <2> DEFINE i == client.pool
               ds == WarmDrones(i)
    <2>1. CASE ds = <<>>
        BY <1>1, <1>2, <1>4, <1>5, <1>7, <2>1 DEF GetWarmDrone
    <2>2. CASE ds # <<>>
        <3>1. i \in DOMAIN pools
            BY <1>7 DEF GetWarmDrone, ClientInOrder, Shape
        <3>2. ds \in Seq(Nat) /\ Len(ds) \in Nat /\ Len(ds) # 0 /\ DOMAIN ds = 1 .. Len(ds)
            BY <1>0, <2>2, <3>1, PoolTypes, LenProperties, EmptySeq DEF WarmDrones
        <3>3. /\ PutDrones(i, Tail(ds), 0) /\ lent' \in {lent, lent \cup {Head(ds)}}
              /\ client' = NoCall /\ 0 \in 0 .. 2
            BY <1>7, <2>2 DEF GetWarmDrone
        <3> HIDE DEF ds
        <3>4. /\ Tail(ds) \in Seq(Nat) /\ DOMAIN Tail(ds) = 1 .. (Len(ds) - 1)
              /\ \A j \in DOMAIN Tail(ds) : j + 1 \in DOMAIN ds /\ Tail(ds)[j] = ds[j + 1]
              /\ Head(ds) = ds[1] /\ 1 \in DOMAIN ds
            BY <3>2
        <3>5. /\ pools' \in Seq(Pools) /\ DOMAIN pools' = DOMAIN pools
              /\ \A k \in DOMAIN pools :
                     pools'[k].drones = IF k = i THEN Tail(ds) ELSE pools[k].drones
            BY <3>1, <3>3, <3>4, PutDronesProperties
        <3> DEFINE shift == [k \in DOMAIN pools' |-> IF k = i THEN 1 ELSE 0]
        <3>6. shift \in [DOMAIN pools' -> Nat] /\ shift[i] = 1
            BY <3>1, <3>5
        <3>7. ASSUME NEW k \in DOMAIN pools', NEW j \in DOMAIN pools'[k].drones
              PROVE  /\ k \in DOMAIN pools /\ j + shift[k] \in DOMAIN pools[k].drones
                     /\ pools'[k].drones[j] = pools[k].drones[j + shift[k]]
            <4>1. CASE k = i
                BY <3>4, <3>5, <4>1 DEF ds, WarmDrones
            <4>2. CASE k # i
                <5>1. pools'[k].drones \in Seq(Nat)
                    BY <3>5, PoolTypes
                <5>2. j + shift[k] = j
                    BY <4>2, <5>1, LenProperties
                <5> QED
                    BY <3>5, <4>2, <5>2
            <4> QED
                BY <4>1, <4>2
        <3> HIDE DEF shift
        <3>8. /\ PooledOnce' /\ Pooled' \subseteq Pooled
              /\ \A j \in DOMAIN ds : j <= 1 => ds[j] \notin Pooled'
            BY <1>0, <3>1, <3>5, <3>6, <3>7, PooledStay DEF ds, WarmDrones
        <3> DEFINE p == Head(ds)
        <3>9. p \in Pooled /\ p \notin Pooled'
            <4>1. p \in Nat /\ 1 <= 1
                BY <3>2, <3>4
            <4> QED
                BY <3>1, <3>4, <3>8, <4>1 DEF Pooled, ds
        <3> HIDE DEF p
        <3>10. \A h \in Holders \ {"pool"} : p \notin Held(h)
            BY <1>0, <1>3, <3>9 DEF Apart
        <3>11. \A h \in Holders \ {"lent"} : Held(h)' \subseteq Held(h) /\ Held(h)' \cap {p} = {}
            BY <1>1, <1>3, <1>5, <3>3, <3>8, <3>9, <3>10
        <3>12. p \in 1 .. launched
            BY <1>0, <1>3, <3>9 DEF Known
        <3>13. Held("lent")' \subseteq Held("lent") \cup {p}
            BY <1>3, <3>3 DEF p
        <3>14. Known' /\ Apart'
            BY <1>0, <3>11, <3>12, <3>13, HeldMoves
        <3> QED
            BY <1>1, <3>8, <3>14
    <2> QED
        BY <2>1, <2>2
<1>8. CASE CheckReturned
    <2>1. client'.drone \in {client.drone, 0}
        BY <1>5, <1>8 DEF CheckReturned, WarmPoolTypeOK
    <2> QED
        BY <1>1, <1>2, <1>4, <1>8, <2>1 DEF CheckReturned
<1>9. CASE ReturnDrone
    <2> DEFINE i == client.pool
               p == client.drone
    <2>1. CASE CurrentSize(i) < pools[i].min
        <3>1. i \in DOMAIN pools /\ p \in Nat /\ p # 0 /\ 0 \in 0 .. 2
            BY <1>9 DEF ReturnDrone, ClientInOrder, Shape, WarmPoolTypeOK
        <3>2. p \notin Pooled /\ p \in 1 .. launched
            BY <1>0, <1>3, <3>1 DEF Apart, Known
        <3>3. PutDrones(i, Append(WarmDrones(i), p), 0) /\ client' = NoCall /\ UNCHANGED lent
            BY <1>9, <2>1 DEF ReturnDrone
        <3>4. PooledOnce' /\ Pooled' \subseteq Pooled \cup {p}
            BY <3>1, <3>2, <3>3, PooledJoin
        <3> HIDE DEF p
        <3>5. \A h \in Holders \ {"client"} : p \notin Held(h)
            BY <1>0, <1>3, <3>1 DEF Apart, p
        <3>6. \A h \in Holders \ {"pool"} : Held(h)' \subseteq Held(h) /\ Held(h)' \cap {p} = {}
            BY <1>1, <1>3, <1>5, <3>3, <3>5
        <3>7. Known' /\ Apart'
            BY <1>0, <1>3, <3>2, <3>4, <3>6, HeldMoves
        <3> QED
            BY <1>1, <3>4, <3>7
    <2>2. CASE ~(CurrentSize(i) < pools[i].min)
        BY <1>1, <1>2, <1>4, <1>5, <1>9, <2>2 DEF ReturnDrone
    <2> QED
        BY <2>1, <2>2
<1>10. ASSUME NEW p \in lent, BringBack(p) PROVE Safe'
    <2>1. p \in 1 .. launched /\ \A h \in Holders \ {"lent"} : p \notin Held(h)
        BY <1>0, <1>3 DEF Known, Apart
    <2>2. client'.drone \in {p, 0} /\ lent' = lent \ {p} /\ UNCHANGED pools
        BY <1>5, <1>10 DEF BringBack
    <2>3. \A h \in Holders \ {"client"} : Held(h)' \subseteq Held(h) /\ Held(h)' \cap {p} = {}
        BY <1>1, <1>2, <1>3, <2>1, <2>2
    <2>4. Held("client")' \subseteq Held("client") \cup {p}
        BY <1>3, <2>2
    <2>5. Known' /\ Apart'
        BY <1>0, <2>1, <2>3, <2>4, HeldMoves
    <2> QED
        BY <1>1, <1>2, <2>2, <2>5
<1>11. CASE TimePasses
    <2>1. warmPools \in DOMAIN pools
        BY <1>11 DEF TimePasses, PoolsInOrder, Shape
    <2>2. /\ DOMAIN pools' = DOMAIN pools
          /\ \A k \in DOMAIN pools : pools'[k].drones = pools[k].drones
        <3>1. \A k \in DOMAIN pools : pools[k] \in Pools
            BY PoolTypes DEF WarmPoolTypeOK
        <3> QED
            BY <1>11, <3>1 DEF TimePasses, Pools
    <2>3. PooledOnce' /\ Pooled' = Pooled
        BY <2>2 DEF PooledOnce, Pooled, WarmDrones
    <2> QED
        BY <1>1, <1>3, <1>4, <1>11, <2>3 DEF TimePasses
<1>12. CASE UNCHANGED warmpool
    BY <1>1, <1>2, <1>4, <1>12 DEF warmpool
<1> QED
    BY <1>6, <1>7, <1>8, <1>9, <1>10, <1>11, <1>12

--------------------------------------------------------------------------------
(* The autoscaler and the drones that are not the pool's.                  *)

LEMMA OneMore ==
    ASSUME NEW n \in Nat, NEW S \in SUBSET (1 .. n), NEW T, NEW x, T \subseteq S \cup {x}
    PROVE  /\ Cardinality(S) \in Nat /\ Cardinality(T) \in Nat
           /\ Cardinality(T) <= Cardinality(S) + 1
           /\ T \subseteq S => Cardinality(T) <= Cardinality(S)
<1>1. IsFiniteSet(S)
    <2> n \in Int /\ 1 \in Int
        OBVIOUS
    <2>1. IsFiniteSet(1 .. n)
        BY FS_Interval
    <2> QED
        BY <2>1, FS_Subset
<1>2. IsFiniteSet(S \cup {x}) /\ Cardinality(S \cup {x}) <= Cardinality(S) + 1
      /\ Cardinality(S) \in Nat
    <2>1. Cardinality(S) \in Nat
        BY <1>1, FS_CardinalityType
    <2>2. /\ IsFiniteSet(S \cup {x})
          /\ Cardinality(S \cup {x}) = IF x \in S THEN Cardinality(S) ELSE Cardinality(S) + 1
        BY <1>1, FS_AddElement
    <2> QED
        BY <2>1, <2>2
<1>3. IsFiniteSet(T) /\ Cardinality(T) <= Cardinality(S \cup {x}) /\ Cardinality(T) \in Nat
    BY <1>2, FS_Subset, FS_CardinalityType
<1>4. T \subseteq S => Cardinality(T) <= Cardinality(S)
    BY <1>1, FS_Subset
<1>5. Cardinality(S \cup {x}) \in Nat
    BY <1>2, FS_CardinalityType
<1> QED
    BY <1>2, <1>3, <1>4, <1>5

\* Only a record without the label adds to the drones that are not the pool's.
LEMMA ColdChanges ==
    ASSUME FleetTypeOK,
           \/ Obtain \/ ObtainFails
           \/ \E p \in Nat : \/ Record(p, TRUE) \/ RecordFails(p) \/ MarkRunning(p)
                             \/ Discard(p) \/ RemoveDrone(p)
           \/ UNCHANGED fleet
    PROVE  Cold' \subseteq Cold
<1>1. CASE UNCHANGED drones
    BY <1>1 DEF Cold
<1>2. ASSUME NEW p \in Nat, Record(p, TRUE) PROVE Cold' \subseteq Cold
    BY <1>2 DEF Record, Cold
<1>3. ASSUME NEW p \in Nat, MarkRunning(p) PROVE Cold' \subseteq Cold
    <2>1. \A q \in DOMAIN drones : drones[q] \in DroneRecords
        BY DEF FleetTypeOK
    <2>2. \A r \in DroneRecords : [r EXCEPT !.phase = "Running"].warm = r.warm
        BY DEF DroneRecords
    <2>3. DOMAIN drones' = DOMAIN drones
          /\ \A q \in DOMAIN drones : drones'[q].warm = drones[q].warm
        BY <1>3, <2>1, <2>2 DEF MarkRunning
    <2> QED
        BY <2>3 DEF Cold
<1>4. ASSUME NEW p \in Nat, Discard(p) \/ RemoveDrone(p) PROVE Cold' \subseteq Cold
    <2>1. DOMAIN drones' = DOMAIN drones \ {p} /\ \A q \in DOMAIN drones' : drones'[q] = drones[q]
        BY <1>4 DEF Discard, RemoveDrone, Restrict
    <2> QED
        BY <2>1 DEF Cold
<1> QED
    BY <1>1, <1>2, <1>3, <1>4 DEF Obtain, ObtainFails, RecordFails, fleet

Counts == ScalerInOrder /\ ReplicasInBounds

LEMMA ColdCounted ==
    ASSUME FleetTypeOK, NEW x, Cold' \subseteq Cold \cup {x}
    PROVE  /\ Cardinality(Cold) \in Nat /\ Cardinality(Cold') \in Nat
           /\ Cardinality(Cold') <= Cardinality(Cold) + 1
           /\ Cold' \subseteq Cold => Cardinality(Cold') <= Cardinality(Cold)
<1>1. Cold \in SUBSET (1 .. launched) /\ launched \in Nat
    BY DEF FleetTypeOK, Cold
<1> DEFINE S == Cold
           T == Cold'
<1>2. S \in SUBSET (1 .. launched) /\ T \subseteq S \cup {x}
    BY <1>1
<1> HIDE DEF S, T
<1>3. /\ Cardinality(S) \in Nat /\ Cardinality(T) \in Nat
      /\ Cardinality(T) <= Cardinality(S) + 1
      /\ T \subseteq S => Cardinality(T) <= Cardinality(S)
    BY <1>1, <1>2, OneMore
<1> QED
    BY <1>3 DEF S, T

LEMMA ScalingTyped ==
    ASSUME AutoscalerTypeOK
    PROVE  Ceiling \in Nat /\ scaler.desired \in Nat /\ scaler.left \in Nat /\ scaler.hand \in Nat
BY ScalingsAssumption DEF AutoscalerTypeOK, Ceiling, OrDefault

\* Next to an autoscaler that waits, the pool and the clients add nothing to
\* what it counts on.
LEMMA CountsStay ==
    ASSUME FleetTypeOK, AutoscalerTypeOK, Counts, UNCHANGED <<scaling, scaler>>,
           Cold' \subseteq Cold
    PROVE  Counts'
<1>1. Cardinality(Cold') <= Cardinality(Cold) /\ Cardinality(Cold) \in Nat
      /\ Cardinality(Cold') \in Nat
    BY ColdCounted
<1>2. Ceiling' = Ceiling
    BY DEF Ceiling
<1>3. Cardinality(Cold) <= Ceiling /\ Ceiling \in Nat
    BY ScalingTyped DEF Counts, ReplicasInBounds, Cold
<1>4. Cardinality(Cold') <= Ceiling
    BY <1>1, <1>3
<1>5. ReplicasInBounds'
    BY <1>2, <1>4 DEF ReplicasInBounds, Cold
<1>6. scaler.step \in {"launch", "record"} => Cardinality(Cold') + scaler.left <= scaler.desired
    BY <1>1, ScalingTyped DEF Counts, ScalerInOrder
<1>7. ScalerInOrder'
    BY <1>2, <1>6 DEF Counts, ScalerInOrder
<1> QED
    BY <1>5, <1>7 DEF Counts

\* The autoscaler makes as many drones as were missing when it counted.
LEMMA CountsInOrder ==
    ASSUME FleetTypeOK, AutoscalerTypeOK, Counts, ScalerStep \/ ScaleUpFails
    PROVE  Counts'
<1> USE DEF Counts
<1>0. /\ UNCHANGED scaling /\ Ceiling' = Ceiling /\ Ceiling \in Nat
      /\ scaler.desired \in Nat /\ scaler.left \in Nat /\ scaler.hand \in Nat
      /\ Cardinality(Cold) <= Ceiling
    BY ScalingTyped DEF ScalerStep, ScaleUpFails, EvaluateAndScale, ExecuteScaling, ScaleUp,
           ScaledUp, ScaleDown, Ceiling, ReplicasInBounds, Cold
<1>1. ASSUME Cold' \subseteq Cold PROVE ReplicasInBounds' /\ Cardinality(Cold') <= Cardinality(Cold)
    <2>1. Cardinality(Cold') <= Cardinality(Cold) /\ Cardinality(Cold) \in Nat
          /\ Cardinality(Cold') \in Nat
        BY <1>1, ColdCounted
    <2>2. Cardinality(Cold') <= Ceiling
        BY <1>0, <2>1
    <2> QED
        BY <1>0, <2>1, <2>2 DEF ReplicasInBounds, Cold
<1>2. UNCHANGED fleet => Cold' \subseteq Cold
    BY ColdChanges
<1>3. ASSUME Complete PROVE ScalerInOrder'
    BY <1>3 DEF Complete, ScalerIdle, ScalerInOrder
<1>4. CASE EvaluateAndScale
    <2> DEFINE decision == MakeDecision(Cardinality(DOMAIN drones))
    <2>1. decision.desired <= Ceiling /\ decision.action \in {"up", "down", "none"}
        BY DronesFinite, DecisionWithinLimits DEF MakeDecision
    <2>2. /\ scaler'.step \in {"up", "down"} /\ scaler'.desired <= Ceiling /\ scaler'.hand = 0
        <3>1. scaler.hand = 0
            BY <1>4 DEF EvaluateAndScale, ScalerInOrder
        <3> HIDE DEF decision
        <3>2. /\ decision.action # "none"
              /\ scaler' = [scaler EXCEPT !.step = decision.action, !.desired = decision.desired]
            BY <1>4 DEF EvaluateAndScale, decision
        <3> QED
            BY <2>1, <3>1, <3>2 DEF AutoscalerTypeOK
    <2> QED
        BY <1>0, <1>1, <1>2, <1>4, <2>2 DEF EvaluateAndScale, ScalerInOrder
<1>5. CASE ExecuteScaling
    <2> DEFINE current == Cardinality(DOMAIN drones)
               up == scaler.step = "up"
               count == IF up THEN scaler.desired - current ELSE current - scaler.desired
    <2>1. CASE count > 0
        <3>1. scaler' = [step |-> IF up THEN "launch" ELSE "discard", desired |-> scaler.desired,
                         left |-> count, victims |-> IF up THEN {} ELSE DOMAIN drones,
                         hand |-> scaler.hand]
            BY <1>5, <2>1 DEF ExecuteScaling, AutoscalerTypeOK
        <3>2. scaler.hand = 0 /\ scaler.desired <= Ceiling
            BY <1>5 DEF ExecuteScaling, ScalerInOrder
        <3>3. up => Cardinality(Cold') + count <= scaler.desired
            <4>1. Cold' \subseteq Cold
                BY <1>2, <1>5 DEF ExecuteScaling
            <4>2. Cold' \subseteq DOMAIN drones /\ DOMAIN drones \in SUBSET (1 .. launched)
                  /\ launched \in Nat
                BY <4>1 DEF Cold, FleetTypeOK
            <4>3. Cardinality(Cold') <= current /\ Cardinality(Cold') \in Nat /\ current \in Nat
                <5> DEFINE T == Cold'
                <5>1. T \subseteq (DOMAIN drones) \cup {0} /\ T \subseteq DOMAIN drones
                    BY <4>2
                <5> HIDE DEF T
                <5>2. Cardinality(T) <= current /\ Cardinality(T) \in Nat /\ current \in Nat
                    BY <4>2, <5>1, OneMore
                <5> QED
                    BY <5>2 DEF T
            <4> QED
                BY <1>0, <4>3
        <3> HIDE DEF count
        <3>4. ScalerInOrder'
            BY <1>0, <2>1, <3>1, <3>2, <3>3 DEF ScalerInOrder
        <3> QED
            BY <1>1, <1>2, <1>5, <3>4 DEF ExecuteScaling
    <2>2. CASE ~(count > 0)
        BY <1>1, <1>2, <1>3, <1>5, <2>2 DEF ExecuteScaling
    <2> QED
        BY <2>1, <2>2
<1>6. CASE ScaleUp
    <2>1. launched' \in Nat /\ launched' # 0
        BY <1>6 DEF ScaleUp, Obtain, FleetTypeOK
    <2>2. scaler' = [step |-> "record", desired |-> scaler.desired, left |-> scaler.left,
                     victims |-> scaler.victims, hand |-> launched']
        BY <1>6 DEF ScaleUp, AutoscalerTypeOK
    <2>3. Cold' = Cold
        BY <1>6 DEF ScaleUp, Obtain, Cold
    <2>4. ScalerInOrder'
        BY <1>0, <1>6, <2>1, <2>2, <2>3 DEF ScaleUp, ScalerInOrder
    <2> QED
        BY <1>1, <2>3, <2>4
<1>7. CASE ScaledUp
    <2> DEFINE p == scaler.hand
    <2>1. Cold' \subseteq Cold \cup {p}
        BY <1>7 DEF ScaledUp, Record, Cold
    <2>2. /\ Cardinality(Cold') <= Cardinality(Cold) + 1
          /\ Cardinality(Cold) \in Nat /\ Cardinality(Cold') \in Nat
        BY <2>1, ColdCounted
    <2>3. /\ scaler.left > 0 /\ scaler.desired <= Ceiling
          /\ Cardinality(Cold) + scaler.left <= scaler.desired
        BY <1>7 DEF ScaledUp, ScalerInOrder
    <2>4. Cardinality(Cold') <= Ceiling
        BY <1>0, <2>2, <2>3
    <2>5. ReplicasInBounds'
        BY <1>0, <2>4 DEF ReplicasInBounds, Cold
    <2>6. CASE scaler.left = 1
        BY <1>3, <1>7, <2>5, <2>6 DEF ScaledUp
    <2>7. CASE scaler.left # 1
        <3>1. scaler' = [step |-> "launch", desired |-> scaler.desired, left |-> scaler.left - 1,
                         victims |-> scaler.victims, hand |-> 0]
            BY <1>7, <2>7 DEF ScaledUp, AutoscalerTypeOK
        <3>2. Cardinality(Cold') + (scaler.left - 1) <= scaler.desired /\ scaler.left - 1 > 0
            BY <1>0, <2>2, <2>3, <2>7
        <3>3. ScalerInOrder'
            BY <1>0, <2>3, <3>1, <3>2 DEF ScalerInOrder
        <3> QED
            BY <2>5, <3>3
    <2> QED
        BY <2>6, <2>7
<1>8. ASSUME NEW p \in scaler.victims, ScaleDown(p) PROVE Counts'
    <2>1. Cold' \subseteq Cold
        BY <1>8, ColdChanges DEF ScaleDown, AutoscalerTypeOK
    <2> DEFINE left == scaler.left - (IF p \in DOMAIN drones THEN 1 ELSE 0)
    <2>2. CASE Complete
        BY <1>1, <1>3, <2>1, <2>2
    <2>3. CASE ~Complete
        <3>1. /\ left # 0 /\ scaler.step = "discard"
              /\ scaler' = [scaler EXCEPT !.left = left, !.victims = scaler.victims \ {p}]
            BY <1>8, <2>3 DEF ScaleDown
        <3>2. left > 0 /\ scaler.hand = 0 /\ scaler.desired <= Ceiling
            BY <1>0, <3>1 DEF ScalerInOrder
        <3> HIDE DEF left
        <3>3. ScalerInOrder'
            BY <1>0, <3>1, <3>2 DEF ScalerInOrder, AutoscalerTypeOK
        <3> QED
            BY <1>1, <2>1, <3>3
    <2> QED
        BY <2>2, <2>3
<1>9. CASE ScaleUpFails
    <2>1. Cold' \subseteq Cold
        BY <1>0, <1>9, ColdChanges DEF ScaleUpFails
    <2> QED
        BY <1>1, <1>3, <1>9, <2>1 DEF ScaleUpFails
<1> QED
    BY <1>4, <1>5, <1>6, <1>7, <1>8, <1>9 DEF ScalerStep

--------------------------------------------------------------------------------
(* What becomes of the processes.                                          *)

\* Every step does one thing to the fleet.
FleetMoves(warmths) ==
    \/ Obtain \/ ObtainFails
    \/ \E p \in 1 .. launched, warm \in warmths : Record(p, warm)
    \/ \E p \in Nat : RecordFails(p) \/ MarkRunning(p) \/ Discard(p) \/ RemoveDrone(p)
    \/ UNCHANGED fleet

PoolMoves ==
    \/ \E min \in Sizes : EnsurePool(min)
    \/ PoolStep
    \/ \E a \in Fillers : FillFails(a)

LEMMA HandsKnown ==
    ASSUME FleetTypeOK, WarmPoolTypeOK, AutoscalerTypeOK, Shape, ScalerInOrder, Known
    PROVE  /\ \A a \in Fillers : filler[a].step \in Making => filler[a].hand \in 1 .. launched
           /\ scaler.step = "record" => scaler.hand \in 1 .. launched
           /\ \A a \in Fillers : filler[a].hand \in Nat
           /\ \A i \in DOMAIN victims : victims[i] \in Nat
<1>1. /\ \A a \in Fillers : Held(a) = {filler[a].hand} \ {0} /\ a \in Holders
      /\ Held("scaler") = {scaler.hand} \ {0} /\ "scaler" \in Holders
    BY DEF Held, Holders, Fillers
<1>2. \A a \in Fillers : filler[a] \in FillCalls
    BY DEF WarmPoolTypeOK
<1> QED
    BY <1>1, <1>2 DEF Known, Shape, FillersInOrder, ScalerInOrder, FillCalls, WarmPoolTypeOK

LEMMA PoolMovesFleet ==
    ASSUME FleetTypeOK, WarmPoolTypeOK, AutoscalerTypeOK, Shape, ScalerInOrder, Known, PoolMoves
    PROVE  FleetMoves({TRUE})
<1>1. ASSUME NEW a \in Fillers,
             Filled(a) \/ LaunchWarm(a) \/ RecordWarm(a) \/ Ready(a) \/ Add(a) \/ FillFails(a)
      PROVE  FleetMoves({TRUE})
    <2>1. filler[a].hand \in Nat /\ (filler[a].step \in Making => filler[a].hand \in 1 .. launched)
        BY HandsKnown
    <2>2. CASE Filled(a) \/ LaunchWarm(a) \/ Ready(a) \/ Add(a) \/ FillFails(a)
        BY <2>1, <2>2 DEF Filled, LaunchWarm, Ready, Add, FillFails, FleetMoves, fleet
    <2>3. CASE RecordWarm(a)
        BY <2>1, <2>3 DEF RecordWarm, FleetMoves, Making
    <2> QED
        BY <1>1, <2>2, <2>3
<1>2. CASE DiscardVictim
    <2>1. Head(victims) \in Nat
        BY <1>2 DEF DiscardVictim, WarmPoolTypeOK
    <2> QED
        BY <1>2, <2>1 DEF DiscardVictim, FleetMoves
<1>3. CASE \/ \E min \in Sizes : EnsurePool(min)
           \/ MaintainPools \/ Identify \/ Shrink \/ EndCleanup
           \/ AskDrone \/ GetWarmDrone \/ CheckReturned \/ ReturnDrone
           \/ \E p \in lent : BringBack(p)
           \/ TimePasses
    BY <1>3 DEF EnsurePool, MaintainPools, Identify, Shrink, EndCleanup, AskDrone, GetWarmDrone,
                CheckReturned, ReturnDrone, BringBack, TimePasses, FleetMoves
<1> QED
    BY <1>1, <1>2, <1>3 DEF PoolMoves, PoolStep

LEMMA ScalerMovesFleet ==
    ASSUME FleetTypeOK, WarmPoolTypeOK, AutoscalerTypeOK, Shape, ScalerInOrder, Known,
           ScalerStep \/ ScaleUpFails
    PROVE  FleetMoves(BOOLEAN)
<1>1. scaler.hand \in Nat /\ (scaler.step = "record" => scaler.hand \in 1 .. launched)
    BY HandsKnown DEF AutoscalerTypeOK
<1>2. CASE EvaluateAndScale \/ ExecuteScaling \/ ScaleUp
    BY <1>2 DEF EvaluateAndScale, ExecuteScaling, ScaleUp, FleetMoves
<1>3. CASE ScaledUp
    BY <1>1, <1>3 DEF ScaledUp, FleetMoves
<1>4. CASE \E p \in scaler.victims : ScaleDown(p)
    BY <1>4 DEF ScaleDown, FleetMoves, AutoscalerTypeOK
<1>5. CASE ScaleUpFails
    BY <1>1, <1>5 DEF ScaleUpFails, FleetMoves
<1> QED
    BY <1>2, <1>3, <1>4, <1>5 DEF ScalerStep

\* A process leaves the hands of the call that makes it for the store, or
\* it is stopped.
LEMMA AccountedInPool ==
    ASSUME FleetTypeOK, WarmPoolTypeOK, Shape, Accounted, UNCHANGED scaler, PoolMoves
    PROVE  Accounted'
<1> USE DEF Shape
<1>0. /\ Fillers = {"queen", "maintenance"} /\ filler \in [Fillers -> FillCalls]
      /\ \A p \in tracked : p # 0
    BY DEF Fillers, WarmPoolTypeOK, FleetTypeOK
<1>1. ASSUME NEW a \in Fillers, \A b \in Fillers : b # a => filler'[b] = filler[b]
      PROVE  /\ Recording \ {filler[a].hand} \subseteq Recording'
             /\ filler[a].step # "record" => Recording \subseteq Recording'
             /\ filler'[a].step = "record" => filler'[a].hand \in Recording'
    BY <1>0, <1>1 DEF Recording
<1>2. ASSUME UNCHANGED fleet, Recording \subseteq Recording' PROVE Accounted'
    BY <1>2 DEF Accounted, fleet
<1>3. ASSUME NEW p, Discard(p), Recording \subseteq Recording' PROVE Accounted'
    BY <1>3 DEF Accounted, Discard, Restrict
<1>4. UNCHANGED filler => Recording \subseteq Recording'
    BY DEF Recording
<1>5. ASSUME NEW a \in Fillers, EndFill(a)
      PROVE  \A b \in Fillers : b # a => filler'[b] = filler[b]
    BY <1>5, FillEnds
<1>6. ASSUME NEW a \in Fillers, Filled(a) PROVE Accounted'
    BY <1>1, <1>2, <1>5, <1>6 DEF Filled
<1>7. ASSUME NEW a \in Fillers, LaunchWarm(a) PROVE Accounted'
    <2>1. /\ filler'[a].step = "record" /\ filler'[a].hand = launched'
          /\ \A b \in Fillers : b # a => filler'[b] = filler[b]
        BY <1>0, <1>7 DEF LaunchWarm, FillCalls
    <2>2. Recording \subseteq Recording' /\ launched' \in Recording'
        BY <1>1, <1>7, <2>1 DEF LaunchWarm
    <2> QED
        BY <1>7, <2>2 DEF LaunchWarm, Obtain, Accounted
<1>8. ASSUME NEW a \in Fillers, RecordWarm(a) PROVE Accounted'
    <2>1. \A b \in Fillers : b # a => filler'[b] = filler[b]
        BY <1>0, <1>8 DEF RecordWarm
    <2>2. Recording \ {filler[a].hand} \subseteq Recording'
        BY <1>1, <2>1
    <2> QED
        BY <1>8, <2>2 DEF RecordWarm, Record, Accounted
<1>9. ASSUME NEW a \in Fillers, Ready(a) PROVE Accounted'
    <2>1. \A b \in Fillers : b # a => filler'[b] = filler[b]
        BY <1>0, <1>9 DEF Ready
    <2>2. Recording \subseteq Recording'
        BY <1>1, <1>9, <2>1 DEF Ready
    <2> QED
        BY <1>9, <2>2 DEF Ready, MarkRunning, Accounted
<1>10. ASSUME NEW a \in Fillers, Add(a) PROVE Accounted'
    <2>1. \A b \in Fillers : b # a => filler'[b] = filler[b]
        BY <1>0, <1>5, <1>10 DEF Add
    <2>2. Recording \subseteq Recording'
        BY <1>1, <1>10, <2>1 DEF Add
    <2> QED
        BY <1>2, <1>3, <1>10, <2>2 DEF Add
<1>11. ASSUME NEW a \in Fillers, FillFails(a) PROVE Accounted'
    <2>1. \A b \in Fillers : b # a => filler'[b] = filler[b]
        BY <1>5, <1>11 DEF FillFails
    <2>2. CASE filler[a].step = "size"
        <3>1. Recording \subseteq Recording'
            BY <1>1, <2>1, <2>2
        <3> QED
            BY <1>2, <1>11, <2>2, <3>1 DEF FillFails, ObtainFails, Accounted
    <2>3. CASE filler[a].step = "record"
        <3>1. Recording \ {filler[a].hand} \subseteq Recording'
            BY <1>1, <2>1
        <3> QED
            BY <1>11, <2>3, <3>1 DEF FillFails, RecordFails, Accounted
    <2> QED
        BY <1>11, <2>2, <2>3 DEF FillFails
<1>12. CASE DiscardVictim
    BY <1>3, <1>4, <1>12 DEF DiscardVictim
<1>13. CASE \/ AskDrone \/ GetWarmDrone \/ CheckReturned \/ ReturnDrone
            \/ \E p \in lent : BringBack(p)
            \/ TimePasses
    BY <1>2, <1>4, <1>13 DEF AskDrone, GetWarmDrone, CheckReturned, ReturnDrone, BringBack, TimePasses
<1>14. CASE \/ \E min \in Sizes : EnsurePool(min)
            \/ MaintainPools \/ Identify \/ Shrink \/ EndCleanup
    <2>1. UNCHANGED fleet
        BY <1>14 DEF EnsurePool, MaintainPools, Identify, Shrink, EndCleanup
    <2>2. PICK a \in Fillers : /\ filler[a].step # "record"
                               /\ \A b \in Fillers : b # a => filler'[b] = filler[b]
        BY <1>0, <1>14 DEF EnsurePool, MaintainPools, Identify, Shrink, EndCleanup
    <2> QED
        BY <1>1, <1>2, <2>1, <2>2
<1> QED
    BY <1>6, <1>7, <1>8, <1>9, <1>10, <1>11, <1>12, <1>13, <1>14 DEF PoolMoves, PoolStep

LEMMA AccountedInScaler ==
    ASSUME FleetTypeOK, AutoscalerTypeOK, ScalerInOrder, Accounted, UNCHANGED filler,
           ScalerStep \/ ScaleUpFails
    PROVE  Accounted'
<1>0. \A p \in tracked : p # 0
    BY DEF FleetTypeOK
<1>1. Recording \ {scaler.hand} \subseteq Recording' /\ scaler'.hand \in Recording'
    BY DEF Recording
<1>2. scaler.step # "record" => tracked \subseteq DOMAIN drones \cup removed \cup Recording'
    BY <1>0, <1>1 DEF Accounted, ScalerInOrder
<1>3. CASE EvaluateAndScale \/ ExecuteScaling
    BY <1>2, <1>3 DEF EvaluateAndScale, ExecuteScaling, Accounted, fleet
<1>4. CASE ScaleUp
    <2>1. scaler'.hand = launched'
        BY <1>4 DEF ScaleUp, AutoscalerTypeOK
    <2> QED
        BY <1>1, <1>2, <1>4, <2>1 DEF ScaleUp, Obtain, Accounted
<1>5. CASE ScaledUp
    BY <1>1, <1>5 DEF ScaledUp, Record, Accounted
<1>6. ASSUME NEW p \in scaler.victims, ScaleDown(p) PROVE Accounted'
    BY <1>2, <1>6 DEF ScaleDown, Discard, Restrict, Accounted
<1>7. CASE ScaleUpFails
    BY <1>1, <1>2, <1>7 DEF ScaleUpFails, ObtainFails, RecordFails, Accounted, fleet
<1> QED
    BY <1>3, <1>4, <1>5, <1>6, <1>7 DEF ScalerStep

--------------------------------------------------------------------------------
(* The invariant.                                                          *)

LEMMA InitInv == Init => Inv
<1> SUFFICES ASSUME Init PROVE Inv
    OBVIOUS
<1> USE DEF Init, FleetInit, AutoscalerInit, WarmPoolInit, AtRest, NoPool
<1>1. DOMAIN <<>> = {} /\ \A S : <<>> \in Seq(S)
    BY EmptySeq
<1>2. FleetTypeOK
    BY <1>1, NodeAssumption DEF FleetTypeOK
<1>3. AutoscalerTypeOK
    BY DEF AutoscalerTypeOK, ScalerIdle, NewCollector
<1>4. WarmPoolTypeOK
    BY <1>1 DEF WarmPoolTypeOK, FillCalls, NoCall
<1>5. budget \in 0 .. DisturbanceBound
    BY DisturbanceAssumption
<1>6. Shape
    BY <1>1 DEF Shape, FillersInOrder, CleanupInOrder, ClientInOrder, PoolsInOrder, NoCall,
                Filling, Making, Fillers
<1>7. Cold = {}
    BY <1>1 DEF Cold
<1>8. ReplicasInBounds
    BY <1>3, <1>7, ScalingTyped, FS_EmptySet DEF ReplicasInBounds, Cold
<1>9. ScalerInOrder
    BY DEF ScalerInOrder, ScalerIdle
<1>10. Accounted
    BY DEF Accounted
<1>11. \A h \in Holders : Held(h) = {}
    BY <1>1 DEF Holders, Held, Pooled, Range, NoCall, ScalerIdle, Fillers
<1>12. Known /\ Apart /\ PooledOnce /\ IsInjective(victims)
    BY <1>1, <1>11 DEF Known, Apart, PooledOnce, IsInjective
<1> QED
    BY <1>2, <1>3, <1>4, <1>5, <1>6, <1>8, <1>9, <1>10, <1>12 DEF Inv, TypeOK

\* The pool's part of a step, the autoscaler's part, and what API clients do.
LEMMA StepInv == Inv /\ [Next]_vars => Inv'
<1> SUFFICES ASSUME Inv, [Next]_vars PROVE Inv'
    OBVIOUS
<1> USE DEF Inv, TypeOK
<1>0. 0 \notin lent
    BY DEF Known, Held, Holders
<1>1. ASSUME PoolMoves, UNCHANGED autoscaler, budget' \in 0 .. DisturbanceBound
      PROVE  Inv'
    <2>1. UNCHANGED <<scaling, scaler>>
        BY <1>1 DEF autoscaler
    <2>2. FleetMoves({TRUE})
        BY <1>1, PoolMovesFleet
    <2>3. FleetTypeOK' /\ launched' >= launched
        BY <2>2, FleetTyped DEF FleetMoves
    <2>4. AutoscalerTypeOK'
        BY <1>1, ScalerTyped
    <2>5. WarmPoolTypeOK' /\ Shape'
        BY <1>0, <1>1, EnsurePoolInOrder, FillInOrder, CleanupStepInOrder, ClientStepInOrder
           DEF PoolMoves, PoolStep
    <2>6. Counts'
        <3>1. Cold' \subseteq Cold
            <4>1. \A p \in 1 .. launched, warm \in {TRUE} : p \in Nat /\ warm = TRUE
                BY DEF FleetTypeOK
            <4>2. ASSUME NEW p \in 1 .. launched, Record(p, TRUE) PROVE Cold' \subseteq Cold
                BY <4>1, <4>2, ColdChanges
            <4>3. CASE \E p \in 1 .. launched, warm \in {TRUE} : Record(p, warm)
                BY <4>1, <4>2, <4>3
            <4>4. CASE ~\E p \in 1 .. launched, warm \in {TRUE} : Record(p, warm)
                BY <2>2, <4>4, ColdChanges DEF FleetMoves
            <4> QED
                BY <4>3, <4>4
        <3> QED
            BY <2>1, <3>1, CountsStay DEF Counts
    <2>7. Accounted'
        BY <1>1, <2>1, AccountedInPool
    <2>8. Safe'
        <3>1. PoolReady
            BY <2>1, <2>3 DEF PoolReady, Safe, FleetTypeOK
        <3> QED
            BY <1>1, <3>1, FillSafe, CleanupSafe, ClientSafe DEF PoolMoves, PoolStep
    <2> QED
        BY <1>1, <2>3, <2>4, <2>5, <2>6, <2>7, <2>8 DEF Counts, Safe
<1>2. ASSUME UNCHANGED warmpool,
             \/ ScalerStep \/ ScaleUpFails
             \/ AggregateMetrics /\ UNCHANGED <<fleet, scaling, scaler>>
             \/ (\E p \in DOMAIN drones : RemoveDrone(p)) /\ UNCHANGED autoscaler
             \/ UNCHANGED <<fleet, autoscaler>>,
             budget' \in 0 .. DisturbanceBound
      PROVE  Inv'
    <2>1. FleetMoves(BOOLEAN)
        <3>1. CASE \E p \in DOMAIN drones : RemoveDrone(p)
            BY <3>1 DEF FleetMoves, FleetTypeOK
        <3> QED
            BY <1>2, <3>1, ScalerMovesFleet DEF FleetMoves
    <2>2. FleetTypeOK' /\ launched' >= launched
        BY <2>1, FleetTyped DEF FleetMoves
    <2>3. AutoscalerTypeOK'
        BY <1>2, ScalerTyped
    <2>4. WarmPoolTypeOK' /\ Shape'
        BY <1>0, <1>2, ClientStepInOrder
    <2>5. CASE ~(ScalerStep \/ ScaleUpFails)
        <3>1. UNCHANGED <<scaling, scaler>>
            BY <1>2, <2>5 DEF autoscaler
        <3>2. Cold' \subseteq Cold
            <4>1. CASE \E p \in DOMAIN drones : RemoveDrone(p)
                <5>1. PICK p \in DOMAIN drones : RemoveDrone(p)
                    BY <4>1
                <5>2. p \in Nat
                    BY DEF FleetTypeOK
                <5> QED
                    BY <5>1, <5>2, ColdChanges
            <4> QED
                BY <1>2, <2>5, <4>1, ColdChanges
        <3>3. Counts'
            BY <3>1, <3>2, CountsStay DEF Counts
        <3>4. Recording' = Recording
            BY <1>2, <3>1 DEF Recording, warmpool
        <3>5. Accounted'
            BY <1>2, <2>5, <3>4 DEF Accounted, RemoveDrone, Restrict, fleet
        <3>6. Safe'
            BY <1>2, <2>2, <3>1, ClientSafe DEF PoolReady, Safe, FleetTypeOK
        <3> QED
            BY <1>2, <2>2, <2>3, <2>4, <3>3, <3>5, <3>6 DEF Counts, Safe
    <2>6. CASE ScalerStep \/ ScaleUpFails
        <3>1. Counts'
            BY <2>6, CountsInOrder DEF Counts
        <3>2. Accounted'
            BY <1>2, <2>6, AccountedInScaler DEF warmpool
        <3>3. PooledOnce' /\ IsInjective(victims)'
            BY <1>2 DEF warmpool, PooledOnce, WarmDrones
        <3>4. \A h \in Holders \ {"scaler"} : Held(h)' = Held(h)
            BY <1>2 DEF warmpool, Holders, Held, Pooled, WarmDrones
        <3>5. Held("scaler")' = {scaler'.hand} \ {0} /\ Held("scaler") = {scaler.hand} \ {0}
            BY DEF Held
        <3>6. launched \in Nat /\ launched' \in Nat /\ "scaler" \in Holders
            BY <2>2 DEF FleetTypeOK, Holders
        <3>7. CASE ScaleUp
            <4>1. launched' = launched + 1 /\ scaler'.hand = launched'
                BY <3>7 DEF ScaleUp, Obtain, AutoscalerTypeOK
            <4>2. \A h \in Holders : launched' \notin Held(h)
                BY <3>6, <4>1 DEF Known
            <4>3. /\ \A h \in Holders \ {"scaler"} :
                         Held(h)' \subseteq Held(h) /\ Held(h)' \cap {launched'} = {}
                  /\ Held("scaler")' \subseteq Held("scaler") \cup {launched'}
                  /\ {launched'} \in SUBSET (1 .. launched')
                BY <3>4, <3>5, <3>6, <4>1, <4>2
            <4>4. Known' /\ Apart'
                BY <2>2, <3>6, <4>3, HeldMoves
            <4> QED
                BY <1>2, <2>2, <2>3, <2>4, <3>1, <3>2, <3>3, <4>4 DEF Counts
        <3>8. CASE ~ScaleUp
            <4>1. scaler'.hand \in {scaler.hand, 0}
                <5>1. Complete => scaler'.hand = 0
                    BY DEF Complete, ScalerIdle
                <5>2. CASE EvaluateAndScale
                    BY <5>2 DEF EvaluateAndScale, AutoscalerTypeOK
                <5>3. CASE ExecuteScaling
                    BY <5>1, <5>3 DEF ExecuteScaling, AutoscalerTypeOK
                <5>4. CASE ScaledUp
                    BY <5>1, <5>4 DEF ScaledUp, AutoscalerTypeOK
                <5>5. CASE \E p \in scaler.victims : ScaleDown(p)
                    BY <5>1, <5>5 DEF ScaleDown, AutoscalerTypeOK
                <5>6. CASE ScaleUpFails
                    BY <5>1, <5>6 DEF ScaleUpFails
                <5> QED
                    BY <2>6, <3>8, <5>2, <5>3, <5>4, <5>5, <5>6 DEF ScalerStep
            <4>2. \A h \in Holders : Held(h)' \subseteq Held(h)
                BY <3>4, <3>5, <4>1
            <4>3. Known' /\ Apart'
                BY <2>2, <3>6, <4>2, HeldStays
            <4> QED
                BY <1>2, <2>2, <2>3, <2>4, <3>1, <3>2, <3>3, <4>3 DEF Counts
        <3> QED
            BY <3>7, <3>8
    <2> QED
        BY <2>5, <2>6
<1>3. Spend => budget' \in 0 .. DisturbanceBound
    BY DisturbanceAssumption DEF Spend
<1>4. CASE /\ (\E min \in Sizes : ReconcileHiveWarmPool(min)) \/ PoolStep
           /\ UNCHANGED <<autoscaler, budget>>
    BY <1>1, <1>4 DEF ReconcileHiveWarmPool, PoolMoves
<1>5. CASE Scale /\ UNCHANGED <<warmpool, budget>>
    BY <1>2, <1>5 DEF Scale
<1>6. CASE AggregateMetrics /\ Spend /\ UNCHANGED <<fleet, scaling, scaler, warmpool>>
    BY <1>2, <1>3, <1>6
<1>7. CASE Failure /\ Spend
    BY <1>1, <1>2, <1>3, <1>7 DEF Failure, PoolMoves
<1>8. CASE /\ \E p \in DOMAIN drones : RemoveDrone(p)
           /\ Spend /\ UNCHANGED <<autoscaler, warmpool>>
    BY <1>2, <1>3, <1>8
<1>9. CASE UNCHANGED vars
    BY <1>2, <1>9 DEF vars
<1> QED
    BY <1>4, <1>5, <1>6, <1>7, <1>8, <1>9 DEF Next

LEMMA Invariant == Spec => []Inv
BY InitInv, StepInv, PTL DEF Spec

--------------------------------------------------------------------------------
(* The theorems.                                                           *)

\* Whatever the pool, the autoscaler and API clients do, the state keeps its
\* types: identifiers of processes, the records of the store, the pools.
THEOREM TypeCorrect == Spec => []TypeOK
BY Invariant, PTL DEF Inv

\* ReplicasInBounds, for any limits and metrics: the drones the autoscaler made
\* stay within MaxReplicas, whatever the pool does between its two counts.
THEOREM ReplicasStayInBounds == Spec => []ReplicasInBounds
BY Invariant, PTL DEF Inv

\* PoolWithinSize, for any minimum sizes and any number of pools: two loops
\* that fill a pool and clients that bring drones back never overfill it.
THEOREM PoolsStayWithinSize == Spec => []PoolWithinSize
<1>1. Inv => PoolWithinSize
    BY DEF Inv, Shape, PoolsInOrder, PoolWithinSize
<1> QED
    BY <1>1, Invariant, PTL

\* NoProcessLeftBehind, for any number of drones: whichever step of making a
\* drone fails, its process has a record, is still being recorded, or is gone.
THEOREM ProcessesAreAccountedFor == Spec => []NoProcessLeftBehind
<1>1. Inv => NoProcessLeftBehind
    <2> SUFFICES ASSUME Inv PROVE NoProcessLeftBehind
        OBVIOUS
    <2>1. Recording \subseteq {filler["queen"].hand, filler["maintenance"].hand, scaler.hand}
        BY DEF Recording, Fillers
    <2> QED
        BY <2>1 DEF Inv, Accounted, NoProcessLeftBehind
<1> QED
    BY <1>1, Invariant, PTL

\* A set with at most one element, which it has only if P holds.
LEMMA AtMostOne ==
    ASSUME NEW S, NEW P \in BOOLEAN, \A x, y \in S : x = y, S # {} => P
    PROVE  Cardinality(S) \in {0, 1} /\ (Cardinality(S) = 1 => P)
<1>1. CASE S = {}
    BY <1>1, FS_EmptySet
<1>2. ASSUME NEW x \in S PROVE Cardinality(S) = 1 /\ P
    <2>1. S = {x}
        OBVIOUS
    <2> QED
        BY <2>1, FS_Singleton
<1> QED
    BY <1>1, <1>2

\* HeldOnce, for any number of pools, sizes and drones: a warm drone is in one
\* place, once.
THEOREM DronesAreHeldOnce == Spec => []HeldOnce
<1>1. Inv => HeldOnce
    <2> SUFFICES ASSUME Inv, NEW p \in 1 .. launched PROVE Places(p) <= 1
        BY DEF HeldOnce
    <2> USE DEF Inv
    <2> DEFINE At(h) == IF p \in Held(h) THEN 1 ELSE 0
               places(i) == {<<i, j>> : j \in {j \in DOMAIN WarmDrones(i) : WarmDrones(i)[j] = p}}
               pooled == UNION {places(i) : i \in DOMAIN pools}
    <2>1. \A g, h \in Holders : g # h => ~(p \in Held(g) /\ p \in Held(h))
        BY DEF Apart
    <2>2. p \in Nat /\ p # 0
        BY DEF TypeOK, FleetTypeOK
    <2>3. Cardinality(pooled) \in {0, 1} /\ (Cardinality(pooled) = 1 => p \in Held("pool"))
        <3>1. \A x, y \in pooled : x = y
            BY DEF PooledOnce
        <3>2. pooled # {} => p \in Held("pool")
            BY <2>2 DEF Held, Pooled
        <3> HIDE DEF pooled
        <3> QED
            BY <3>1, <3>2, AtMostOne
    <2>4. Occurrences(p, victims) \in {0, 1}
          /\ (Occurrences(p, victims) = 1 => p \in Held("victims"))
        <3> DEFINE S == {i \in DOMAIN victims : victims[i] = p}
        <3>1. \A x, y \in S : x = y
            BY DEF IsInjective
        <3>2. S # {} => p \in Held("victims")
            BY DEF Held, Range
        <3> HIDE DEF S
        <3>3. Cardinality(S) \in {0, 1} /\ (Cardinality(S) = 1 => p \in Held("victims"))
            BY <3>1, <3>2, AtMostOne
        <3> QED
            BY <3>3 DEF Occurrences, S
    <2>5. /\ (IF p \in lent THEN 1 ELSE 0) = At("lent")
          /\ (IF p \in {client.drone} THEN 1 ELSE 0) = At("client")
          /\ (IF p \in {filler["queen"].hand} THEN 1 ELSE 0) = At("queen")
          /\ (IF p \in {filler["maintenance"].hand} THEN 1 ELSE 0) = At("maintenance")
          /\ (IF p \in {scaler.hand} THEN 1 ELSE 0) = At("scaler")
        BY <2>2 DEF Held
    <2>6. Places(p) = Cardinality(pooled) + Occurrences(p, victims) + At("lent") + At("client")
                      + At("queen") + At("maintenance") + At("scaler")
        BY <2>5 DEF Places
    <2> HIDE DEF pooled
    <2>7. /\ At("lent") \in {0, 1} /\ At("client") \in {0, 1} /\ At("queen") \in {0, 1}
          /\ At("maintenance") \in {0, 1} /\ At("scaler") \in {0, 1}
          /\ At("lent") = 1 => p \in Held("lent")
          /\ At("client") = 1 => p \in Held("client")
          /\ At("queen") = 1 => p \in Held("queen")
          /\ At("maintenance") = 1 => p \in Held("maintenance")
          /\ At("scaler") = 1 => p \in Held("scaler")
        OBVIOUS
    <2> HIDE DEF At
    <2> QED
        BY <2>1, <2>3, <2>4, <2>6, <2>7 DEF Holders
<1> QED
    BY <1>1, Invariant, PTL

================================================================================
