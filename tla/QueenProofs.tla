------------------------------ MODULE QueenProofs ------------------------------
(***************************************************************************)
(* The Queen's reconciliation, for any number of specs, replicas,          *)
(* processes, failures and crashes; and the circuit breakers it makes for  *)
(* its agents, for any number of callers, any thresholds and any number of *)
(* removals.                                                               *)
(***************************************************************************)
EXTENDS Queen, CircuitBreaker, FiniteSetTheorems, TLAPS

LEMMA Bounds ==
    MaxReplicas \in Nat /\ Capacity \in Nat /\ WatchCapacity \in Nat \ {0}
BY BoundsAssumption

(***************************************************************************)
(* Sets of processes are finite and have a size.                           *)
(***************************************************************************)
LEMMA ProcSets ==
    ASSUME NEW S \in SUBSET Procs
    PROVE  IsFiniteSet(S) /\ Cardinality(S) \in Nat
BY ProcsAssumption, FS_Subset, FS_CardinalityType

LEMMA Fewer ==
    ASSUME NEW S \in SUBSET Procs, NEW T \in SUBSET S
    PROVE  Cardinality(T) <= Cardinality(S)
BY ProcSets, FS_Subset

LEMMA OneMore ==
    ASSUME NEW S \in SUBSET Procs, NEW p \in Procs
    PROVE  Cardinality(S \cup {p}) <= Cardinality(S) + 1
BY ProcSets, FS_AddElement

LEMMA DronesSubset ==
    ASSUME NEW s
    PROVE  DronesOf(s) \in SUBSET Procs
BY DEF DronesOf

--------------------------------------------------------------------------------
(***************************************************************************)
(* What the three properties need to be inductive: drones are created for  *)
(* a spec, and none are left to create at any other time; a reservation    *)
(* that Schedule has just made is still unused; and the process in         *)
(* createDrone's hand is not in the registry yet.                          *)
(***************************************************************************)
LeftOver == IF Creating THEN spec \in Specs ELSE left = 0

Reserved == pc = "launch" => Cardinality(tracked) + 1 <= Capacity - free

InHand == pc = "record" => hand \in Procs \ registry

IInv ==
    /\ TypeOK
    /\ NoOvershoot
    /\ NoOvercommit
    /\ LeftOver
    /\ Reserved
    /\ InHand

LEMMA InitIInv == Init => IInv
<1> SUFFICES ASSUME Init PROVE IInv
    OBVIOUS
<1>1. TypeOK
    BY Bounds, MarkersAssumption DEF Init, TypeOK, Sizes, NoChange, Steps
<1>2. Cardinality(tracked) = 0
    BY FS_EmptySet DEF Init
<1> QED BY <1>1, <1>2, Bounds
    DEF Init, IInv, NoOvershoot, NoOvercommit, LeftOver, Reserved, InHand, Creating

(***************************************************************************)
(* A step that leaves the pass, the launcher, the registry and the         *)
(* reservations alone, and adds no drone, keeps all but the types.         *)
(***************************************************************************)
LEMMA Outside ==
    ASSUME IInv, TypeOK', UNCHANGED <<memory, pc, spec, wanted, left, hand>>,
           \A s \in Specs : DronesOf(s)' \subseteq DronesOf(s)
    PROVE  IInv'
<1>1. NoOvershoot'
    <2> SUFFICES ASSUME Creating' PROVE left > 0 /\ Cardinality(DronesOf(spec)') + left <= wanted
        BY DEF NoOvershoot, DronesOf
    <2>1. Creating /\ spec \in Specs
        BY DEF Creating, IInv, LeftOver
    <2>2. Cardinality(DronesOf(spec)') <= Cardinality(DronesOf(spec))
        BY <2>1, DronesSubset, Fewer
    <2>3. Cardinality(DronesOf(spec)') \in Nat /\ Cardinality(DronesOf(spec)) \in Nat
        BY <2>1, DronesSubset, Fewer, ProcSets
    <2>4. left \in Int /\ wanted \in Int
        BY Bounds DEF IInv, TypeOK, Sizes
    <2> QED BY <2>1, <2>2, <2>3, <2>4 DEF IInv, NoOvershoot
<1> QED BY <1>1 DEF IInv, memory, NoOvercommit, LeftOver, Reserved, InHand, Creating

--------------------------------------------------------------------------------
(***************************************************************************)
(* The steps that go on to the next drone: they may have made one.         *)
(***************************************************************************)
LEMMA Counters ==
    ASSUME TypeOK
    PROVE  left \in Nat /\ wanted \in Nat /\ left <= wanted /\ free \in 0 .. Capacity
BY Bounds DEF TypeOK, Sizes

LEMMA NextDroneTyped ==
    ASSUME IInv, Creating, NextDrone
    PROVE  /\ pc' \in {"next", "schedule"}
           /\ spec' \in Specs \cup {NoSpec}
           /\ wanted' \in Sizes \cup {1} /\ left' \in 0 .. wanted'
           /\ LeftOver'
<1>1. left \in Nat /\ left > 0 /\ wanted \in Nat /\ left <= wanted /\ spec \in Specs
    BY Counters DEF IInv, NoOvershoot, LeftOver
<1>2. wanted \in Sizes \cup {1} /\ 0 \in Sizes
    BY Bounds DEF IInv, TypeOK, Sizes
<1>3. CASE left = 1
    BY <1>1, <1>2, <1>3 DEF NextDrone, Leave, Goto, LeftOver, Creating
<1>4. CASE left # 1
    BY <1>1, <1>2, <1>4 DEF NextDrone, Goto, LeftOver, Creating
<1> QED BY <1>3, <1>4

LEMMA NextDroneShoots ==
    ASSUME IInv, Creating, NextDrone,
           \A s \in Specs : Cardinality(DronesOf(s)') <= Cardinality(DronesOf(s)) + 1
    PROVE  NoOvershoot'
<1> SUFFICES ASSUME Creating' PROVE left' > 0 /\ Cardinality(DronesOf(spec)') + left' <= wanted'
    BY DEF NoOvershoot
<1>1. left \in Nat /\ left > 0 /\ wanted \in Nat /\ spec \in Specs
      /\ Cardinality(DronesOf(spec)) + left <= wanted
    BY Counters DEF IInv, NoOvershoot, LeftOver
<1>2. left # 1 /\ left' = left - 1 /\ spec' = spec /\ wanted' = wanted
    BY DEF NextDrone, Leave, Goto, Creating
<1>3. DronesOf(spec)' = {p \in Procs : drones'[p] = spec}
    BY <1>2 DEF DronesOf
<1>4. Cardinality(DronesOf(spec)') <= Cardinality(DronesOf(spec)) + 1
    BY <1>1, <1>2, <1>3 DEF DronesOf
<1>5. Cardinality(DronesOf(spec)) \in Nat /\ Cardinality(DronesOf(spec)') \in Nat
    BY <1>3, DronesSubset, ProcSets
<1> QED BY <1>1, <1>2, <1>4, <1>5

LEMMA SameDrones ==
    ASSUME drones' = drones
    PROVE  \A s : DronesOf(s)' = DronesOf(s) /\ Cardinality(DronesOf(s)') <= Cardinality(DronesOf(s)) + 1
<1> SUFFICES ASSUME NEW s
             PROVE  DronesOf(s)' = DronesOf(s) /\ Cardinality(DronesOf(s)') <= Cardinality(DronesOf(s)) + 1
    OBVIOUS
<1>1. DronesOf(s)' = DronesOf(s)
    BY DEF DronesOf
<1>2. Cardinality(DronesOf(s)) \in Nat
    BY DronesSubset, ProcSets
<1> QED BY <1>1, <1>2

--------------------------------------------------------------------------------
(***************************************************************************)
(* Clients, processes and events touch nothing the pass relies on.         *)
(***************************************************************************)
LEMMA ClientStep ==
    ASSUME IInv, Client \/ CommitChange \/ (\E p \in Procs : ProcessExit(p)) \/ TakeEvent
    PROVE  IInv'
<1>1. ASSUME NEW s \in Specs, NEW to \in Sizes \cup {Absent}, NotifyChange(s, to) PROVE IInv'
    <2>1. change' \in [spec : Specs \cup {NoSpec}, to : Sizes \cup {Absent}]
        BY <1>1 DEF NotifyChange
    <2>2. events' \in 0 .. WatchCapacity /\ watching' \in BOOLEAN
        <3>1. events \in 0 .. WatchCapacity /\ watching \in BOOLEAN
            BY DEF TypeOK, IInv
        <3>2. \/ events < WatchCapacity /\ events' = events + 1 /\ watching' = watching
              \/ events' = events /\ watching' = FALSE
              \/ events' = events /\ watching' = watching
            BY <1>1 DEF NotifyChange
        <3>3. events' \in 0 .. WatchCapacity
            BY <3>1, <3>2, Bounds
        <3> QED BY <3>1, <3>2, <3>3
    <2>3. UNCHANGED <<specs, drones, alive, memory, trigger, pass>>
        BY <1>1 DEF NotifyChange
    <2>4. TypeOK'
        BY <2>1, <2>2, <2>3 DEF TypeOK, IInv, memory, pass
    <2> QED BY <2>3, <2>4, Outside, SameDrones DEF pass
<1>2. ASSUME NEW p \in Procs, RemoveDrone(p) PROVE IInv'
    <2>1. TypeOK'
        BY <1>2 DEF TypeOK, IInv, RemoveDrone, memory, signals, pass
    <2>2. \A s \in Specs : DronesOf(s)' \subseteq DronesOf(s)
        BY <1>2, MarkersAssumption DEF RemoveDrone, DronesOf
    <2> QED BY <1>2, <2>1, <2>2, Outside DEF RemoveDrone, pass
<1>3. ASSUME CommitChange PROVE IInv'
    <2>1. TypeOK'
        BY <1>3 DEF TypeOK, IInv, CommitChange, NoChange, memory, signals, pass
    <2> QED BY <1>3, <2>1, Outside, SameDrones DEF CommitChange, pass
<1>4. ASSUME NEW p \in Procs, ProcessExit(p) PROVE IInv'
    <2>1. TypeOK'
        BY <1>4 DEF TypeOK, IInv, ProcessExit, store, memory, signals, pass
    <2> QED BY <1>4, <2>1, Outside, SameDrones DEF ProcessExit, store, pass
<1>5. ASSUME TakeEvent PROVE IInv'
    <2>1. TypeOK'
        BY <1>5, Bounds DEF TypeOK, IInv, TakeEvent, store, memory, pass
    <2> QED BY <1>5, <2>1, Outside, SameDrones DEF TakeEvent, store, pass
<1> QED BY <1>1, <1>2, <1>3, <1>4, <1>5 DEF Client

(***************************************************************************)
(* A pass begins, compares and ends.                                       *)
(***************************************************************************)
LEMMA PassStep ==
    ASSUME IInv, TriggeredPass \/ TickPass \/ (\E s \in Visible : Reconcile(s)) \/ EndPass
    PROVE  IInv'
<1>1. ASSUME ListSpecs, trigger' \in BOOLEAN PROVE IInv'
    <2>1. TypeOK'
        BY <1>1, VisibleAssumption DEF TypeOK, IInv, ListSpecs, store, memory, Steps
    <2> QED BY <1>1, <2>1 DEF IInv, ListSpecs, NoOvershoot, NoOvercommit, LeftOver, Reserved, InHand,
                             Creating, memory
<1>2. ASSUME NEW s \in Visible, Reconcile(s) PROVE IInv'
    <2> DEFINE present == Cardinality(DronesOf(s))
               desired == Desired(seen[s])
    <2>1. present \in Nat /\ desired \in Sizes \cup {1} /\ desired \in Nat /\ s \in Specs /\ left = 0
        BY <1>2, Bounds, DronesSubset, ProcSets, VisibleAssumption
           DEF TypeOK, IInv, Reconcile, Desired, Sizes, LeftOver, Creating
    <2>2. pc = "next" /\ seen' = [t \in DOMAIN seen \ {s} |-> seen[t]]
          /\ UNCHANGED <<store, alive, memory, signals, hand>>
        BY <1>2 DEF Reconcile
    <2>3. CASE present < desired /\ spec' = s /\ wanted' = desired /\ left' = desired - present
               /\ pc' = "schedule" /\ UNCHANGED victims
        <3>1. TypeOK'
            BY <2>1, <2>2, <2>3 DEF TypeOK, IInv, store, memory, signals, Steps
        <3>2. NoOvershoot'
            <4>1. DronesOf(spec)' = DronesOf(s)
                BY <2>2, <2>3 DEF DronesOf, store
            <4> QED BY <2>1, <2>3, <4>1 DEF NoOvershoot
        <3> QED BY <2>1, <2>2, <2>3, <3>1, <3>2
            DEF IInv, NoOvercommit, LeftOver, Reserved, InHand, Creating, memory
    <2>4. ASSUME NEW V \in SUBSET DronesOf(s), victims' = V, spec' = s, wanted' = desired,
                 pc' = "stop", UNCHANGED left
          PROVE  IInv'
        <3>1. TypeOK'
            BY <2>1, <2>2, <2>4, DronesSubset DEF TypeOK, IInv, store, memory, signals, Steps
        <3> QED BY <2>1, <2>2, <2>4, <3>1
            DEF IInv, NoOvershoot, NoOvercommit, LeftOver, Reserved, InHand, Creating, memory
    <2>5. CASE UNCHANGED <<pc, spec, wanted, left, victims>>
        <3>1. TypeOK'
            BY <2>1, <2>2, <2>5 DEF TypeOK, IInv, store, memory, signals
        <3> QED BY <2>1, <2>2, <2>5, <3>1, Outside, SameDrones DEF store
    <2> HIDE DEF present, desired
    <2> QED BY <1>2, <2>3, <2>4, <2>5 DEF Reconcile, Goto, kSubset, present, desired
<1>3. ASSUME EndPass PROVE IInv'
    <2>1. TypeOK'
        BY <1>3 DEF TypeOK, IInv, EndPass, Goto, store, memory, signals, Steps
    <2> QED BY <1>3, <2>1 DEF IInv, EndPass, Goto, NoOvershoot, NoOvercommit, LeftOver, Reserved, InHand,
                             Creating, memory
<1>4. trigger \in BOOLEAN /\ FALSE \in BOOLEAN
    BY DEF IInv, TypeOK
<1>5. TriggeredPass \/ TickPass => ListSpecs /\ trigger' \in BOOLEAN
    BY <1>4 DEF TriggeredPass, TickPass
<1> QED BY <1>1, <1>2, <1>3, <1>5

--------------------------------------------------------------------------------
(***************************************************************************)
(* createDrone: a reservation, a process, a record.                        *)
(***************************************************************************)
LEMMA Tracked ==
    ASSUME IInv
    PROVE  /\ tracked \in SUBSET Procs /\ registry \in SUBSET Procs
           /\ IsFiniteSet(tracked) /\ Cardinality(tracked) \in Nat
           /\ Capacity \in Nat /\ free \in Nat /\ free <= Capacity
           /\ Cardinality(tracked) <= Capacity - free
<1>1. tracked \in SUBSET Procs /\ registry \in SUBSET Procs
    BY DEF IInv, TypeOK
<1>2. IsFiniteSet(tracked) /\ Cardinality(tracked) \in Nat
    BY <1>1, ProcSets
<1>3. Capacity \in Nat /\ free \in 0 .. Capacity
    BY Bounds, Counters DEF IInv
<1>4. Cardinality(tracked) <= Capacity - free
    BY DEF IInv, NoOvercommit
<1> QED BY <1>1, <1>2, <1>3, <1>4

LEMMA ScheduleStep ==
    ASSUME IInv, Schedule
    PROVE  IInv'
<1>0. pc = "schedule" /\ Creating
      /\ UNCHANGED <<store, alive, tracked, registry, signals, seen, victims, hand, budget>>
    BY DEF Schedule, Creating
<1>1. CASE free > 0 /\ free' = free - 1 /\ pc' = "launch" /\ UNCHANGED <<spec, wanted, left>>
    <2>1. free' \in 0 .. Capacity /\ Cardinality(tracked) + 1 <= Capacity - free'
          /\ Cardinality(tracked) <= Capacity - free'
        BY <1>1, Tracked
    <2>2. TypeOK'
        BY <1>0, <1>1, <2>1 DEF IInv, TypeOK, store, signals, Steps
    <2>3. NoOvershoot'
        <3>1. DronesOf(spec)' = DronesOf(spec)
            BY <1>0, <1>1 DEF DronesOf, store
        <3> QED BY <1>0, <1>1, <3>1 DEF IInv, NoOvershoot
    <2>4. NoOvercommit'
        BY <1>0, <1>1, <2>1 DEF IInv, NoOvercommit
    <2> QED BY <1>0, <1>1, <2>1, <2>2, <2>3, <2>4
        DEF IInv, LeftOver, Reserved, InHand, Creating
<1>2. CASE free = 0 /\ NextDrone /\ UNCHANGED free
    <2>1. pc' \in {"next", "schedule"} /\ LeftOver'
        BY <1>0, <1>2, NextDroneTyped
    <2>2. TypeOK'
        BY <1>0, <1>2, NextDroneTyped DEF IInv, TypeOK, store, signals, Steps
    <2>3. NoOvershoot'
        BY <1>0, <1>2, NextDroneShoots, SameDrones DEF store
    <2> QED BY <1>0, <1>2, <2>1, <2>2, <2>3 DEF IInv, NoOvercommit, Reserved, InHand
<1> QED BY <1>1, <1>2 DEF Schedule, Goto

LEMMA LaunchStep ==
    ASSUME IInv, Launch
    PROVE  IInv'
<1>1. hand' \in Unused
    BY DEF Launch
<1>2. pc = "launch" /\ pc' = "record" /\ Creating
      /\ alive' = alive \cup {hand'} /\ tracked' = tracked \cup {hand'}
      /\ UNCHANGED <<store, registry, free, signals, seen, spec, wanted, left, victims, budget>>
    BY DEF Launch, Goto, Creating
<1>3. hand' \in Procs \ registry
    BY <1>1 DEF Unused
<1>4. Cardinality(tracked') <= Cardinality(tracked) + 1 /\ Cardinality(tracked') \in Nat
    <2>1. tracked' \in SUBSET Procs
        BY <1>2, <1>3, Tracked
    <2> QED BY <1>2, <1>3, <2>1, Tracked, OneMore, ProcSets
<1>5. Cardinality(tracked) + 1 <= Capacity - free
    BY <1>2 DEF IInv, Reserved
<1>6. Cardinality(tracked') <= Capacity - free'
    BY <1>2, <1>4, <1>5, Tracked
<1>7. TypeOK'
    BY <1>2, <1>3 DEF IInv, TypeOK, store, signals, Steps
<1>8. NoOvershoot'
    <2>1. DronesOf(spec)' = DronesOf(spec)
        BY <1>2 DEF DronesOf, store
    <2> QED BY <1>2, <2>1 DEF IInv, NoOvershoot
<1>9. NoOvercommit'
    <2>1. tracked = registry
        BY <1>2 DEF IInv, NoOvercommit
    <2> QED BY <1>2, <1>6, <2>1 DEF NoOvercommit
<1> QED BY <1>2, <1>3, <1>7, <1>8, <1>9 DEF IInv, LeftOver, Reserved, InHand, Creating

LEMMA LaunchFailsStep ==
    ASSUME IInv, LaunchFails
    PROVE  IInv'
<1>1. pc = "launch" /\ Creating /\ NextDrone
      /\ UNCHANGED <<store, alive, memory, signals, seen, victims, hand>>
    BY DEF LaunchFails, Creating
<1>2. pc' \in {"next", "schedule"} /\ LeftOver'
    BY <1>1, NextDroneTyped
<1>3. TypeOK'
    BY <1>1, NextDroneTyped DEF IInv, TypeOK, store, signals, memory, Steps
<1>4. NoOvershoot'
    BY <1>1, NextDroneShoots, SameDrones DEF store
<1> QED BY <1>1, <1>2, <1>3, <1>4 DEF IInv, NoOvercommit, Reserved, InHand, memory

LEMMA RecordDroneStep ==
    ASSUME IInv, RecordDrone
    PROVE  IInv'
<1>1. pc = "record" /\ Creating /\ NextDrone /\ hand' = NoProc
      /\ drones' = [drones EXCEPT ![hand] = spec] /\ registry' = registry \cup {hand}
      /\ UNCHANGED <<specs, change, alive, tracked, free, signals, seen, victims, budget>>
    BY DEF RecordDrone, Creating
<1>2. hand \in Procs /\ spec \in Specs
    BY <1>1 DEF IInv, InHand, LeftOver
<1>3. pc' \in {"next", "schedule"} /\ LeftOver'
    BY <1>1, NextDroneTyped
<1>4. drones' \in [Procs -> Specs \cup {NoSpec}]
    BY <1>1, <1>2 DEF IInv, TypeOK
<1>5. registry' \in SUBSET Procs
    BY <1>1, <1>2, Tracked
<1>6. TypeOK'
    BY <1>1, <1>4, <1>5, NextDroneTyped DEF IInv, TypeOK, signals, Steps
<1>7. \A s \in Specs : Cardinality(DronesOf(s)') <= Cardinality(DronesOf(s)) + 1
    <2> SUFFICES ASSUME NEW s \in Specs
                 PROVE  Cardinality(DronesOf(s)') <= Cardinality(DronesOf(s)) + 1
        OBVIOUS
    <2> DEFINE before == DronesOf(s)
               after == DronesOf(s)'
    <2>1. before \in SUBSET Procs /\ before \cup {hand} \in SUBSET Procs
        BY <1>2, DronesSubset
    <2>2. after \subseteq before \cup {hand}
        BY <1>1, <1>2 DEF DronesOf, IInv, TypeOK
    <2> HIDE DEF before, after
    <2>3. Cardinality(after) <= Cardinality(before \cup {hand})
        BY <2>1, <2>2, Fewer
    <2>4. Cardinality(before \cup {hand}) <= Cardinality(before) + 1
        BY <1>2, <2>1, OneMore
    <2>5. Cardinality(after) \in Nat /\ Cardinality(before) \in Nat
          /\ Cardinality(before \cup {hand}) \in Nat
        BY <2>1, <2>2, ProcSets
    <2>6. Cardinality(after) <= Cardinality(before) + 1
        BY <2>3, <2>4, <2>5
    <2> QED BY <2>6 DEF before, after
<1>8. NoOvershoot'
    BY <1>1, <1>7, NextDroneShoots
<1>9. tracked = registry \cup {hand}
    BY <1>1 DEF IInv, NoOvercommit
<1>10. NoOvercommit'
    BY <1>1, <1>3, <1>9 DEF IInv, NoOvercommit
<1> QED BY <1>3, <1>6, <1>8, <1>10 DEF IInv, Reserved, InHand

LEMMA RecordFailsStep ==
    ASSUME IInv, RecordFails
    PROVE  IInv'
<1>1. pc = "record" /\ Creating /\ NextDrone /\ hand' = NoProc
      /\ tracked' = tracked \ {hand}
      /\ UNCHANGED <<store, alive, registry, free, signals, seen, victims>>
    BY DEF RecordFails, Stop, Creating
<1>2. pc' \in {"next", "schedule"} /\ LeftOver'
    BY <1>1, NextDroneTyped
<1>3. tracked' \in SUBSET Procs
    BY <1>1, Tracked
<1>4. TypeOK'
    BY <1>1, <1>3, NextDroneTyped DEF IInv, TypeOK, store, signals, Steps
<1>5. NoOvershoot'
    BY <1>1, NextDroneShoots, SameDrones DEF store
<1>6. Cardinality(tracked') <= Capacity - free'
    <2>1. Cardinality(tracked') <= Cardinality(tracked) /\ Cardinality(tracked') \in Nat
        BY <1>1, <1>3, Tracked, Fewer, ProcSets
    <2> QED BY <1>1, <2>1, Tracked
<1>7. tracked' = registry'
    BY <1>1 DEF IInv, NoOvercommit, InHand
<1>8. NoOvercommit'
    BY <1>2, <1>6, <1>7 DEF NoOvercommit
<1> QED BY <1>2, <1>4, <1>5, <1>8 DEF IInv, Reserved, InHand

--------------------------------------------------------------------------------
(***************************************************************************)
(* deleteDrone: nothing is being created meanwhile.                        *)
(***************************************************************************)
LEMMA StopVictimStep ==
    ASSUME IInv, NEW p \in Procs, StopVictim(p)
    PROVE  IInv'
<1>1. pc = "stop" /\ pc' = "delete" /\ hand' = p /\ victims' = victims \ {p}
      /\ UNCHANGED <<store, alive, free, signals, seen, spec, wanted, left>>
    BY DEF StopVictim, Stop, Goto
<1>2. /\ tracked' \subseteq tracked /\ registry' \subseteq registry
      /\ tracked = registry /\ tracked' = registry'
    <2>1. tracked = registry
        BY <1>1 DEF IInv, NoOvercommit
    <2> QED BY <2>1 DEF StopVictim, Stop
<1>3. TypeOK'
    BY <1>1, <1>2 DEF IInv, TypeOK, store, signals, Steps
<1>4. Cardinality(tracked') <= Capacity - free'
    <2>1. Cardinality(tracked') <= Cardinality(tracked) /\ Cardinality(tracked') \in Nat
        BY <1>2, Tracked, Fewer, ProcSets
    <2> QED BY <1>1, <2>1, Tracked
<1>5. left = 0
    BY <1>1 DEF IInv, LeftOver, Creating
<1>6. NoOvercommit'
    BY <1>1, <1>2, <1>4 DEF NoOvercommit
<1> QED BY <1>1, <1>3, <1>5, <1>6 DEF IInv, NoOvershoot, LeftOver, Reserved, InHand, Creating

LEMMA EndVictimStep ==
    ASSUME IInv, pc = "delete", EndVictim, drones' \in [Procs -> Specs \cup {NoSpec}]
    PROVE  IInv'
<1>1. /\ pc' \in {"next", "stop"} /\ spec' \in {spec, NoSpec} /\ wanted' \in Sizes \cup {1}
      /\ left = 0 /\ left' = 0 /\ hand' = NoProc
      /\ UNCHANGED <<specs, change, alive, memory, signals, seen, victims>>
    BY Bounds DEF EndVictim, Leave, Goto, IInv, TypeOK, LeftOver, Creating, Sizes
<1>2. left' \in 0 .. wanted'
    BY <1>1, Bounds DEF Sizes
<1>3. TypeOK'
    BY <1>1, <1>2 DEF IInv, TypeOK, memory, signals, Steps
<1>4. NoOvercommit'
    BY <1>1 DEF IInv, NoOvercommit, memory
<1> QED BY <1>1, <1>3, <1>4 DEF IInv, NoOvershoot, LeftOver, Reserved, InHand, Creating

LEMMA DeleteStep ==
    ASSUME IInv, DeleteVictim \/ DeleteFails
    PROVE  IInv'
<1>1. drones' \in [Procs -> Specs \cup {NoSpec}]
    BY DEF IInv, TypeOK, DeleteVictim, DeleteFails
<1> QED BY <1>1, EndVictimStep DEF DeleteVictim, DeleteFails

(***************************************************************************)
(* A crash empties the memory; what the store keeps is still well typed.   *)
(***************************************************************************)
LEMMA CrashStep ==
    ASSUME IInv, Crash
    PROVE  IInv'
<1>1. Cardinality(tracked') = 0
    BY FS_EmptySet DEF Crash
<1>2. change' \in [spec : Specs \cup {NoSpec}, to : Sizes \cup {Absent}]
    BY DEF Crash, NoChange
<1>3. TypeOK'
    BY <1>2, Bounds DEF IInv, TypeOK, Crash, Sizes, Steps
<1> QED BY <1>1, <1>3, Bounds
    DEF Crash, IInv, NoOvershoot, NoOvercommit, LeftOver, Reserved, InHand, Creating

--------------------------------------------------------------------------------
LEMMA NextIInv == IInv /\ [Next]_vars => IInv'
<1> SUFFICES ASSUME IInv, [Next]_vars PROVE IInv'
    OBVIOUS
<1>1. CASE Client \/ CommitChange \/ (\E p \in Procs : ProcessExit(p)) \/ TakeEvent
    BY <1>1, ClientStep
<1>2. CASE Loop
    BY <1>2, PassStep, ScheduleStep, LaunchStep, LaunchFailsStep, RecordDroneStep,
       RecordFailsStep, StopVictimStep, DeleteStep DEF Loop
<1>3. CASE Crash
    BY <1>3, CrashStep
<1>4. CASE UNCHANGED vars
    <2>1. TypeOK'
        BY <1>4 DEF vars, store, memory, signals, pass, IInv, TypeOK
    <2>2. UNCHANGED <<memory, pc, spec, wanted, left, hand>> /\ drones' = drones
        BY <1>4 DEF vars, pass, store
    <2> QED BY <2>1, <2>2, Outside, SameDrones
<1> QED BY <1>1, <1>2, <1>3, <1>4 DEF Next

LEMMA Inductive == Spec => []IInv
BY InitIInv, NextIInv, PTL DEF Spec

(***************************************************************************)
(* Every variable stays within its type: a pass never counts below zero    *)
(* what is left to create, and the scheduler never more than it has.       *)
(***************************************************************************)
THEOREM TypeCorrect == Spec => []TypeOK
<1>1. IInv => TypeOK
    BY DEF IInv
<1> QED BY <1>1, Inductive, PTL

(***************************************************************************)
(* However clients, failures and crashes interleave with a pass, the pass  *)
(* never makes more drones than the spec it read asked for.                *)
(***************************************************************************)
THEOREM PassBounded == Spec => []NoOvershoot
<1>1. IInv => NoOvershoot
    BY DEF IInv
<1> QED BY <1>1, Inductive, PTL

(***************************************************************************)
(* The launcher never tracks more processes than the scheduler reserved,   *)
(* and none that neither the registry nor createDrone knows.               *)
(***************************************************************************)
THEOREM Reservations == Spec => []NoOvercommit
<1>1. IInv => NoOvercommit
    BY DEF IInv
<1> QED BY <1>1, Inductive, PTL


--------------------------------------------------------------------------------
(* CircuitBreaker                                                          *)

USE DEF Counted, Tripped

LEMMA CountedTyped ==
    ASSUME NEW n \in 0 .. MaxFailures
    PROVE  Counted(n) \in 1 .. MaxFailures /\ Counted(n) >= n
BY ConfigAssumption

(***************************************************************************)
(* The breaker that a call holds while it asks or reports is one.          *)
(***************************************************************************)
LEMMA Held ==
    ASSUME BreakerTypeOK, NEW r \in Requests, step[r] \in {"asking", "reporting"}
    PROVE  holds[r] \in Breakers
BY DEF BreakerTypeOK

LEMMA BreakerTypeInit == BreakerInit => BreakerTypeOK
BY ConfigAssumption, BreakerBoundsAssumption, BreakerMarkersAssumption
   DEF BreakerInit, BreakerTypeOK, States, RequestSteps

LEMMA GetOrCreateTyped ==
    ASSUME BreakerTypeOK, NEW r \in Requests, GetOrCreate(r)
    PROVE  /\ current' \in Breakers \cup {NoBreaker}
           /\ state' \in [Breakers -> States]
           /\ failureCount' \in [Breakers -> 0 .. MaxFailures]
           /\ halfOpenRequestID' \in [Breakers -> Requests \cup {NoRequest}]
           /\ rested' \in [Breakers -> BOOLEAN]
           /\ holds' \in [Requests -> Breakers \cup {NoBreaker}]
           /\ holds'[r] # NoBreaker
           /\ \A q \in Requests \ {r} : holds'[q] = holds[q]
<1>1. CASE current # NoBreaker /\ holds' = [holds EXCEPT ![r] = current]
                /\ UNCHANGED <<current, breaker>>
    BY <1>1 DEF BreakerTypeOK, breaker
<1>2. ASSUME NEW b \in Breakers,
             current' = b, holds' = [holds EXCEPT ![r] = b],
             state' = [state EXCEPT ![b] = "closed"],
             failureCount' = [failureCount EXCEPT ![b] = 0],
             halfOpenRequestID' = [halfOpenRequestID EXCEPT ![b] = NoRequest],
             rested' = [rested EXCEPT ![b] = FALSE]
      PROVE  /\ current' \in Breakers \cup {NoBreaker}
             /\ state' \in [Breakers -> States]
             /\ failureCount' \in [Breakers -> 0 .. MaxFailures]
             /\ halfOpenRequestID' \in [Breakers -> Requests \cup {NoRequest}]
             /\ rested' \in [Breakers -> BOOLEAN]
             /\ holds' \in [Requests -> Breakers \cup {NoBreaker}]
             /\ holds'[r] # NoBreaker
             /\ \A q \in Requests \ {r} : holds'[q] = holds[q]
    BY <1>2, ConfigAssumption, BreakerMarkersAssumption DEF BreakerTypeOK, States
<1> QED BY <1>1, <1>2 DEF GetOrCreate

(***************************************************************************)
(* Every step keeps the types.                                             *)
(***************************************************************************)
LEMMA BreakerTypeNext == BreakerTypeOK /\ [BreakerNext]_breakerVars => BreakerTypeOK'
<1> SUFFICES ASSUME BreakerTypeOK, [BreakerNext]_breakerVars PROVE BreakerTypeOK'
    OBVIOUS
<1>1. ASSUME NEW r \in Requests, Ask(r) PROVE BreakerTypeOK'
    <2>1. GetOrCreate(r) /\ step' = [step EXCEPT ![r] = "asking"] /\ UNCHANGED <<outcome, allowance>>
        BY <1>1 DEF Ask
    <2> QED BY <2>1, GetOrCreateTyped DEF BreakerTypeOK, RequestSteps
<1>2. ASSUME NEW r \in Requests, Barge(r) PROVE BreakerTypeOK'
    BY <1>2 DEF Barge, BreakerTypeOK, RequestSteps, breaker
<1>3. ASSUME NEW r \in Requests, AllowRequest(r) PROVE BreakerTypeOK'
    <2>h. holds[r] \in Breakers
        BY <1>3, Held DEF AllowRequest
    <2>a. ASSUME NEW x \in BOOLEAN, Answer(r, x)
          PROVE  /\ step' \in [Requests -> RequestSteps]
                 /\ holds' \in [Requests -> Breakers \cup {NoBreaker}]
                 /\ \A q \in Requests : step'[q] \in {"asking", "reporting"} => holds'[q] # NoBreaker
                 /\ UNCHANGED <<current, failureCount, rested, outcome, allowance>>
        BY <2>a DEF Answer, BreakerTypeOK, RequestSteps
    <2>b. ASSUME NEW x \in BOOLEAN, Answer(r, x), UNCHANGED <<state, halfOpenRequestID>>
          PROVE  BreakerTypeOK'
        BY <2>a, <2>b DEF BreakerTypeOK
    <2>c. ASSUME AllowProbe(r, holds[r]) PROVE BreakerTypeOK'
        <3>1. Answer(r, TRUE) /\ state' = [state EXCEPT ![holds[r]] = "half-open"]
              /\ halfOpenRequestID' = [halfOpenRequestID EXCEPT ![holds[r]] = r]
            BY <2>c DEF AllowProbe
        <3> QED BY <3>1, <2>a, <2>h DEF BreakerTypeOK, States
    <2> QED BY <1>3, <2>b, <2>c DEF AllowRequest, AllowClosed, AllowOpen, AllowHalfOpen
<1>4. ASSUME NEW r \in Requests, NEW how \in {"success", "failure"}, Respond(r, how)
      PROVE  BreakerTypeOK'
    <2>1. /\ GetOrCreate(r) /\ step' = [step EXCEPT ![r] = "reporting"]
          /\ outcome' = [outcome EXCEPT ![r] = how] /\ UNCHANGED allowance
        BY <1>4 DEF Respond
    <2> QED BY <2>1, GetOrCreateTyped DEF BreakerTypeOK, RequestSteps
<1>5. ASSUME NEW r \in Requests, RecordFailure(r) PROVE BreakerTypeOK'
    <2>1. holds[r] \in Breakers
        BY <1>5, Held DEF RecordFailure
    <2>2. Counted(failureCount[holds[r]]) \in 0 .. MaxFailures
        BY <2>1, CountedTyped DEF BreakerTypeOK
    <2> QED BY <1>5, <2>1, <2>2 DEF RecordFailure, Reported, BreakerTypeOK, States, RequestSteps
<1>6. ASSUME NEW r \in Requests, RecordSuccess(r) PROVE BreakerTypeOK'
    <2>1. holds[r] \in Breakers
        BY <1>6, Held DEF RecordSuccess
    <2> QED BY <1>6, <2>1, ConfigAssumption
            DEF RecordSuccess, Reported, BreakerTypeOK, States, RequestSteps
<1>7. ASSUME NEW r \in Requests, Lose(r) PROVE BreakerTypeOK'
    BY <1>7, BreakerBoundsAssumption DEF Lose, BreakerTypeOK, RequestSteps, breaker
<1>8. ASSUME NEW r \in Requests, Retry(r) PROVE BreakerTypeOK'
    <2>1. /\ GetOrCreate(r) /\ step' = [step EXCEPT ![r] = "asking"] /\ UNCHANGED outcome
          /\ allowance.retry > 0 /\ allowance' = [allowance EXCEPT !.retry = @ - 1]
        BY <1>8 DEF Retry
    <2> QED BY <2>1, GetOrCreateTyped, BreakerBoundsAssumption DEF BreakerTypeOK, RequestSteps
<1>9. ASSUME NEW b \in Breakers, ResetTimeoutPasses(b) PROVE BreakerTypeOK'
    BY <1>9 DEF ResetTimeoutPasses, BreakerTypeOK, request
<1>10. CASE Remove
    BY <1>10, BreakerBoundsAssumption DEF Remove, BreakerTypeOK, breaker, request
<1>11. CASE UNCHANGED breakerVars
    BY <1>11 DEF breakerVars, breaker, request, BreakerTypeOK
<1> QED BY <1>1, <1>2, <1>3, <1>4, <1>5, <1>6, <1>7, <1>8, <1>9, <1>10, <1>11 DEF BreakerNext, Work

(***************************************************************************)
(* Every variable keeps its type in every reachable state.                 *)
(***************************************************************************)
THEOREM BreakerTypeCorrect == BreakerSpec => []BreakerTypeOK
BY BreakerTypeInit, BreakerTypeNext, PTL DEF BreakerSpec

--------------------------------------------------------------------------------
(***************************************************************************)
(* What is said of a single breaker, so that a step has only to be         *)
(* examined at the breaker it works on.                                    *)
(***************************************************************************)
Sound(b) ==
    /\ state[b] = "closed" <=> failureCount[b] < FailureThreshold
    /\ state[b] = "half-open" <=> halfOpenRequestID[b] # NoRequest

AllSound == \A b \in Breakers : Sound(b)

BreakerInv == BreakerTypeOK /\ AllSound

Same(b) ==
    /\ state'[b] = state[b] /\ failureCount'[b] = failureCount[b]
    /\ halfOpenRequestID'[b] = halfOpenRequestID[b]

LEMMA SameSound ==
    ASSUME NEW b, Sound(b), Same(b) PROVE Sound(b)'
BY DEF Sound, Same

LEMMA GetOrCreateSound ==
    ASSUME BreakerInv, NEW r \in Requests, GetOrCreate(r) PROVE AllSound'
<1> SUFFICES ASSUME NEW b \in Breakers PROVE Sound(b)'
    BY DEF AllSound
<1>1. Same(b) \/ /\ state'[b] = "closed" /\ failureCount'[b] = 0
                 /\ halfOpenRequestID'[b] = NoRequest
    BY DEF GetOrCreate, Same, BreakerInv, BreakerTypeOK, breaker
<1> QED BY <1>1, ConfigAssumption DEF Sound, Same, BreakerInv, AllSound

LEMMA AllowSound ==
    ASSUME BreakerInv, NEW r \in Requests, AllowRequest(r) PROVE AllSound'
<1> SUFFICES ASSUME NEW b \in Breakers PROVE Sound(b)'
    BY DEF AllSound
<1> DEFINE h == holds[r]
<1>h. h \in Breakers /\ Sound(h) /\ Sound(b)
    BY Held DEF AllowRequest, BreakerInv, AllSound
<1>1. ASSUME UNCHANGED <<state, halfOpenRequestID, failureCount>> PROVE Sound(b)'
    BY <1>h, <1>1 DEF Sound
<1>2. ASSUME AllowProbe(r, h), state[h] \in {"open", "half-open"} PROVE Sound(b)'
    <2>1. /\ state' = [state EXCEPT ![h] = "half-open"] /\ failureCount' = failureCount
          /\ halfOpenRequestID' = [halfOpenRequestID EXCEPT ![h] = r]
        BY <1>2 DEF AllowProbe, Answer
    <2>2. CASE b = h
        BY <1>h, <1>2, <2>1, <2>2, BreakerMarkersAssumption DEF Sound, BreakerInv, BreakerTypeOK
    <2>3. CASE b # h
        BY <1>h, <2>1, <2>3 DEF Sound, BreakerInv, BreakerTypeOK
    <2> QED BY <2>2, <2>3
<1> QED BY <1>1, <1>2 DEF AllowRequest, AllowClosed, AllowOpen, AllowHalfOpen, Answer

LEMMA RecordFailureSound ==
    ASSUME BreakerInv, NEW r \in Requests, RecordFailure(r) PROVE AllSound'
<1> SUFFICES ASSUME NEW b \in Breakers PROVE Sound(b)'
    BY DEF AllSound
<1> DEFINE h == holds[r]
           n == Counted(failureCount[h])
<1>h. h \in Breakers /\ Sound(h) /\ Sound(b)
    BY Held DEF RecordFailure, BreakerInv, AllSound
<1>n. n \in Nat /\ failureCount[h] \in Nat /\ n >= failureCount[h]
    BY <1>h, CountedTyped DEF BreakerInv, BreakerTypeOK
<1>1. CASE b = h
    <2>1. failureCount'[b] = n
        BY <1>1, <1>h DEF RecordFailure, BreakerInv, BreakerTypeOK
    <2>2. CASE state[h] = "closed"
        <3>1. state'[b] = (IF n >= FailureThreshold THEN "open" ELSE "closed")
              /\ halfOpenRequestID'[b] = halfOpenRequestID[b]
            BY <1>1, <1>h, <2>2 DEF RecordFailure, BreakerInv, BreakerTypeOK
        <3> QED BY <1>1, <1>h, <1>n, <2>1, <2>2, <3>1, ConfigAssumption DEF Sound
    <2>3. CASE state[h] = "half-open"
        <3>1. state'[b] = "open" /\ halfOpenRequestID'[b] = NoRequest
            BY <1>1, <1>h, <2>3 DEF RecordFailure, BreakerInv, BreakerTypeOK
        <3> QED BY <1>1, <1>h, <1>n, <2>1, <2>3, <3>1, ConfigAssumption DEF Sound
    <2>4. CASE state[h] = "open"
        <3>1. state'[b] = "open" /\ halfOpenRequestID'[b] = halfOpenRequestID[b]
            BY <1>1, <1>h, <2>4 DEF RecordFailure, BreakerInv, BreakerTypeOK
        <3> QED BY <1>1, <1>h, <1>n, <2>1, <2>4, <3>1, ConfigAssumption DEF Sound
    <2> QED BY <1>h, <2>2, <2>3, <2>4 DEF BreakerInv, BreakerTypeOK, States
<1>2. CASE b # h
    <2>1. Same(b)
        BY <1>2, <1>h DEF RecordFailure, Same, BreakerInv, BreakerTypeOK
    <2> QED BY <1>h, <2>1, SameSound
<1> QED BY <1>1, <1>2

LEMMA RecordSuccessSound ==
    ASSUME BreakerInv, NEW r \in Requests, RecordSuccess(r) PROVE AllSound'
<1> SUFFICES ASSUME NEW b \in Breakers PROVE Sound(b)'
    BY DEF AllSound
<1>h. holds[r] \in Breakers /\ Sound(holds[r]) /\ Sound(b)
    BY Held DEF RecordSuccess, BreakerInv, AllSound
<1>1. CASE b = holds[r]
    BY <1>1, <1>h, ConfigAssumption DEF RecordSuccess, Sound, BreakerInv, BreakerTypeOK
<1>2. CASE b # holds[r]
    <2>1. Same(b)
        BY <1>2, <1>h DEF RecordSuccess, Same, BreakerInv, BreakerTypeOK
    <2> QED BY <1>h, <2>1, SameSound
<1> QED BY <1>1, <1>2

LEMMA BreakerInvInit == BreakerInit => BreakerInv
<1> SUFFICES ASSUME BreakerInit PROVE AllSound
    BY BreakerTypeInit DEF BreakerInv
<1> QED BY ConfigAssumption DEF BreakerInit, AllSound, Sound

LEMMA BreakerInvNext == BreakerInv /\ [BreakerNext]_breakerVars => BreakerInv'
<1> SUFFICES ASSUME BreakerInv, [BreakerNext]_breakerVars PROVE AllSound'
    BY BreakerTypeNext DEF BreakerInv
<1>s. ASSUME UNCHANGED <<state, failureCount, halfOpenRequestID>> PROVE AllSound'
    BY <1>s DEF BreakerInv, AllSound, Sound
<1>1. ASSUME NEW r \in Requests, Work(r) PROVE AllSound'
    <2>1. CASE Ask(r)
        BY <2>1, GetOrCreateSound DEF Ask
    <2>2. CASE Barge(r)
        BY <2>2, <1>s DEF Barge, breaker
    <2>3. CASE Respond(r, "success") \/ Respond(r, "failure")
        BY <2>3, GetOrCreateSound DEF Respond
    <2> QED BY <1>1, <2>1, <2>2, <2>3, AllowSound, RecordFailureSound, RecordSuccessSound DEF Work
<1>2. ASSUME NEW r \in Requests, Lose(r) PROVE AllSound'
    BY <1>2, <1>s DEF Lose, breaker
<1>3. ASSUME NEW r \in Requests, Retry(r) PROVE AllSound'
    BY <1>3, GetOrCreateSound DEF Retry
<1>4. ASSUME NEW b \in Breakers, ResetTimeoutPasses(b) PROVE AllSound'
    BY <1>4, <1>s DEF ResetTimeoutPasses
<1>5. CASE Remove
    BY <1>5, <1>s DEF Remove, breaker
<1>6. CASE UNCHANGED breakerVars
    BY <1>6, <1>s DEF breakerVars, breaker
<1> QED BY <1>1, <1>2, <1>3, <1>4, <1>5, <1>6 DEF BreakerNext

(***************************************************************************)
(* A breaker is closed exactly while it has counted fewer failures than    *)
(* its threshold.                                                          *)
(***************************************************************************)
THEOREM CountAgrees == BreakerSpec => []CountMatchesState
<1>1. BreakerInv => CountMatchesState
    BY DEF BreakerInv, AllSound, Sound, CountMatchesState
<1> QED BY <1>1, BreakerInvInit, BreakerInvNext, PTL DEF BreakerSpec

(***************************************************************************)
(* A breaker knows its one request exactly while it is half-open.          *)
(***************************************************************************)
THEOREM ProbeKnown == BreakerSpec => []ProbeTracked
<1>1. BreakerInv => ProbeTracked
    BY DEF BreakerInv, AllSound, Sound, ProbeTracked
<1> QED BY <1>1, BreakerInvInit, BreakerInvNext, PTL DEF BreakerSpec

================================================================================
