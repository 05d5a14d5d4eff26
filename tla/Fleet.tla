--------------------------------- MODULE Fleet ---------------------------------
(***************************************************************************)
(* The drones of one AgentSpec and what it takes to make one: a            *)
(* reservation of the scheduler (internal/scheduler), a process of the     *)
(* launcher, a record in the store.  The autoscaler and the warm pool go   *)
(* through the same steps; neither gives a reservation back.               *)
(***************************************************************************)
EXTENDS Integers, FiniteSets, Functions

CONSTANTS
    Tiers,                  \* the task tiers an AgentSpec may name
    RequestCPU,             \* what it requests, 0 for nothing: millicores
    RequestMemory,          \* and megabytes
    TotalCPU, TotalMemory   \* the scheduler's node

ASSUME NodeAssumption == {RequestCPU, RequestMemory, TotalCPU, TotalMemory} \subseteq Nat

VARIABLES
    tier,       \* the AgentSpec's task tier
    drones,     \* its records in the store, by process: phase and warmpool label
    tracked,    \* Launcher.processes
    launched,   \* identifiers are random: the n-th process launched is n
    available,  \* availableCPU, availableMemory
    removed     \* history: records deleted by API clients

fleet == <<tier, drones, tracked, launched, available, removed>>

\* In tenths; a tier that is not known counts as standard.
ResourceMultiplier(t) == CASE t = "simple" -> 8 [] t = "complex" -> 15 [] OTHER -> 10

OrDefault(n, default) == IF n = 0 THEN default ELSE n

AtLeast(n, least) == IF n < least THEN least ELSE n

Required ==
    [cpu    |-> AtLeast((OrDefault(RequestCPU, 500) * ResourceMultiplier(tier)) \div 10, 100),
     memory |-> AtLeast((OrDefault(RequestMemory, 512) * ResourceMultiplier(tier)) \div 10, 128)]

FleetInit ==
    /\ tier \in Tiers
    /\ drones = <<>> /\ tracked = {} /\ launched = 0 /\ removed = {}
    /\ available = [cpu |-> TotalCPU, memory |-> TotalMemory]

Fits == Required.cpu <= available.cpu /\ Required.memory <= available.memory

\* Scheduler.Schedule
Reserve ==
    /\ Fits
    /\ available' = [cpu |-> available.cpu - Required.cpu,
                     memory |-> available.memory - Required.memory]

\* Schedule and then Launch, which is given the process `launched'`.
Obtain ==
    /\ Reserve
    /\ launched' = launched + 1
    /\ tracked' = tracked \cup {launched'}
    /\ UNCHANGED <<tier, drones, removed>>

\* Schedule, and then Launch fails: the reservation stays.
ObtainFails == Reserve /\ UNCHANGED <<tier, drones, tracked, launched, removed>>

\* store.Create of the drone of process p.
Record(p, warm) ==
    /\ drones' = [q \in DOMAIN drones \cup {p} |->
                     IF q \in DOMAIN drones THEN drones[q]
                     ELSE [phase |-> "Starting", warm |-> warm]]
    /\ UNCHANGED <<tier, tracked, launched, available, removed>>

\* Mutant: the process of a drone that could not be stored is forgotten.
RecordFailsLeaking(p) == p \in tracked /\ UNCHANGED fleet

\* store.Create fails: the process is stopped.
RecordFails(p) ==
    /\ tracked' = tracked \ {p}
    /\ UNCHANGED <<tier, drones, launched, available, removed>>

IsRunning(p) == p \in DOMAIN drones /\ drones[p].phase = "Running"

\* store.Update to Running, which fails when the record is gone.
MarkRunning(p) ==
    /\ drones' = [q \in DOMAIN drones |-> IF q = p THEN [drones[q] EXCEPT !.phase = "Running"]
                                          ELSE drones[q]]
    /\ UNCHANGED <<tier, tracked, launched, available, removed>>

\* Launcher.Stop and then store.Delete.
Discard(p) ==
    /\ tracked' = tracked \ {p}
    /\ drones' = Restrict(drones, DOMAIN drones \ {p})
    /\ UNCHANGED <<tier, launched, available, removed>>

(* DELETE of a drone, or a forced drain: the record goes, nothing else.    *)
RemoveDrone(p) ==
    /\ p \in DOMAIN drones
    /\ drones' = Restrict(drones, DOMAIN drones \ {p})
    /\ removed' = removed \cup {p}
    /\ UNCHANGED <<tier, tracked, launched, available>>

--------------------------------------------------------------------------------
DroneRecords == [phase : {"Starting", "Running"}, warm : BOOLEAN]

FleetTypeOK ==
    /\ tier \in Tiers
    /\ launched \in Nat
    /\ drones \in [DOMAIN drones -> DroneRecords]
    /\ DOMAIN drones \cup tracked \cup removed \subseteq 1 .. launched
    /\ available \in [cpu : Nat, memory : Nat]

================================================================================
