--------------------------------- MODULE Queen ---------------------------------
(***************************************************************************)
(* The Queen's reconciliation loop (internal/queen/queen.go) with the      *)
(* scheduler and the process launcher it drives, as apiaryd wires them:    *)
(* no autoscaler and no warm pool.  A pass lists the AgentSpecs, then for  *)
(* each one lists its Drones and creates or deletes the difference, one    *)
(* store, scheduler or launcher call at a time, while API clients change   *)
(* specs and delete drones and agent processes exit.                       *)
(***************************************************************************)
EXTENDS Integers, FiniteSets, FiniteSetsExt

CONSTANTS
    Specs,          \* AgentSpec names
    Visible,        \* those List("AgentSpec", "") and Watch("AgentSpec", "") show
    Procs,          \* process identifiers, also the drones' names
    MaxReplicas,    \* bound of the model: the largest MinReplicas a spec asks for
    Capacity,       \* the drones the scheduler's resources are enough for
    WatchCapacity,  \* room in the channel of the Queen's watcher
    Absent,         \* a spec that is not in the store
    NoSpec, NoProc,
    ChangeBound,    \* bounds of the model: changes of specs by API clients,
    FailBound,      \* launches and store calls that fail,
    RemoveBound,    \* drones deleted by API clients,
    CrashBound      \* and crashes of apiaryd

ASSUME VisibleAssumption == Visible \subseteq Specs
ASSUME ProcsAssumption == IsFiniteSet(Procs)
ASSUME MarkersAssumption ==
    Absent \notin Nat /\ NoSpec \notin Specs /\ NoProc \notin Procs
ASSUME BoundsAssumption ==
    /\ {MaxReplicas, Capacity, ChangeBound, FailBound, RemoveBound, CrashBound} \subseteq Nat
    /\ WatchCapacity \in Nat \ {0}

VARIABLES
    \* the store
    specs,      \* the MinReplicas of each spec
    drones,     \* the spec each drone runs, by the drone's process
    change,     \* the call that has told the watchers but not committed yet
    \* the operating system
    alive,
    \* apiaryd's memory
    tracked,    \* Launcher.processes
    registry,   \* droneRegistry.processes
    free,       \* Scheduler's available resources, in drones
    events,     \* events waiting in the Queen's watch channel
    watching,   \* the store still sends to it
    trigger,    \* reconcileCh, of capacity one
    \* the pass under way
    pc,
    seen,       \* the specs it has listed and not reconciled yet
    spec,       \* the one being reconciled
    wanted,     \* desiredReplicas for it
    left,       \* drones still to create
    victims,    \* drones still to delete
    hand,       \* the process launched, or the victim stopped
    budget      \* what is left of the bounds

store == <<specs, drones, change>>
memory == <<tracked, registry, free>>
signals == <<events, watching, trigger>>
pass == <<pc, seen, spec, wanted, left, victims, hand>>
vars == <<store, alive, memory, signals, pass, budget>>

Sizes == 0 .. MaxReplicas
NoChange == [spec |-> NoSpec, to |-> Absent]
Steps == {"idle", "next", "schedule", "launch", "record", "stop", "delete"}

DronesOf(s) == {p \in Procs : drones[p] = s}

\* reconcileAgentSpec without an autoscaler.
Desired(min) == IF min > 0 THEN min ELSE 1

Spend(kind) == budget[kind] > 0 /\ budget' = [budget EXCEPT ![kind] = @ - 1]

Init ==
    /\ specs = [s \in Specs |-> Absent]
    /\ drones = [p \in Procs |-> NoSpec]
    /\ change = NoChange
    /\ alive = {}
    /\ tracked = {} /\ registry = {} /\ free = Capacity
    /\ events = 0 /\ watching = TRUE /\ trigger = TRUE
    /\ pc = "idle" /\ seen = <<>> /\ spec = NoSpec
    /\ wanted = 0 /\ left = 0 /\ victims = {} /\ hand = NoProc
    /\ budget = [change |-> ChangeBound, fail |-> FailBound,
                 remove |-> RemoveBound, crash |-> CrashBound]

--------------------------------------------------------------------------------
(* API clients.                                                            *)

(* A call that creates, updates, scales or deletes a spec tells the        *)
(* watchers from inside its transaction; when the channel is full the      *)
(* store drops the watcher.                                                *)
NotifyChange(s, to) ==
    /\ change = NoChange
    /\ specs[s] # to
    /\ change' = [spec |-> s, to |-> to]
    /\ IF s \in Visible /\ watching
       THEN \/ events < WatchCapacity /\ events' = events + 1 /\ UNCHANGED watching
            \/ events = WatchCapacity /\ watching' = FALSE /\ UNCHANGED events
       ELSE UNCHANGED <<events, watching>>
    /\ Spend("change")
    /\ UNCHANGED <<specs, drones, alive, memory, trigger, pass>>

CommitChange ==
    /\ change # NoChange
    /\ specs' = [specs EXCEPT ![change.spec] = change.to]
    /\ change' = NoChange
    /\ UNCHANGED <<drones, alive, memory, signals, pass, budget>>

(* DELETE of a drone, or a forced drain: the record goes, nothing else.    *)
RemoveDrone(p) ==
    /\ drones[p] # NoSpec
    /\ drones' = [drones EXCEPT ![p] = NoSpec]
    /\ Spend("remove")
    /\ UNCHANGED <<specs, change, alive, memory, signals, pass>>

(* An agent process ends; monitorProcess only notes it in the launcher.    *)
ProcessExit(p) ==
    /\ p \in alive
    /\ alive' = alive \ {p}
    /\ UNCHANGED <<store, memory, signals, pass, budget>>

--------------------------------------------------------------------------------
(* The Queen's two goroutines.                                             *)

\* watchAgentSpecs: an event fills reconcileCh unless it is full.
TakeEvent ==
    /\ events > 0
    /\ events' = events - 1
    /\ trigger' = TRUE
    /\ UNCHANGED <<store, alive, memory, watching, pass, budget>>

ListSpecs ==
    /\ pc = "idle"
    /\ pc' = "next"
    /\ seen' = [s \in {s \in Visible : specs[s] # Absent} |-> specs[s]]
    /\ UNCHANGED <<store, alive, memory, events, watching, spec, wanted, left, victims, hand, budget>>

TriggeredPass == trigger /\ trigger' = FALSE /\ ListSpecs

\* Mutant: the loop has no ticker.
NoTick == FALSE

TickPass == ListSpecs /\ UNCHANGED trigger

Goto(step) == pc' = step

\* reconcileAgentSpec returns.
Leave == Goto("next") /\ spec' = NoSpec /\ wanted' = 0

(* reconcileAgentSpec: the drones listed now against the replicas listed   *)
(* when the pass began.  Which of too many drones go depends on their      *)
(* names, which are random.                                                *)
Reconcile(s) ==
    LET current == Cardinality(DronesOf(s))
        desired == Desired(seen[s])
    IN  /\ pc = "next"
        /\ s \in DOMAIN seen
        /\ seen' = [t \in DOMAIN seen \ {s} |-> seen[t]]
        /\ \/ /\ current < desired
              /\ spec' = s /\ wanted' = desired /\ left' = desired - current
              /\ Goto("schedule")
              /\ UNCHANGED victims
           \/ /\ current > desired
              /\ \E V \in kSubset(current - desired, DronesOf(s)) : victims' = V
              /\ spec' = s /\ wanted' = desired
              /\ Goto("stop")
              /\ UNCHANGED left
           \/ current = desired /\ UNCHANGED <<pc, spec, wanted, left, victims>>
        /\ UNCHANGED <<store, alive, memory, signals, hand, budget>>

EndPass ==
    /\ pc = "next"
    /\ DOMAIN seen = {}
    /\ Goto("idle")
    /\ UNCHANGED <<store, alive, memory, signals, seen, spec, wanted, left, victims, hand, budget>>

--------------------------------------------------------------------------------
(* createDrone.                                                            *)

\* Mutant: the loop does not count a drone it made.
NextDroneUncounted ==
    /\ UNCHANGED left
    /\ IF left = 1 THEN Leave ELSE Goto("schedule") /\ UNCHANGED <<spec, wanted>>

\* The for loop of reconcileAgentSpec goes on, whether or not a drone was made.
NextDrone ==
    /\ left' = left - 1
    /\ IF left = 1 THEN Leave ELSE Goto("schedule") /\ UNCHANGED <<spec, wanted>>

\* Mutant: the scheduler does not look whether anything is left.
ScheduleUnchecked ==
    /\ pc = "schedule"
    /\ free' = free - 1
    /\ Goto("launch")
    /\ UNCHANGED <<store, alive, tracked, registry, signals, seen, spec, wanted, left, victims,
                   hand, budget>>

Schedule ==
    /\ pc = "schedule"
    /\ \/ /\ free > 0
          /\ free' = free - 1
          /\ Goto("launch")
          /\ UNCHANGED <<spec, wanted, left>>
       \/ /\ free = 0
          /\ NextDrone
          /\ UNCHANGED free
    /\ UNCHANGED <<store, alive, tracked, registry, signals, seen, victims, hand, budget>>

\* Identifiers are random and never reused: a process takes one that nothing
\* refers to, and it does not matter which.
Unused == {p \in Procs : drones[p] = NoSpec /\ p \notin alive \cup tracked \cup registry}

Launch ==
    /\ pc = "launch"
    /\ Unused # {}
    /\ hand' = CHOOSE p \in Unused : TRUE
    /\ alive' = alive \cup {hand'}
    /\ tracked' = tracked \cup {hand'}
    /\ Goto("record")
    /\ UNCHANGED <<store, registry, free, signals, seen, spec, wanted, left, victims, budget>>

\* The reservation is not given back.
LaunchFails ==
    /\ pc = "launch"
    /\ Spend("fail")
    /\ NextDrone
    /\ UNCHANGED <<store, alive, memory, signals, seen, victims, hand>>

RecordDrone ==
    /\ pc = "record"
    /\ drones' = [drones EXCEPT ![hand] = spec]
    /\ registry' = registry \cup {hand}
    /\ hand' = NoProc
    /\ NextDrone
    /\ UNCHANGED <<specs, change, alive, tracked, free, signals, seen, victims, budget>>

\* Mutant: the process stays in the launcher's map.
StopKeepsRecord(p) == UNCHANGED <<tracked, alive>>

(* Launcher.Stop forgets the process, then probes it with                  *)
(* proc.Signal(os.Signal(nil)).  The os package answers every signal that  *)
(* is not a syscall.Signal with an error, which Stop takes for "already    *)
(* dead": it returns without having signalled the process.                 *)
Stop(p) == tracked' = tracked \ {p} /\ UNCHANGED alive

RecordFails ==
    /\ pc = "record"
    /\ Spend("fail")
    /\ Stop(hand)
    /\ hand' = NoProc
    /\ NextDrone
    /\ UNCHANGED <<store, registry, free, signals, seen, victims>>

--------------------------------------------------------------------------------
(* deleteDrone.                                                            *)

StopVictim(p) ==
    /\ pc = "stop"
    /\ p \in victims
    /\ IF p \in registry
       THEN Stop(p) /\ registry' = registry \ {p}
       ELSE UNCHANGED <<alive, tracked, registry>>
    /\ hand' = p
    /\ victims' = victims \ {p}
    /\ Goto("delete")
    /\ UNCHANGED <<store, free, signals, seen, spec, wanted, left, budget>>

EndVictim ==
    /\ hand' = NoProc
    /\ IF victims = {} THEN Leave ELSE Goto("stop") /\ UNCHANGED <<spec, wanted>>
    /\ UNCHANGED <<specs, change, alive, memory, signals, seen, left, victims>>

\* Nothing to delete when a client was faster: store.Delete answers ErrNotFound.
DeleteVictim ==
    /\ pc = "delete"
    /\ drones' = [drones EXCEPT ![hand] = NoSpec]
    /\ EndVictim
    /\ UNCHANGED budget

\* The transaction loses to a client that updates the drone (a drain).
DeleteFails ==
    /\ pc = "delete"
    /\ drones[hand] # NoSpec
    /\ Spend("fail")
    /\ EndVictim
    /\ UNCHANGED drones

--------------------------------------------------------------------------------
(* apiaryd dies at any point and is started again: the store keeps what    *)
(* was committed, the agent processes may outlive it, the rest is new.     *)
Crash ==
    /\ Spend("crash")
    /\ change' = NoChange
    /\ alive' \in SUBSET alive
    /\ tracked' = {} /\ registry' = {} /\ free' = Capacity
    /\ events' = 0 /\ watching' = TRUE /\ trigger' = TRUE
    /\ pc' = "idle" /\ seen' = <<>> /\ spec' = NoSpec
    /\ wanted' = 0 /\ left' = 0 /\ victims' = {} /\ hand' = NoProc
    /\ UNCHANGED <<specs, drones>>

Client ==
    \/ \E s \in Specs, to \in Sizes \cup {Absent} : NotifyChange(s, to)
    \/ \E p \in Procs : RemoveDrone(p)

Loop ==
    \/ TriggeredPass
    \/ TickPass
    \/ \E s \in Visible : Reconcile(s)
    \/ EndPass
    \/ Schedule
    \/ Launch
    \/ \E p \in Procs : StopVictim(p)
    \/ LaunchFails
    \/ RecordDrone
    \/ RecordFails
    \/ DeleteVictim
    \/ DeleteFails

Next ==
    \/ Client
    \/ CommitChange
    \/ \E p \in Procs : ProcessExit(p)
    \/ TakeEvent
    \/ Loop
    \/ Crash

Spec == Init /\ [][Next]_vars

(* A call that began ends, the goroutines run, and the ticker starts a     *)
(* pass when nothing else does.  Nothing makes clients call, processes     *)
(* exit or calls fail.                                                     *)
FairSpec == Spec /\ WF_vars(CommitChange) /\ WF_vars(TakeEvent) /\ WF_vars(Loop)

--------------------------------------------------------------------------------
TypeOK ==
    /\ specs \in [Specs -> Sizes \cup {Absent}]
    /\ drones \in [Procs -> Specs \cup {NoSpec}]
    /\ change \in [spec : Specs \cup {NoSpec}, to : Sizes \cup {Absent}]
    /\ {alive, tracked, registry, victims} \subseteq SUBSET Procs
    /\ free \in 0 .. Capacity
    /\ events \in 0 .. WatchCapacity
    /\ {watching, trigger} \subseteq BOOLEAN
    /\ pc \in Steps
    /\ DOMAIN seen \subseteq Visible /\ \A s \in DOMAIN seen : seen[s] \in Sizes
    /\ spec \in Specs \cup {NoSpec}
    /\ wanted \in Sizes \cup {1} /\ left \in 0 .. wanted
    /\ hand \in Procs \cup {NoProc}

(***************************************************************************)
(* A pass never makes more drones than the spec it read asked for: while   *)
(* it creates, the drones that exist and those still to create are within  *)
(* desiredReplicas, whatever clients delete and calls fail meanwhile.      *)
(***************************************************************************)
Creating == pc \in {"schedule", "launch", "record"}

NoOvershoot == Creating => left > 0 /\ Cardinality(DronesOf(spec)) + left <= wanted

(***************************************************************************)
(* Within one life of apiaryd the launcher never tracks more processes     *)
(* than the scheduler has reserved room for, and every process it tracks   *)
(* is one the registry knows or the one createDrone holds.                 *)
(***************************************************************************)
NoOvercommit ==
    /\ Cardinality(tracked) <= Capacity - free
    /\ tracked = registry \cup (IF pc = "record" THEN {hand} ELSE {})

(***************************************************************************)
(* docs/ARCHITECTURE.md: the Queen "reconciles desired state with actual   *)
(* state".  Once clients stop, every spec that List shows ends up with the *)
(* drones it asks for and keeps them, although events are sent before the  *)
(* change they announce is committed, may be dropped with the watcher, and *)
(* calls fail and apiaryd crashes on the way: unless the scheduler runs    *)
(* out of the reservations that nothing ever gives back.                   *)
(***************************************************************************)
AsDesired(s) == specs[s] # Absent => Cardinality(DronesOf(s)) = Desired(specs[s])

Refuses == pc = "schedule" /\ free = 0

Converges == []~Refuses => <>[](\A s \in Visible : AsDesired(s))

--------------------------------------------------------------------------------
(* What the documentation says and the code does not do.                   *)

(***************************************************************************)
(* queen.go on performReconciliation: "List all AgentSpecs".  The API      *)
(* gives every spec a namespace, and List with the empty namespace shows   *)
(* only the specs without one: the others never get a drone.               *)
(***************************************************************************)
EverySpecConverges == []~Refuses => <>[](\A s \in Specs : AsDesired(s))

(***************************************************************************)
(* pkg/apiary/interfaces.go: "Stop gracefully stops an agent process".     *)
(* While apiaryd lives, every agent that runs is one it tracks: those it   *)
(* stopped and forgot do not run on.                                       *)
(***************************************************************************)
OnlyTrackedRun == alive \subseteq tracked

================================================================================
