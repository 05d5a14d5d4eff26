-------------------------------- MODULE ApiServer --------------------------------
(***************************************************************************)
(* What the handlers of the HTTP API and of the gRPC API share: the        *)
(* resources of one cell in the store, the roles of its users, the dead    *)
(* letter queue of a hive, and the calls being served.  A handler that     *)
(* reads the store and then writes it is two or more steps, and the other  *)
(* calls take theirs in between: nothing compares versions.                *)
(***************************************************************************)
EXTENDS Integers, FiniteSets, Sequences, Functions, ProtoConversion, Authorization,
        DeadLetters

CONSTANTS
    Clients,           \* callers of the API, each with one call at a time
    Hives, Drones,     \* names of hives and drones
    FirstHive,         \* the hive that is there from the start
    Stages,            \* the stages of a hive
    NoKey,
    MaxHives,          \* the cell's quota of hives
    Replicas,          \* numbers of replicas asked for
    RequestBound,      \* bounds of the model: requests, and requests and
    EventBound         \* dead letters together

ASSUME ClientsAssumption == Clients # {} /\ IsFiniteSet(Clients)
ASSUME HiveAssumption == FirstHive \in Hives
ASSUME NumbersAssumption == {MaxHives, RequestBound, EventBound} \cup Replicas \subseteq Nat

VARIABLES
    store,             \* the resources stored, by key
    roles,             \* the role of each caller in the cell
    letters,           \* the dead letter queue
    calls, requests,   \* the call each client waits for, requests so far
    \* History variables:
    granted,           \* the largest quota of hives so far, 0 for none
    arrived, withdrawn \* messages the queue received, and those taken out

vars == <<store, roles, letters, calls, requests, granted, arrived, withdrawn>>

Kinds == {"cell", "spec", "secret"}
Keys == Kinds \cup Hives \cup Drones

(* A key in the store names its kind, so that no two kinds share one; the   *)
(* names of the parts that calls are about are no names of stages.          *)
ASSUME NamesAssumption ==
    /\ NoKey \notin Keys
    /\ Kinds \cap Hives = {} /\ Kinds \cap Drones = {} /\ Hives \cap Drones = {}
    /\ Stages \cap {"budget", "scaling", "quota"} = {}

FirstCell == [quota |-> [hives |-> MaxHives, memory |-> 1]]
FirstSpec == [scaling |-> [min |-> 0, max |-> 2], guardrails |-> [limit |-> 0, budget |-> 1]]
NewHive == [stages |-> [s \in Stages |-> 1], guardrails |-> [limit |-> 0, budget |-> 1]]

NoCall == [step |-> "none", via |-> "none", key |-> NoKey, held |-> NoKey,
           then |-> "none", sets |-> {}, stale |-> FALSE, todo |-> {}]

(* The program that embeds the server gave every caller a role.             *)
Init ==
    /\ store = [k \in {"cell", "spec", FirstHive} \cup Drones |->
                  CASE k = "cell" -> FirstCell [] k = "spec" -> FirstSpec
                    [] k = FirstHive -> NewHive [] OTHER -> "running"]
    /\ roles = [c \in Clients |-> "admin"]
    /\ letters = <<>> /\ arrived = 0 /\ withdrawn = {}
    /\ calls = [c \in Clients |-> NoCall] /\ requests = 0
    /\ granted = MaxHives

--------------------------------------------------------------------------------
(* The store: a create of a key that is there and an update or a delete of  *)
(* one that is not are errors that change nothing.                          *)

Created(k, doc) == IF k \in DOMAIN store THEN store
                   ELSE [j \in DOMAIN store \cup {k} |-> IF j = k THEN doc ELSE store[j]]

(* A mutant of Updated: an update of a missing key stores it again.         *)
UpdatedOrCreated(k, doc) ==
    [j \in DOMAIN store \cup {k} |-> IF j = k THEN doc ELSE store[j]]

Updated(k, doc) == IF k \in DOMAIN store THEN [store EXCEPT ![k] = doc] ELSE store

Deleted(k) == Restrict(store, DOMAIN store \ {k})

--------------------------------------------------------------------------------
(* The steps of a call.                                                     *)

At(c, via, step) == calls[c].via = via /\ calls[c].step = step

(* A request from a client that waits for nothing.                          *)
Arrives(c) ==
    /\ calls[c].step = "none"
    /\ requests < RequestBound /\ requests + arrived < EventBound
    /\ requests' = requests + 1

Call(via, step, k, held) == [NoCall EXCEPT !.via = via, !.step = step, !.key = k, !.held = held]

(* The handler goes on to call, having written nothing.                     *)
Continue(c, call) ==
    /\ calls' = [calls EXCEPT ![c] = call]
    /\ UNCHANGED <<store, roles, letters, granted, arrived, withdrawn>>

(* The handler writes k and goes on to call; what the others read of k      *)
(* before is stale from now on.                                             *)
Commit(c, k, new, call) ==
    /\ store' = new
    /\ calls' = [d \in Clients |->
                    IF d = c THEN call
                    ELSE IF calls[d].key = k /\ new # store THEN [calls[d] EXCEPT !.stale = TRUE]
                         ELSE calls[d]]
    /\ granted' = IF granted = 0 \/ "cell" \notin DOMAIN new \/ new["cell"].quota.hives = 0
                  THEN 0
                  ELSE IF new["cell"].quota.hives > granted THEN new["cell"].quota.hives
                       ELSE granted
    /\ UNCHANGED <<roles, letters, arrived, withdrawn>>

(* A request that is served in one step.                                    *)
Served(c, k, new) == Arrives(c) /\ Commit(c, k, new, NoCall)

--------------------------------------------------------------------------------
(* What handlers of both APIs compute.                                      *)

StoredHives == Hives \cap DOMAIN store
StoredDrones == Drones \cap DOMAIN store

(* checkResourceQuota: no cell and no limit are no quota.                   *)
Quota == IF "cell" \in DOMAIN store THEN store["cell"].quota.hives ELSE 0

(* A mutant of QuotaReached: one more than the quota is let in.             *)
QuotaPassed(quota) == quota > 0 /\ Cardinality(StoredHives) > quota

QuotaReached(quota) == quota > 0 /\ Cardinality(StoredHives) >= quota

(* A mutant of Scaled: the stage asked for is not looked at.                *)
ScaledAll(hive, stages, n) == [hive EXCEPT !.stages = [s \in Stages |-> n]]

(* scaleHive: one stage, or all of them.                                    *)
Scaled(hive, stages, n) ==
    [hive EXCEPT !.stages = [s \in Stages |-> IF s \in stages THEN n ELSE @[s]]]

(* scaleAgentSpec: the limits in force allow n.                             *)
WithinLimits(scaling, n) ==
    /\ scaling.min > 0 => n >= scaling.min
    /\ scaling.max > 0 => n <= scaling.max

(* The loop of drainAgentSpec ends when no drone is left.                   *)
Left(call) == IF call.todo = {} THEN NoCall ELSE [call EXCEPT !.step = "sweep", !.key = NoKey]

(* Clients edit the guardrails of a hive and of an agent spec, and the      *)
(* memory of a cell's quota.                                                *)
WithLimit(doc, guardrails) == [doc EXCEPT !.guardrails = [guardrails EXCEPT !.limit = 1]]
================================================================================
