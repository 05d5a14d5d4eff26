----------------------------------- MODULE Api -----------------------------------
(***************************************************************************)
(* The API server of apiaryd: the HTTP API and the gRPC API on one store.  *)
(***************************************************************************)
EXTENDS ApiServer

HTTP == INSTANCE RestApi
GRPC == INSTANCE GrpcApi

(* The embedding program puts a message into the dead letter queue: nothing *)
(* under src/ does.                                                         *)
AddToQueue ==
    /\ arrived + requests < EventBound
    /\ letters' = AddMessage(letters, arrived + 1)
    /\ arrived' = arrived + 1
    /\ UNCHANGED <<store, roles, calls, requests, granted, withdrawn>>

(* The steps of a call under way that the handler takes by itself.          *)
ServeHTTP(c) ==
    \/ HTTP!CheckResourceQuota(c) \/ HTTP!StoreHive(c) \/ HTTP!StoreScaled(c)
    \/ HTTP!MarkDraining(c) \/ HTTP!Poll(c) \/ HTTP!TimeOut(c) \/ HTTP!DeleteDrained(c)
    \/ HTTP!SweepDrones(c) \/ HTTP!PurgeDrone(c)

ServeGRPC(c) ==
    \/ GRPC!CheckResourceQuotaForHive(c) \/ GRPC!StoreHive(c) \/ GRPC!StoreScaled(c)
    \/ GRPC!MarkDraining(c) \/ GRPC!Poll(c) \/ GRPC!TimeOut(c) \/ GRPC!DeleteDrained(c)
    \/ GRPC!SweepDrones(c) \/ GRPC!PurgeDrone(c)

RequestHTTP(c) ==
    \/ HTTP!CreateCell(c) \/ HTTP!GetCell(c) \/ HTTP!UpdateCell(c) \/ HTTP!DeleteCell(c)
    \/ HTTP!CreateAgentSpec(c) \/ HTTP!GetAgentSpec(c) \/ HTTP!UpdateAgentSpec(c)
    \/ HTTP!DeleteAgentSpec(c) \/ HTTP!ScaleAgentSpec(c)
    \/ HTTP!CreateHive(c) \/ HTTP!GetHive(c) \/ HTTP!UpdateHive(c) \/ HTTP!DeleteHive(c)
    \/ HTTP!ScaleHive(c) \/ HTTP!Apply(c) \/ HTTP!PostManifest(c)
    \/ HTTP!CreateSecret(c) \/ HTTP!UpdateSecret(c) \/ HTTP!DeleteSecret(c)
    \/ HTTP!DeleteDrone(c) \/ HTTP!DrainDrone(c) \/ HTTP!DrainAgentSpec(c)
    \/ HTTP!AssignRoleHandler(c) \/ HTTP!RemoveRoleHandler(c)
    \/ HTTP!DeleteDLQMessage(c) \/ HTTP!ClearDLQ(c)

RequestGRPC(c) ==
    \/ GRPC!CreateCell(c) \/ GRPC!GetCell(c) \/ GRPC!UpdateCell(c) \/ GRPC!DeleteCell(c)
    \/ GRPC!CreateAgentSpec(c) \/ GRPC!GetAgentSpec(c) \/ GRPC!UpdateAgentSpec(c)
    \/ GRPC!DeleteAgentSpec(c) \/ GRPC!ScaleAgentSpec(c)
    \/ GRPC!CreateHive(c) \/ GRPC!GetHive(c) \/ GRPC!UpdateHive(c) \/ GRPC!DeleteHive(c)
    \/ GRPC!ScaleHive(c)
    \/ GRPC!CreateSecret(c) \/ GRPC!UpdateSecret(c) \/ GRPC!DeleteSecret(c)
    \/ GRPC!DeleteDrone(c) \/ GRPC!DrainDrone(c) \/ GRPC!DrainAgentSpec(c)

Next ==
    \/ AddToQueue
    \/ \E c \in Clients : ServeHTTP(c) \/ ServeGRPC(c) \/ RequestHTTP(c) \/ RequestGRPC(c)

Spec == Init /\ [][Next]_vars

(* A handler runs on, and the timeout of a drain fires.                     *)
FairSpec == Spec /\ \A c \in Clients : WF_vars(ServeHTTP(c)) /\ WF_vars(ServeGRPC(c))

--------------------------------------------------------------------------------
Steps == {"none", "post", "count", "create", "scale", "put", "mark", "poll", "delete", "sweep", "purge"}

TypeOK ==
    /\ DOMAIN store \subseteq Keys
    /\ roles \in [Clients -> RoleNames \cup {NoRole}]
    /\ \A c \in Clients :
          /\ calls[c].step \in Steps /\ calls[c].via \in {"none", "rest", "grpc"}
          /\ calls[c].key \in Keys \cup {NoKey}
          /\ calls[c].stale \in BOOLEAN /\ calls[c].todo \subseteq Drones
    /\ arrived \in 0 .. EventBound /\ withdrawn \subseteq 1 .. arrived
    /\ requests \in 0 .. RequestBound

(* The quota of hives is checked before a hive is created and not with it,  *)
(* so callers that come at once get past it together; but never by more     *)
(* than the callers there are, less one, counting the hives about to be     *)
(* created (quota.go: checkResourceQuota; server.go and grpc_hives.go:      *)
(* create).                                                                 *)
HivesWithinQuota ==
    granted > 0 =>
        Cardinality(StoredHives) + Cardinality({c \in Clients : calls[c].step = "create"})
          <= granted + Cardinality(Clients) - 1

(* The parts of a resource that calls are about.                            *)
Parts(k) == CASE k \in Hives -> Stages \cup {"budget"}
              [] k = "spec" -> {"scaling", "budget"}
              [] k = "cell" -> {"quota"}
              [] OTHER -> {}

Part(doc, p) == CASE p \in Stages -> doc.stages[p]
                  [] p = "budget" -> doc.guardrails.budget
                  [] p = "scaling" -> doc.scaling
                  [] p = "quota" -> doc.quota.hives

(* What a resource loses on its way through the gRPC API and back: the      *)
(* replicas of every stage, and token budgets with no timeout or rate limit *)
(* beside them.                                                             *)
LostByConversion(doc, p) ==
    \/ p \in Stages
    \/ p = "budget" /\ doc.guardrails.limit = 0

(* Scaling and editing change the part they are about.  Any other part of a *)
(* resource that changes was lost either to a call that had read it before  *)
(* another call wrote it, as no handler compares versions, or to the        *)
(* conversion of the gRPC API (server.go: scaleHive, scaleAgentSpec, update *)
(* handlers; grpc_convert.go).                                              *)
PartsChangeForAReason ==
    [][\A k \in DOMAIN store \cap DOMAIN store' : \A p \in Parts(k) :
          Part(store'[k], p) # Part(store[k], p) =>
              \E c \in Clients :
                 /\ calls[c].key = k
                 /\ \/ p \in calls[c].sets
                    \/ calls[c].stale
                    \/ /\ calls[c].via = "grpc" /\ calls[c].step = "put"
                       /\ LostByConversion(store[k], p)]_vars

(* A drain that marks a drone somebody else has deleted does not bring it   *)
(* back: a drone that is gone stays gone (server.go: drainDrone and         *)
(* drainAgentSpec write back what they read before).                        *)
DeletedStays == [][\A d \in Drones : d \notin DOMAIN store => d \notin DOMAIN store']_vars

(* A graceful drain ends with the drone gone, though nothing in the program *)
(* ever reports that it has stopped (server.go and grpc_drones.go: the      *)
(* timeout of drainDrone).                                                  *)
DrainEnds ==
    \A d \in Drones :
        (\E c \in Clients : calls[c].step = "poll" /\ calls[c].key = d) ~> d \notin DOMAIN store

(* The dead letter queue holds at most its size in the order of arrival,    *)
(* and a message it lost unasked is older than every message it still has   *)
(* (dlq.go: AddMessage, DeleteMessage).                                     *)
OldestGoesFirst ==
    /\ Len(letters) <= MaxLetters
    /\ \A i, j \in DOMAIN letters : i < j => letters[i] < letters[j]
    /\ \A id \in (1 .. arrived) \ (withdrawn \cup Range(letters)) :
          \A kept \in Range(letters) : id < kept
================================================================================
