--------------------------------- MODULE GrpcApi ---------------------------------
(***************************************************************************)
(* The methods of the gRPC API that change something                       *)
(* (internal/api/grpc_*.go).  They repeat the handlers of the HTTP API,    *)
(* but ask for other permissions, see resources through the conversion to  *)
(* protobuf messages, and differ in a few checks.                          *)
(***************************************************************************)
EXTENDS ApiServer

Grpc(c, method) == Arrives(c) /\ AllowedGRPC(roles, c, method)

Read(c, method, k, msg) ==
    Grpc(c, method) /\ k \in DOMAIN store /\ Continue(c, Call("grpc", "put", k, msg))

(* What the client sends back is a message, doc what it is converted to.    *)
Put(c, keys, allowed, doc) ==
    /\ At(c, "grpc", "put") /\ calls[c].key \in keys
    /\ Commit(c, calls[c].key, IF allowed THEN Updated(calls[c].key, doc) ELSE store, NoCall)
    /\ UNCHANGED requests

(* A client that finds no guardrails in a message puts them there.          *)
Edited(msg) == WithLimit(msg, GuardrailConfigFromProto(msg.guardrails))

--------------------------------------------------------------------------------
(* Cells: a request that names no cell is let through.                      *)

CreateCell(c) == Served(c, "cell", Created("cell", CellFromProto(CellToProto(FirstCell))))
GetCell(c) ==
    /\ Arrives(c) /\ "cell" \in DOMAIN store
    /\ LET msg == CellToProto(store["cell"])
       IN  /\ msg.quota # Missing
           /\ Continue(c, Call("grpc", "put", "cell", [msg EXCEPT !.quota.memory = 1 - @]))
UpdateCell(c) == Put(c, {"cell"}, TRUE, CellFromProto(calls[c].held))
DeleteCell(c) == Served(c, "cell", Deleted("cell"))

--------------------------------------------------------------------------------
(* Agent specs.                                                             *)

CreateAgentSpec(c) ==
    /\ Grpc(c, "CreateAgentSpec")
    /\ Served(c, "spec", Created("spec", AgentSpecFromProto(AgentSpecToProto(FirstSpec))))
GetAgentSpec(c) == Read(c, "GetAgentSpec", "spec", Edited(AgentSpecToProto(store["spec"])))
UpdateAgentSpec(c) ==
    Put(c, {"spec"}, AllowedGRPC(roles, c, "UpdateAgentSpec"), AgentSpecFromProto(calls[c].held))
DeleteAgentSpec(c) == Grpc(c, "DeleteAgentSpec") /\ Served(c, "spec", Deleted("spec"))

ScaleAgentSpec(c) ==
    /\ Grpc(c, "ScaleAgentSpec") /\ "spec" \in DOMAIN store
    /\ \E n \in Replicas :
          /\ WithinLimits(store["spec"].scaling, n)
          /\ Continue(c, [Call("grpc", "scale", "spec",
                               [store["spec"] EXCEPT !.scaling = [min |-> n, max |-> n]])
                            EXCEPT !.sets = {"scaling"}])

--------------------------------------------------------------------------------
(* Hives.                                                                   *)

CreateHive(c) ==
    /\ Grpc(c, "CreateHive")
    /\ \E h \in Hives : Continue(c, Call("grpc", "count", h, Quota))

CheckResourceQuotaForHive(c) ==
    /\ At(c, "grpc", "count")
    /\ Continue(c, IF QuotaReached(calls[c].held) THEN NoCall
                   ELSE [calls[c] EXCEPT !.step = "create"])
    /\ UNCHANGED requests

StoreHive(c) ==
    /\ At(c, "grpc", "create")
    /\ Commit(c, calls[c].key, Created(calls[c].key, HiveFromProto(HiveToProto(NewHive))), NoCall)
    /\ UNCHANGED requests

GetHive(c) == \E h \in StoredHives : Read(c, "GetHive", h, Edited(HiveToProto(store[h])))
UpdateHive(c) ==
    Put(c, Hives, AllowedGRPC(roles, c, "UpdateHive"), HiveFromProto(calls[c].held))
DeleteHive(c) == Grpc(c, "DeleteHive") /\ \E h \in StoredHives : Served(c, h, Deleted(h))

ScaleHive(c) ==
    /\ Grpc(c, "ScaleHive")
    /\ \E h \in StoredHives, n \in Replicas, stages \in {{s} : s \in Stages} \cup {Stages} :
          Continue(c, [Call("grpc", "scale", h, Scaled(store[h], stages, n))
                         EXCEPT !.sets = stages])

StoreScaled(c) ==
    /\ At(c, "grpc", "scale")
    /\ Commit(c, calls[c].key, Updated(calls[c].key, calls[c].held), NoCall)
    /\ UNCHANGED requests

--------------------------------------------------------------------------------
(* Secrets: only a create refuses an empty one.                             *)

CreateSecret(c) == Grpc(c, "CreateSecret") /\ Served(c, "secret", Created("secret", "full"))
UpdateSecret(c) ==
    /\ Grpc(c, "UpdateSecret")
    /\ \E data \in {"full", "empty"} : Served(c, "secret", Updated("secret", data))
DeleteSecret(c) == Grpc(c, "DeleteSecret") /\ Served(c, "secret", Deleted("secret"))

--------------------------------------------------------------------------------
(* Drones.                                                                  *)

DeleteDrone(c) == Grpc(c, "DeleteDrone") /\ \E d \in StoredDrones : Served(c, d, Deleted(d))

DrainDrone(c) ==
    /\ Grpc(c, "DrainDrone")
    /\ \E d \in StoredDrones, then \in {"delete", "poll"} :
          Continue(c, [Call("grpc", "mark", d, "stopping") EXCEPT !.then = then])

MarkDraining(c) ==
    /\ At(c, "grpc", "mark")
    /\ Commit(c, calls[c].key, Updated(calls[c].key, calls[c].held),
              IF calls[c].key \in DOMAIN store THEN [calls[c] EXCEPT !.step = calls[c].then]
              ELSE NoCall)
    /\ UNCHANGED requests

(* A drone that failed is waited for.                                       *)
Poll(c) ==
    /\ At(c, "grpc", "poll")
    /\ Continue(c, IF calls[c].key \notin DOMAIN store THEN NoCall
                   ELSE IF store[calls[c].key] = "stopped"
                   THEN [calls[c] EXCEPT !.step = "delete"] ELSE calls[c])
    /\ UNCHANGED requests

TimeOut(c) ==
    /\ At(c, "grpc", "poll")
    /\ Commit(c, calls[c].key, Deleted(calls[c].key), NoCall)
    /\ UNCHANGED requests

DeleteDrained(c) ==
    /\ At(c, "grpc", "delete")
    /\ Commit(c, calls[c].key, Deleted(calls[c].key), NoCall)
    /\ UNCHANGED requests

DrainAgentSpec(c) ==
    /\ Grpc(c, "DrainAgentSpec") /\ "spec" \in DOMAIN store /\ StoredDrones # {}
    /\ \E then \in {"purge", "sweep"} :
          Continue(c, [Call("grpc", "sweep", NoKey, "stopping")
                         EXCEPT !.then = then, !.todo = StoredDrones])

SweepDrones(c) ==
    /\ At(c, "grpc", "sweep")
    /\ \E d \in calls[c].todo :
          LET rest == [calls[c] EXCEPT !.todo = @ \ {d}]
          IN  Commit(c, d, Updated(d, "stopping"),
                     IF d \in DOMAIN store /\ rest.then = "purge"
                     THEN [rest EXCEPT !.step = "purge", !.key = d] ELSE Left(rest))
    /\ UNCHANGED requests

PurgeDrone(c) ==
    /\ At(c, "grpc", "purge")
    /\ Commit(c, calls[c].key, Deleted(calls[c].key), Left(calls[c]))
    /\ UNCHANGED requests
================================================================================
