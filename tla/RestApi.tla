--------------------------------- MODULE RestApi ---------------------------------
(***************************************************************************)
(* The handlers of the HTTP API that change something                      *)
(* (internal/api/server.go, quota.go, rbac_handlers.go), and the client    *)
(* that puts a GET before the PUT or the POST of a manifest, apiaryctl     *)
(* apply (cmd/apiaryctl/cmd/apply.go).  A request that the middleware or a *)
(* validation refuses changes nothing and is left out.                     *)
(***************************************************************************)
EXTENDS ApiServer

Rest(c, method) == Arrives(c) /\ AllowedREST(roles, c, method)

Read(c, k, held) == Rest(c, "GET") /\ k \in DOMAIN store /\ Continue(c, Call("rest", "put", k, held))

(* The client sends back what it read and edited, in a request of its own:  *)
(* by now its role may be gone, or the resource.                            *)
Put(c, keys, allowed) ==
    /\ At(c, "rest", "put") /\ calls[c].key \in keys
    /\ Commit(c, calls[c].key,
              IF allowed THEN Updated(calls[c].key, calls[c].held) ELSE store, NoCall)
    /\ UNCHANGED requests

--------------------------------------------------------------------------------
(* Cells: these routes are not in a cell, and ask for no role.              *)

CreateCell(c) == Served(c, "cell", Created("cell", FirstCell))
GetCell(c) ==
    /\ Arrives(c) /\ "cell" \in DOMAIN store
    /\ Continue(c, Call("rest", "put", "cell", [store["cell"] EXCEPT !.quota.memory = 1 - @]))
UpdateCell(c) == Put(c, {"cell"}, TRUE)
DeleteCell(c) == Served(c, "cell", Deleted("cell"))

--------------------------------------------------------------------------------
(* Agent specs.                                                             *)

CreateAgentSpec(c) == Rest(c, "POST") /\ Served(c, "spec", Created("spec", FirstSpec))
GetAgentSpec(c) == Read(c, "spec", WithLimit(store["spec"], store["spec"].guardrails))
UpdateAgentSpec(c) == Put(c, {"spec"}, AllowedREST(roles, c, "PUT"))
DeleteAgentSpec(c) == Rest(c, "DELETE") /\ Served(c, "spec", Deleted("spec"))

(* Scaling sets both limits to the number asked for.                        *)
ScaleAgentSpec(c) ==
    /\ Rest(c, "PUT") /\ "spec" \in DOMAIN store
    /\ \E n \in Replicas :
          /\ WithinLimits(store["spec"].scaling, n)
          /\ Continue(c, [Call("rest", "scale", "spec",
                               [store["spec"] EXCEPT !.scaling = [min |-> n, max |-> n]])
                            EXCEPT !.sets = {"scaling"}])

--------------------------------------------------------------------------------
(* Hives.                                                                   *)

CreateHive(c) ==
    /\ Rest(c, "POST")
    /\ \E h \in Hives : Continue(c, Call("rest", "count", h, Quota))

(* checkResourceQuota counts the hives, and the handler then creates.       *)
CheckResourceQuota(c) ==
    /\ At(c, "rest", "count")
    /\ Continue(c, IF QuotaReached(calls[c].held) THEN NoCall
                   ELSE [calls[c] EXCEPT !.step = "create"])
    /\ UNCHANGED requests

StoreHive(c) ==
    /\ At(c, "rest", "create")
    /\ Commit(c, calls[c].key, Created(calls[c].key, NewHive), NoCall)
    /\ UNCHANGED requests

GetHive(c) == \E h \in StoredHives : Read(c, h, WithLimit(store[h], store[h].guardrails))
UpdateHive(c) == Put(c, Hives, AllowedREST(roles, c, "PUT"))
DeleteHive(c) == Rest(c, "DELETE") /\ \E h \in StoredHives : Served(c, h, Deleted(h))

ScaleHive(c) ==
    /\ Rest(c, "PUT")
    /\ \E h \in StoredHives, n \in Replicas, stages \in {{s} : s \in Stages} \cup {Stages} :
          Continue(c, [Call("rest", "scale", h, Scaled(store[h], stages, n))
                         EXCEPT !.sets = stages])

(* The second half of both scale handlers.                                  *)
StoreScaled(c) ==
    /\ At(c, "rest", "scale")
    /\ Commit(c, calls[c].key, Updated(calls[c].key, calls[c].held), NoCall)
    /\ UNCHANGED requests

--------------------------------------------------------------------------------
(* apiaryctl apply, of the manifest of a hive: whatever answer the GET has  *)
(* but success counts as "not there".                                       *)

Apply(c) ==
    /\ Arrives(c)
    /\ \E h \in Hives :
          Continue(c, IF h \in DOMAIN store /\ AllowedREST(roles, c, "GET")
                      THEN [Call("rest", "put", h, NewHive) EXCEPT !.sets = Stages \cup {"budget"}]
                      ELSE Call("rest", "post", h, NoKey))

PostManifest(c) ==
    /\ At(c, "rest", "post")
    /\ Continue(c, IF AllowedREST(roles, c, "POST") THEN Call("rest", "count", calls[c].key, Quota)
                   ELSE NoCall)
    /\ UNCHANGED requests

--------------------------------------------------------------------------------
(* Secrets: an empty one is refused.                                        *)

CreateSecret(c) == Rest(c, "POST") /\ Served(c, "secret", Created("secret", "full"))
UpdateSecret(c) == Rest(c, "PUT") /\ Served(c, "secret", Updated("secret", "full"))
DeleteSecret(c) == Rest(c, "DELETE") /\ Served(c, "secret", Deleted("secret"))

--------------------------------------------------------------------------------
(* Drones.                                                                  *)

DeleteDrone(c) == Rest(c, "DELETE") /\ \E d \in StoredDrones : Served(c, d, Deleted(d))

DrainDrone(c) ==
    /\ Rest(c, "POST")
    /\ \E d \in StoredDrones, then \in {"delete", "poll"} :
          Continue(c, [Call("rest", "mark", d, "stopping") EXCEPT !.then = then])

(* The drone that was read is written back as stopping; a drone that is     *)
(* gone by then is an error.                                                *)
MarkDraining(c) ==
    /\ At(c, "rest", "mark")
    /\ Commit(c, calls[c].key, Updated(calls[c].key, calls[c].held),
              IF calls[c].key \in DOMAIN store THEN [calls[c] EXCEPT !.step = calls[c].then]
              ELSE NoCall)
    /\ UNCHANGED requests

(* Once a second: a drone that is gone or has ended needs no more waiting.  *)
(* Nothing in the program ever writes the phases that end a drone.          *)
Poll(c) ==
    /\ At(c, "rest", "poll")
    /\ Continue(c, IF calls[c].key \notin DOMAIN store THEN NoCall
                   ELSE IF store[calls[c].key] \in {"stopped", "failed"}
                   THEN [calls[c] EXCEPT !.step = "delete"] ELSE calls[c])
    /\ UNCHANGED requests

(* A mutant of TimeOut: the drone is left to somebody else.                 *)
TimeOutOnly(c) == At(c, "rest", "poll") /\ Continue(c, NoCall) /\ UNCHANGED requests

(* The timeout of the drain, or the client that has gone away.              *)
TimeOut(c) ==
    /\ At(c, "rest", "poll")
    /\ Commit(c, calls[c].key, Deleted(calls[c].key), NoCall)
    /\ UNCHANGED requests

DeleteDrained(c) ==
    /\ At(c, "rest", "delete")
    /\ Commit(c, calls[c].key, Deleted(calls[c].key), NoCall)
    /\ UNCHANGED requests

(* All drones of the agent spec, as listed at the beginning.                *)
DrainAgentSpec(c) ==
    /\ Rest(c, "POST") /\ "spec" \in DOMAIN store /\ StoredDrones # {}
    /\ \E then \in {"purge", "sweep"} :
          Continue(c, [Call("rest", "sweep", NoKey, "stopping")
                         EXCEPT !.then = then, !.todo = StoredDrones])

(* The next drone is marked and, by force, then deleted; one that is gone   *)
(* is counted as an error and passed over.                                  *)
SweepDrones(c) ==
    /\ At(c, "rest", "sweep")
    /\ \E d \in calls[c].todo :
          LET rest == [calls[c] EXCEPT !.todo = @ \ {d}]
          IN  Commit(c, d, Updated(d, "stopping"),
                     IF d \in DOMAIN store /\ rest.then = "purge"
                     THEN [rest EXCEPT !.step = "purge", !.key = d] ELSE Left(rest))
    /\ UNCHANGED requests

PurgeDrone(c) ==
    /\ At(c, "rest", "purge")
    /\ Commit(c, calls[c].key, Deleted(calls[c].key), Left(calls[c]))
    /\ UNCHANGED requests

--------------------------------------------------------------------------------
(* Roles, and the dead letter queue of the first hive.                      *)

AssignRoleHandler(c) ==
    /\ Rest(c, "POST")
    /\ \E user \in Clients, role \in RoleNames : roles' = AssignRole(roles, user, role)
    /\ UNCHANGED <<store, letters, calls, granted, arrived, withdrawn>>

RemoveRoleHandler(c) ==
    /\ Rest(c, "DELETE")
    /\ \E user \in Clients : roles' = RemoveRole(roles, user)
    /\ UNCHANGED <<store, letters, calls, granted, arrived, withdrawn>>

DeleteDLQMessage(c) ==
    /\ Rest(c, "DELETE") /\ FirstHive \in DOMAIN store
    /\ \E id \in Range(letters) :
          /\ letters' = DeleteMessage(letters, id)
          /\ withdrawn' = withdrawn \cup {id}
    /\ UNCHANGED <<store, roles, calls, granted, arrived>>

ClearDLQ(c) ==
    /\ Rest(c, "DELETE") /\ FirstHive \in DOMAIN store
    /\ letters' = ClearMessages(letters)
    /\ withdrawn' = withdrawn \cup Range(letters)
    /\ UNCHANGED <<store, roles, calls, granted, arrived>>
================================================================================
