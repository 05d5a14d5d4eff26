----------------------------- MODULE VersionedStore -----------------------------
(***************************************************************************)
(* The transactions of the badger resource store.  Create, Update and      *)
(* Delete run a closure over a snapshot: its reads happen when the         *)
(* transaction begins, its writes are buffered, the watchers are told      *)
(* before the commit, and the commit fails when a key that was read has    *)
(* been written since (badger's ErrConflict, which no caller retries).     *)
(* The pruning pass of the background task is one more transaction.        *)
(***************************************************************************)
EXTENDS StoreKeys

CONSTANTS Clients, Pruner

ASSUME PrunerAssumption == Pruner \notin Clients

VARIABLES
    db,       \* [Keys -> Rows], the committed records
    phase,    \* where each actor's transaction is
    batch,    \* the keys each transaction has read and the writes it buffers
    stale,    \* a key the transaction has read was written since it began
    result    \* the answer to each client's last call

vars == <<db, phase, batch, stale, result>>

Actors == Clients \cup {Pruner}
Phases == {"idle", "notify", "commit"}
Operations == {"none", "created", "updated", "deleted", "prune"}
Results == {"none", "ok", "already_exists", "not_found", "conflict"}

Batches == [op : Operations, reads : SUBSET Cells, put : SUBSET Cells,
            drop : SUBSET Cells, val : Values \cup {NoValue}]

NoBatch == [op |-> "none", reads |-> {}, put |-> {}, drop |-> {}, val |-> NoValue]

Init ==
    /\ db = [k \in Keys |-> EmptyRow]
    /\ phase = [a \in Actors |-> "idle"]
    /\ batch = [a \in Actors |-> NoBatch]
    /\ stale = [a \in Actors |-> FALSE]
    /\ result = [c \in Clients |-> "none"]

--------------------------------------------------------------------------------
(* What each closure reads of a store holding d, and the writes it buffers. *)

CreateBatch(k, v) ==
    [op |-> "created", reads |-> {<<k, 0>>}, put |-> {<<k, 0>>, <<k, 1>>}, drop |-> {}, val |-> v]

\* Mutant: an update that badger does not see read anything.
BlindUpdateBatch(d, k, v) ==
    [op |-> "updated", reads |-> {},
     put |-> {<<k, 0>>, <<k, NextVersion(d[k])>>}, drop |-> {}, val |-> v]

UpdateBatch(d, k, v) ==
    [op |-> "updated",
     reads |-> {<<k, 0>>} \cup ({k} \X Versions(d[k])),
     put |-> {<<k, 0>>, <<k, NextVersion(d[k])>>},
     drop |-> {}, val |-> v]

DeleteBatch(k) ==
    [op |-> "deleted", reads |-> {<<k, 0>>}, put |-> {}, drop |-> {<<k, 0>>}, val |-> NoValue]

\* pruneOldVersions walks every key of the store.
PruneBatch(d) ==
    [op |-> "prune",
     reads |-> {cell \in Cells : d[cell[1]][cell[2]] # NoValue},
     put |-> {},
     drop |-> {cell \in Cells : Outranked(d, cell)}, val |-> NoValue]

--------------------------------------------------------------------------------
(* The closures, up to the notification.                                   *)

Buffer(a, ph, b) ==
    /\ phase[a] = "idle"
    /\ phase' = [phase EXCEPT ![a] = ph]
    /\ batch' = [batch EXCEPT ![a] = b]
    /\ result' = [c \in Clients |-> IF c = a THEN "none" ELSE result[c]]
    /\ UNCHANGED <<db, stale>>

Refuse(c, error) ==
    /\ phase[c] = "idle"
    /\ result' = [result EXCEPT ![c] = error]
    /\ UNCHANGED <<db, phase, batch, stale>>

Create(c, k, v) ==
    \/ Exists(db[k]) /\ Refuse(c, "already_exists")
    \/ ~Exists(db[k]) /\ Buffer(c, "notify", CreateBatch(k, v))

Update(c, k, v) ==
    \/ ~Exists(db[k]) /\ Refuse(c, "not_found")
    \/ /\ Exists(db[k])
       /\ NextVersion(db[k]) \in 1 .. VersionBound
       /\ Buffer(c, "notify", UpdateBatch(db, k, v))

Delete(c, k) ==
    \/ ~Exists(db[k]) /\ Refuse(c, "not_found")
    \/ Exists(db[k]) /\ Buffer(c, "notify", DeleteBatch(k))

\* It notifies nobody.
PruneOldVersions == Buffer(Pruner, "commit", PruneBatch(db))

(* notifyWatchers returns; WatchHub models what it does.                   *)
Notify(c) ==
    /\ phase[c] = "notify"
    /\ phase' = [phase EXCEPT ![c] = "commit"]
    /\ UNCHANGED <<db, batch, stale, result>>

--------------------------------------------------------------------------------
(* badger's commit.                                                        *)

Write(b) ==
    [k \in Keys |-> [n \in 0 .. VersionBound |->
        IF <<k, n>> \in b.put THEN b.val
        ELSE IF <<k, n>> \in b.drop THEN NoValue
        ELSE db[k][n]]]

Finish(a, answer) ==
    /\ phase' = [phase EXCEPT ![a] = "idle"]
    /\ batch' = [batch EXCEPT ![a] = NoBatch]
    /\ result' = [c \in Clients |-> IF c = a THEN answer ELSE result[c]]

\* Mutant: only writes conflict, as under snapshot isolation.
WriteOvertaken(a, W) ==
    {o \in Actors \ {a} : phase[o] # "idle" /\ (batch[o].put \cup batch[o].drop) \cap W # {}}

\* The transactions still open that have read a cell of W.
Overtaken(a, W) == {o \in Actors \ {a} : phase[o] # "idle" /\ batch[o].reads \cap W # {}}

Commit(a) ==
    /\ phase[a] = "commit"
    /\ ~stale[a]
    /\ db' = Write(batch[a])
    /\ stale' = [o \in Actors |->
                    stale[o] \/ o \in Overtaken(a, batch[a].put \cup batch[a].drop)]
    /\ Finish(a, "ok")

Conflict(a) ==
    /\ phase[a] = "commit"
    /\ stale[a]
    /\ stale' = [stale EXCEPT ![a] = FALSE]
    /\ Finish(a, "conflict")
    /\ UNCHANGED db

(* The process stops at any point: committed records survive, open         *)
(* transactions and the answers their callers wait for do not.             *)
Restart ==
    /\ phase' = [a \in Actors |-> "idle"]
    /\ batch' = [a \in Actors |-> NoBatch]
    /\ stale' = [a \in Actors |-> FALSE]
    /\ result' = [c \in Clients |-> "none"]
    /\ UNCHANGED db

Next ==
    \/ \E c \in Clients, k \in Keys :
          \/ \E v \in Values : Create(c, k, v) \/ Update(c, k, v)
          \/ Delete(c, k)
    \/ \E c \in Clients : Notify(c)
    \/ PruneOldVersions
    \/ \E a \in Actors : Commit(a) \/ Conflict(a)
    \/ Restart

Spec == Init /\ [][Next]_vars

--------------------------------------------------------------------------------
TypeOK ==
    /\ db \in [Keys -> Rows]
    /\ phase \in [Actors -> Phases]
    /\ batch \in [Actors -> Batches]
    /\ stale \in [Actors -> BOOLEAN]
    /\ result \in [Clients -> Results]

(***************************************************************************)
(* Why the refinement holds: an open transaction that badger has not       *)
(* marked has buffered what it would buffer now, so that committing it     *)
(* acts on the store as it is.  A prune pass may have missed records       *)
(* written since; of those it has read, all are still there.               *)
(***************************************************************************)
Part(d, cells) == [k \in Keys |-> [n \in 0 .. VersionBound |->
                      IF <<k, n>> \in cells THEN d[k][n] ELSE NoValue]]

Current(a) ==
    \/ /\ a = Pruner
       /\ batch[a] = PruneBatch(Part(db, batch[a].reads))
    \/ \E k \in Keys :
          /\ a \in Clients
          /\ \/ \E v \in Values : batch[a] = CreateBatch(k, v) /\ ~Exists(db[k])
             \/ \E v \in Values : /\ batch[a] = UpdateBatch(db, k, v)
                                  /\ Exists(db[k])
                                  /\ NextVersion(db[k]) \in 1 .. VersionBound
             \/ batch[a] = DeleteBatch(k) /\ Exists(db[k])

OpenIsCurrent == \A a \in Actors : phase[a] # "idle" => stale[a] \/ Current(a)
IdleIsFresh == \A a \in Actors : phase[a] = "idle" => ~stale[a]

Isolation == TypeOK /\ OpenIsCurrent /\ IdleIsFresh

Atomic == INSTANCE AtomicStore

(***************************************************************************)
(* The transactions are serializable in commit order: whatever the         *)
(* interleaving, a commit answers "ok" exactly when the record it checked  *)
(* and the version number it computed from its snapshot are still those of *)
(* the store, so that it acts as one atomic call; failing calls change     *)
(* nothing; pruning never takes a main record or one of the newest Keep    *)
(* versions, even when a resource was recreated while it walked the keys.  *)
(***************************************************************************)
AtomicSpec == Atomic!Spec

(***************************************************************************)
(* badger.go on NewStore's maxVersions: "Keep last 10 versions".  The      *)
(* version a resource was last written as is the last one, whatever        *)
(* happened to earlier resources of its name: it has to be among the       *)
(* versions kept.                                                          *)
(***************************************************************************)
LiveVersionKept ==
    \A k \in Keys : Exists(db[k]) => \E n \in Versions(db[k]) : db[k][n] = db[k][0]

================================================================================
