------------------------------ MODULE AtomicStore ------------------------------
(***************************************************************************)
(* What apiary.ResourceStore promises of its records, as one step for each *)
(* call: a record is created only where there is none, updated and deleted *)
(* only where there is one, every update appends one version after all     *)
(* those kept, and pruning takes nothing but versions that Keep newer ones *)
(* outrank.  A call that fails changes no record.  VersionedStore, with    *)
(* its optimistic transactions, implements this module.                    *)
(***************************************************************************)
EXTENDS StoreKeys

CONSTANTS Clients, Pruner

VARIABLES db, result

Init ==
    /\ db = [k \in Keys |-> EmptyRow]
    /\ result = [c \in Clients |-> "none"]

Answer(c, r) == result' = [result EXCEPT ![c] = r]

(* A call is under way: it has no answer yet.                              *)
Ask(c) == Answer(c, "none") /\ UNCHANGED db

Create(c, k, v) ==
    /\ ~Exists(db[k])
    /\ db' = [db EXCEPT ![k] = [@ EXCEPT ![0] = v, ![1] = v]]
    /\ Answer(c, "ok")

Update(c, k, v) ==
    /\ Exists(db[k])
    /\ NextVersion(db[k]) \in 1 .. VersionBound
    /\ db' = [db EXCEPT ![k] = [@ EXCEPT ![0] = v, ![NextVersion(db[k])] = v]]
    /\ Answer(c, "ok")

Delete(c, k) ==
    /\ Exists(db[k])
    /\ db' = [db EXCEPT ![k][0] = NoValue]
    /\ Answer(c, "ok")

(* The errors of a call: a create of a record that is there, an update or  *)
(* a delete of one that is not, a commit that lost a race.                 *)
Refuse(c) ==
    /\ UNCHANGED db
    /\ \/ Answer(c, "conflict")
       \/ \E k \in Keys : Exists(db[k]) /\ Answer(c, "already_exists")
       \/ \E k \in Keys : ~Exists(db[k]) /\ Answer(c, "not_found")

(* Pruning removes some of the versions that Keep newer ones outrank.      *)
Prune ==
    /\ \E D \in SUBSET {cell \in Cells : Outranked(db, cell)} : db' = Erase(db, D)
    /\ UNCHANGED result

(* A restart of the process forgets the answers and keeps the records.     *)
Restart ==
    /\ result' = [c \in Clients |-> "none"]
    /\ UNCHANGED db

Next ==
    \/ \E c \in Clients, k \in Keys :
          \/ \E v \in Values : Create(c, k, v) \/ Update(c, k, v)
          \/ Delete(c, k)
    \/ \E c \in Clients : Ask(c) \/ Refuse(c)
    \/ Prune
    \/ Restart

Spec == Init /\ [][Next]_<<db, result>>
================================================================================
