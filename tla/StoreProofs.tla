------------------------------ MODULE StoreProofs ------------------------------
(***************************************************************************)
(* The two parts of the resource store.  Of VersionedStore, for any number *)
(* of clients, resources and values: its types, the isolation invariant,   *)
(* and that it implements AtomicStore.  Of WatchHub: its invariants, for   *)
(* any number of notifiers, watchers, watch keys and events and any size   *)
(* of the channels.                                                        *)
(***************************************************************************)
EXTENDS VersionedStore, WatchHub, FiniteSetTheorems, SequenceTheorems, TLAPS

(***************************************************************************)
(* The batches the closures compute are batches.                           *)
(***************************************************************************)
LEMMA BatchesTyped ==
    ASSUME NEW k \in Keys, NEW v \in Values, NEW d \in [Keys -> Rows]
    PROVE  /\ CreateBatch(k, v) \in Batches
           /\ NextVersion(d[k]) \in 1 .. VersionBound => UpdateBatch(d, k, v) \in Batches
           /\ DeleteBatch(k) \in Batches
<1> USE VersionBoundAssumption DEF Batches, Operations, Cells
<1>1. CreateBatch(k, v) \in Batches
    BY DEF CreateBatch
<1>2. NextVersion(d[k]) \in 1 .. VersionBound => UpdateBatch(d, k, v) \in Batches
    BY DEF UpdateBatch, Versions
<1>3. DeleteBatch(k) \in Batches
    BY DEF DeleteBatch
<1> QED BY <1>1, <1>2, <1>3

LEMMA PruneBatchTyped ==
    ASSUME NEW d PROVE PruneBatch(d) \in Batches
BY DEF PruneBatch, Batches, Operations, Cells

(***************************************************************************)
(* What a commit writes is again a store.                                  *)
(***************************************************************************)
LEMMA WriteTyped ==
    ASSUME TypeOK, NEW a \in Actors, batch[a].val \in Values \/ batch[a].put = {}
    PROVE  Write(batch[a]) \in [Keys -> Rows]
BY DEF Write, TypeOK, Rows, Batches

(***************************************************************************)
(* Types alone are not inductive: a commit writes the value of its batch,  *)
(* which has to be a value unless the batch puts nothing.                  *)
(***************************************************************************)
Typed == TypeOK /\ \A a \in Actors : batch[a].val \in Values \/ batch[a].put = {}

LEMMA TypedInit == Init => Typed
BY VersionBoundAssumption
   DEF Init, Typed, TypeOK, EmptyRow, Rows, Actors, Phases, Batches, NoBatch, Operations, Results

LEMMA TypedBuffer ==
    ASSUME Typed, NEW a \in Actors, NEW ph \in Phases, NEW b \in Batches,
           b.val \in Values \/ b.put = {}, Buffer(a, ph, b)
    PROVE  Typed'
BY DEF Typed, TypeOK, Buffer, Results

LEMMA TypedRefuse ==
    ASSUME Typed, NEW c \in Clients, NEW e \in Results, Refuse(c, e)
    PROVE  Typed'
BY DEF Typed, TypeOK, Refuse

LEMMA TypedFinish ==
    ASSUME Typed, NEW a \in Actors, NEW r \in Results, Finish(a, r),
           db' \in [Keys -> Rows], stale' \in [Actors -> BOOLEAN]
    PROVE  Typed'
<1>1. NoBatch \in Batches /\ NoBatch.put = {}
    BY DEF NoBatch, Batches, Operations
<1>2. "idle" \in Phases
    BY DEF Phases
<1> QED BY <1>1, <1>2 DEF Typed, TypeOK, Finish

LEMMA TypedNext == Typed /\ [Next]_vars => Typed'
<1> SUFFICES ASSUME Typed, [Next]_vars PROVE Typed'
    OBVIOUS
<1> USE DEF Typed
<1>a. \A e \in {"already_exists", "not_found", "ok", "conflict"} : e \in Results
    BY DEF Results
<1>b. "notify" \in Phases /\ "commit" \in Phases /\ "idle" \in Phases
    BY DEF Phases
<1>c. \A k \in Keys : db[k] \in Rows /\ db \in [Keys -> Rows]
    BY DEF TypeOK
<1>1. ASSUME NEW c \in Clients, NEW k \in Keys, NEW v \in Values, Create(c, k, v)
      PROVE  Typed'
    <2>1. CASE Refuse(c, "already_exists")
        BY <2>1, <1>a, TypedRefuse
    <2>2. CASE Buffer(c, "notify", CreateBatch(k, v))
        <3>1. CreateBatch(k, v) \in Batches /\ CreateBatch(k, v).val \in Values
            BY <1>c, BatchesTyped DEF CreateBatch
        <3> QED BY <2>2, <3>1, <1>b, TypedBuffer DEF Actors
    <2> QED BY <1>1, <2>1, <2>2 DEF Create
<1>2. ASSUME NEW c \in Clients, NEW k \in Keys, NEW v \in Values, Update(c, k, v)
      PROVE  Typed'
    <2>1. CASE Refuse(c, "not_found")
        BY <2>1, <1>a, TypedRefuse
    <2>2. CASE /\ NextVersion(db[k]) \in 1 .. VersionBound
               /\ Buffer(c, "notify", UpdateBatch(db, k, v))
        <3>1. UpdateBatch(db, k, v) \in Batches /\ UpdateBatch(db, k, v).val \in Values
            BY <1>c, <2>2, BatchesTyped DEF UpdateBatch
        <3> QED BY <2>2, <3>1, <1>b, TypedBuffer DEF Actors
    <2> QED BY <1>2, <2>1, <2>2 DEF Update
<1>3. ASSUME NEW c \in Clients, NEW k \in Keys, Delete(c, k)
      PROVE  Typed'
    <2>1. CASE Refuse(c, "not_found")
        BY <2>1, <1>a, TypedRefuse
    <2>2. CASE Buffer(c, "notify", DeleteBatch(k))
        <3>1. DeleteBatch(k) \in Batches /\ DeleteBatch(k).put = {}
            BY VersionBoundAssumption DEF DeleteBatch, Batches, Operations, Cells
        <3> QED BY <2>2, <3>1, <1>b, TypedBuffer DEF Actors
    <2> QED BY <1>3, <2>1, <2>2 DEF Delete
<1>4. ASSUME NEW c \in Clients, Notify(c) PROVE Typed'
    BY <1>4, <1>b DEF Notify, TypeOK
<1>5. CASE PruneOldVersions
    <2>1. PruneBatch(db) \in Batches /\ PruneBatch(db).put = {}
        BY PruneBatchTyped DEF PruneBatch
    <2> QED BY <1>5, <2>1, <1>b, TypedBuffer DEF PruneOldVersions, Actors
<1>6. ASSUME NEW a \in Actors, Commit(a) PROVE Typed'
    <2>1. db' \in [Keys -> Rows]
        BY <1>6, WriteTyped DEF Commit
    <2>2. stale' \in [Actors -> BOOLEAN]
        BY <1>6 DEF Commit, TypeOK
    <2> QED BY <1>6, <2>1, <2>2, <1>a, TypedFinish DEF Commit
<1>7. ASSUME NEW a \in Actors, Conflict(a) PROVE Typed'
    <2>1. stale' \in [Actors -> BOOLEAN] /\ db' \in [Keys -> Rows]
        BY <1>7 DEF Conflict, TypeOK
    <2> QED BY <1>7, <2>1, <1>a, TypedFinish DEF Conflict
<1>8. CASE Restart
    BY <1>8 DEF Restart, TypeOK, NoBatch, Batches, Operations, Phases, Results
<1>9. CASE UNCHANGED vars
    BY <1>9 DEF vars, TypeOK
<1> QED BY <1>1, <1>2, <1>3, <1>4, <1>5, <1>6, <1>7, <1>8, <1>9 DEF Next

(***************************************************************************)
(* Every reachable state of the store is well typed.                       *)
(***************************************************************************)
THEOREM TypeCorrect == Spec => []TypeOK
<1>1. Typed => TypeOK
    BY DEF Typed
<1> QED BY <1>1, TypedInit, TypedNext, PTL DEF Spec

--------------------------------------------------------------------------------
(***************************************************************************)
(* Isolation.  A transaction only ever writes cells of one resource and    *)
(* among them its main record, unless it is a prune pass, which only       *)
(* removes records that it has read.                                       *)
(***************************************************************************)
Written(b) == b.put \cup b.drop

IInv == Typed /\ OpenIsCurrent /\ IdleIsFresh

LEMMA WriteElsewhere ==
    ASSUME Typed, NEW a \in Actors, NEW k \in Keys, NEW n \in 0 .. VersionBound,
           <<k, n>> \notin Written(batch[a])
    PROVE  Write(batch[a])[k][n] = db[k][n]
BY DEF Write, Written

(***************************************************************************)
(* A commit that touches nothing an update has read leaves the row of the  *)
(* updated resource as it is: new versions come with a new main record,    *)
(* and a prune pass takes only versions that were there.                   *)
(***************************************************************************)
LEMMA RowKept ==
    ASSUME Typed, NEW a \in Actors, Current(a), NEW k \in Keys, NEW v \in Values,
           Written(batch[a]) \cap UpdateBatch(db, k, v).reads = {}
    PROVE  Write(batch[a])[k] = db[k]
<1> DEFINE W == Written(batch[a])
           R == {<<k, 0>>} \cup ({k} \X Versions(db[k]))
<1>1. W \cap R = {}
    BY DEF UpdateBatch
<1>2. db[k] \in Rows
    BY DEF Typed, TypeOK
<1>3. SUFFICES ASSUME NEW n \in 0 .. VersionBound, <<k, n>> \in W
               PROVE  Write(batch[a])[k][n] = db[k][n]
    <2>1. \A n \in 0 .. VersionBound : Write(batch[a])[k][n] = db[k][n]
        BY <1>3, WriteElsewhere
    <2> QED BY <2>1, <1>2 DEF Write, Rows
<1>4. CASE a = Pruner /\ batch[a] = PruneBatch(Part(db, batch[a].reads))
    <2> DEFINE d == Part(db, batch[a].reads)
    <2> HIDE DEF d
    <2>1. batch[a].put = {} /\ batch[a].drop = {cell \in Cells : Outranked(d, cell)}
        <3>1. batch[a] = PruneBatch(d)
            BY <1>4, Zenon DEF d
        <3> QED BY <3>1 DEF PruneBatch
    <2>2. n \in Versions(d[k])
        BY <1>3, <2>1 DEF Outranked, Surplus, Written
    <2>3. n \in Versions(db[k])
        BY <2>2 DEF Versions, Part, d
    <2> QED BY <2>3, <1>1, <1>3
<1>5. ASSUME NEW kk \in Keys, NEW m, W = {<<kk, 0>>, <<kk, m>>}
      PROVE  FALSE
    <2>1. kk = k
        BY <1>3, <1>5
    <2> QED BY <2>1, <1>1, <1>5
<1>6. ASSUME NEW kk \in Keys, NEW vv \in Values, batch[a] = CreateBatch(kk, vv)
      PROVE  FALSE
    <2>1. W = {<<kk, 0>>, <<kk, 1>>}
        BY <1>6 DEF CreateBatch, Written
    <2> QED BY <2>1, <1>5
<1>7. ASSUME NEW kk \in Keys, NEW vv \in Values, batch[a] = UpdateBatch(db, kk, vv)
      PROVE  FALSE
    <2>1. W = {<<kk, 0>>, <<kk, NextVersion(db[kk])>>}
        BY <1>7 DEF UpdateBatch, Written
    <2> QED BY <2>1, <1>5
<1>8. ASSUME NEW kk \in Keys, batch[a] = DeleteBatch(kk)
      PROVE  FALSE
    <2>1. W = {<<kk, 0>>, <<kk, 0>>}
        BY <1>8 DEF DeleteBatch, Written
    <2> QED BY <2>1, <1>5
<1> QED BY <1>4, <1>6, <1>7, <1>8 DEF Current

(***************************************************************************)
(* Another actor's transaction that a commit does not overtake stays       *)
(* current through it.                                                     *)
(***************************************************************************)
LEMMA CurrentKept ==
    ASSUME Typed, NEW a \in Actors, Current(a), db' = Write(batch[a]),
           NEW o \in Actors, Current(o), batch'[o] = batch[o],
           batch[o].reads \cap Written(batch[a]) = {}
    PROVE  Current(o)'
<1>1. CASE o = Pruner /\ batch[o] = PruneBatch(Part(db, batch[o].reads))
    <2>1. \A k \in Keys, n \in 0 .. VersionBound :
             <<k, n>> \in batch[o].reads => db'[k][n] = db[k][n]
        BY WriteElsewhere
    <2>2. Part(db', batch[o].reads) = Part(db, batch[o].reads)
        BY <2>1 DEF Part
    <2> QED BY <1>1, <2>2 DEF Current
<1>2. ASSUME NEW k \in Keys, NEW v \in Values, o \in Clients,
             batch[o] = CreateBatch(k, v), ~Exists(db[k])
      PROVE  Current(o)'
    <2>1. <<k, 0>> \notin Written(batch[a])
        BY <1>2 DEF CreateBatch
    <2>2. db'[k][0] = db[k][0]
        BY <2>1, WriteElsewhere, VersionBoundAssumption
    <2> QED BY <1>2, <2>2 DEF Current, Exists
<1>3. ASSUME NEW k \in Keys, NEW v \in Values, o \in Clients,
             batch[o] = UpdateBatch(db, k, v), Exists(db[k]),
             NextVersion(db[k]) \in 1 .. VersionBound
      PROVE  Current(o)'
    <2>1. db'[k] = db[k]
        BY <1>3, RowKept
    <2>2. UpdateBatch(db', k, v) = UpdateBatch(db, k, v)
        BY <2>1 DEF UpdateBatch
    <2> QED BY <1>3, <2>1, <2>2 DEF Current
<1>4. ASSUME NEW k \in Keys, o \in Clients, batch[o] = DeleteBatch(k), Exists(db[k])
      PROVE  Current(o)'
    <2>1. <<k, 0>> \notin Written(batch[a])
        BY <1>4 DEF DeleteBatch
    <2>2. db'[k][0] = db[k][0]
        BY <2>1, WriteElsewhere, VersionBoundAssumption
    <2> QED BY <1>4, <2>2 DEF Current, Exists
<1> QED BY <1>1, <1>2, <1>3, <1>4 DEF Current

(***************************************************************************)
(* Beginning a transaction: its batch is computed from the store as it is. *)
(***************************************************************************)
LEMMA OpenBuffer ==
    ASSUME IInv, NEW a \in Actors, NEW ph \in {"notify", "commit"}, NEW b,
           Buffer(a, ph, b), batch'[a] = b => Current(a)'
    PROVE  OpenIsCurrent' /\ IdleIsFresh'
<1>1. batch'[a] = b /\ phase'[a] = ph
    BY DEF Buffer, IInv, Typed, TypeOK
<1>2. ASSUME NEW o \in Actors \ {a} PROVE
          /\ phase'[o] = phase[o]
          /\ Current(o) => Current(o)'
    <2>1. phase'[o] = phase[o] /\ batch'[o] = batch[o] /\ db' = db
        BY DEF Buffer, IInv, Typed, TypeOK
    <2> QED BY <2>1 DEF Current
<1> QED BY <1>1, <1>2 DEF IInv, OpenIsCurrent, IdleIsFresh, Buffer

LEMMA OpenSame ==
    ASSUME IInv, UNCHANGED <<db, batch, stale>>,
           \A a \in Actors : phase'[a] = "idle" <=> phase[a] = "idle"
    PROVE  OpenIsCurrent' /\ IdleIsFresh'
<1>1. ASSUME NEW a \in Actors, Current(a) PROVE Current(a)'
    BY <1>1 DEF Current
<1> QED BY <1>1 DEF IInv, OpenIsCurrent, IdleIsFresh

LEMMA OpenCommit ==
    ASSUME IInv, NEW a \in Actors, Commit(a)
    PROVE  OpenIsCurrent' /\ IdleIsFresh'
<1>1. /\ phase[a] = "commit" /\ ~stale[a] /\ Current(a)
      /\ phase'[a] = "idle" /\ ~stale'[a]
    BY DEF Commit, Finish, IInv, OpenIsCurrent, Typed, TypeOK, Overtaken
<1>2. ASSUME NEW o \in Actors \ {a} PROVE
          /\ phase'[o] = phase[o] /\ batch'[o] = batch[o]
          /\ stale'[o] = (stale[o] \/ o \in Overtaken(a, Written(batch[a])))
    BY DEF Commit, Finish, IInv, Typed, TypeOK, Written
<1>3. ASSUME NEW o \in Actors \ {a}, phase'[o] # "idle", ~stale'[o]
      PROVE  Current(o)'
    <2>1. Current(o)
        BY <1>2, <1>3 DEF IInv, OpenIsCurrent
    <2>2. batch[o].reads \cap Written(batch[a]) = {}
        BY <1>2, <1>3 DEF Overtaken
    <2> QED BY <1>1, <1>2, <2>1, <2>2, CurrentKept DEF Commit, IInv
<1>4. ASSUME NEW o \in Actors \ {a}, phase'[o] = "idle"
      PROVE  ~stale'[o]
    BY <1>2, <1>4 DEF IInv, IdleIsFresh, Overtaken
<1> QED BY <1>1, <1>3, <1>4 DEF OpenIsCurrent, IdleIsFresh

LEMMA OpenConflict ==
    ASSUME IInv, NEW a \in Actors, Conflict(a)
    PROVE  OpenIsCurrent' /\ IdleIsFresh'
<1>1. phase'[a] = "idle" /\ ~stale'[a]
    BY DEF Conflict, Finish, IInv, Typed, TypeOK
<1>2. ASSUME NEW o \in Actors \ {a} PROVE
          /\ phase'[o] = phase[o] /\ stale'[o] = stale[o]
          /\ Current(o) => Current(o)'
    <2>1. /\ phase'[o] = phase[o] /\ batch'[o] = batch[o] /\ stale'[o] = stale[o]
          /\ db' = db
        BY DEF Conflict, Finish, IInv, Typed, TypeOK
    <2> QED BY <2>1 DEF Current
<1> QED BY <1>1, <1>2 DEF IInv, OpenIsCurrent, IdleIsFresh

LEMMA IInvInit == Init => IInv
BY TypedInit DEF Init, IInv, OpenIsCurrent, IdleIsFresh

LEMMA IInvNext == IInv /\ [Next]_vars => IInv'
<1> SUFFICES ASSUME IInv, [Next]_vars PROVE OpenIsCurrent' /\ IdleIsFresh'
    BY TypedNext DEF IInv
<1>r. ASSUME NEW c \in Clients, NEW e, Refuse(c, e) PROVE OpenIsCurrent' /\ IdleIsFresh'
    BY <1>r, OpenSame DEF Refuse
<1>c. Clients \subseteq Actors
    BY DEF Actors
<1>1. ASSUME NEW c \in Clients, NEW k \in Keys, NEW v \in Values, Create(c, k, v)
      PROVE  OpenIsCurrent' /\ IdleIsFresh'
    <2>1. CASE ~Exists(db[k]) /\ Buffer(c, "notify", CreateBatch(k, v))
        <3>1. batch'[c] = CreateBatch(k, v) => Current(c)'
            BY <2>1 DEF Current, Buffer
        <3> QED BY <1>c, <2>1, <3>1, OpenBuffer
    <2> QED BY <1>1, <1>r, <2>1 DEF Create
<1>2. ASSUME NEW c \in Clients, NEW k \in Keys, NEW v \in Values, Update(c, k, v)
      PROVE  OpenIsCurrent' /\ IdleIsFresh'
    <2>1. CASE /\ Exists(db[k])
               /\ NextVersion(db[k]) \in 1 .. VersionBound
               /\ Buffer(c, "notify", UpdateBatch(db, k, v))
        <3>1. db' = db
            BY <2>1 DEF Buffer
        <3>2. batch'[c] = UpdateBatch(db, k, v) => Current(c)'
            BY <2>1, <3>1 DEF Current
        <3> QED BY <1>c, <2>1, <3>2, OpenBuffer
    <2> QED BY <1>2, <1>r, <2>1 DEF Update
<1>3. ASSUME NEW c \in Clients, NEW k \in Keys, Delete(c, k)
      PROVE  OpenIsCurrent' /\ IdleIsFresh'
    <2>1. CASE Exists(db[k]) /\ Buffer(c, "notify", DeleteBatch(k))
        <3>1. batch'[c] = DeleteBatch(k) => Current(c)'
            BY <2>1 DEF Current, Buffer
        <3> QED BY <1>c, <2>1, <3>1, OpenBuffer
    <2> QED BY <1>3, <1>r, <2>1 DEF Delete
<1>4. ASSUME NEW c \in Clients, Notify(c) PROVE OpenIsCurrent' /\ IdleIsFresh'
    <2>1. \A a \in Actors : phase'[a] = "idle" <=> phase[a] = "idle"
        BY <1>4 DEF Notify, IInv, Typed, TypeOK
    <2> QED BY <1>4, <2>1, OpenSame DEF Notify
<1>5. CASE PruneOldVersions
    <2>1. Part(db, PruneBatch(db).reads) = db
        BY DEF Part, PruneBatch, Cells, IInv, Typed, TypeOK, Rows
    <2>2. Pruner \in Actors /\ Buffer(Pruner, "commit", PruneBatch(db)) /\ db' = db
        BY <1>5 DEF Actors, PruneOldVersions, Buffer
    <2>3. batch'[Pruner] = PruneBatch(db) => Current(Pruner)'
        BY <2>1, <2>2 DEF Current
    <2> QED BY <2>2, <2>3, OpenBuffer
<1>6. ASSUME NEW a \in Actors, Commit(a) PROVE OpenIsCurrent' /\ IdleIsFresh'
    BY <1>6, OpenCommit
<1>7. ASSUME NEW a \in Actors, Conflict(a) PROVE OpenIsCurrent' /\ IdleIsFresh'
    BY <1>7, OpenConflict
<1>8. CASE Restart
    BY <1>8 DEF Restart, OpenIsCurrent, IdleIsFresh
<1>9. CASE UNCHANGED vars
    BY <1>9, OpenSame DEF vars
<1> QED BY <1>1, <1>2, <1>3, <1>4, <1>5, <1>6, <1>7, <1>8, <1>9 DEF Next

(***************************************************************************)
(* Isolation holds throughout: a transaction that badger would let commit  *)
(* has buffered exactly what it would buffer on the present store.         *)
(***************************************************************************)
THEOREM Isolated == Spec => []Isolation
<1>1. IInv => Isolation
    BY DEF IInv, Isolation, Typed
<1> QED BY <1>1, IInvInit, IInvNext, PTL DEF Spec

--------------------------------------------------------------------------------
(***************************************************************************)
(* Refinement.  The operators on rows mean the same in both modules.       *)
(***************************************************************************)
LEMMA SameRows ==
    /\ \A row : Atomic!Exists(row) <=> Exists(row)
    /\ \A row : Atomic!NextVersion(row) = NextVersion(row)
    /\ \A d, cell : Atomic!Outranked(d, cell) <=> Outranked(d, cell)
    /\ \A d, D : Atomic!Erase(d, D) = Erase(d, D)
    /\ Atomic!EmptyRow = EmptyRow /\ Atomic!Keys = Keys /\ Atomic!Cells = Cells
<1>1. \A row : Atomic!Exists(row) <=> Exists(row)
    BY DEF Atomic!Exists, Exists
<1>2. \A row : Atomic!Versions(row) = Versions(row)
    BY DEF Atomic!Versions, Versions
<1>3. \A S : Atomic!Max(S) = Max(S)
    BY Zenon DEF Atomic!Max, Max
<1>4. \A row : Atomic!NextVersion(row) = NextVersion(row)
    BY <1>2, <1>3, Zenon DEF Atomic!NextVersion, NextVersion
<1>5. \A row : Atomic!Surplus(row) = Surplus(row)
    <2>1. \A S : Atomic!Cardinality(S) = Cardinality(S)
        BY Zenon DEF Atomic!Cardinality, Cardinality
    <2> QED BY <1>2, <2>1, Zenon DEF Atomic!Surplus, Surplus
<1>6. \A d, cell : Atomic!Outranked(d, cell) <=> Outranked(d, cell)
    BY <1>5, Zenon DEF Atomic!Outranked, Outranked
<1>7. Atomic!EmptyRow = EmptyRow /\ Atomic!Keys = Keys
    BY Zenon DEF Atomic!EmptyRow, EmptyRow, Atomic!Keys, Keys
<1>8. Atomic!Cells = Cells
    BY <1>7, Zenon DEF Atomic!Cells, Cells
<1>9. \A d, D : Atomic!Erase(d, D) = Erase(d, D)
    BY <1>7, Zenon DEF Atomic!Erase, Erase
<1> QED BY <1>1, <1>4, <1>6, <1>7, <1>8, <1>9

(***************************************************************************)
(* What is outranked in a part of a store is outranked in the store: it    *)
(* has at least as many newer versions there.                              *)
(***************************************************************************)
LEMMA OutrankedInPart ==
    ASSUME NEW d \in [Keys -> Rows], NEW cells, NEW cell \in Cells,
           Outranked(Part(d, cells), cell)
    PROVE  Outranked(d, cell)
<1> DEFINE k == cell[1]
           n == cell[2]
           p == Part(d, cells)
           Above(row) == {m \in Versions(row) : m > n}
<1>1. k \in Keys /\ n \in 0 .. VersionBound
    BY DEF Cells
<1>2. Versions(p[k]) \subseteq Versions(d[k])
    BY <1>1 DEF Versions, Part
<1>3. IsFiniteSet(Above(d[k]))
    <2>1. IsFiniteSet(1 .. VersionBound)
        BY FS_Interval, VersionBoundAssumption
    <2> QED BY <2>1, FS_Subset DEF Versions
<1>4. /\ IsFiniteSet(Above(p[k]))
      /\ Cardinality(Above(p[k])) <= Cardinality(Above(d[k]))
    BY <1>2, <1>3, FS_Subset
<1>5. Cardinality(Above(p[k])) \in Nat /\ Cardinality(Above(d[k])) \in Nat
    BY <1>3, <1>4, FS_CardinalityType
<1>6. n \in Versions(p[k]) /\ Cardinality(Above(p[k])) >= Keep
    BY DEF Outranked, Surplus
<1>7. n \in Versions(d[k]) /\ Cardinality(Above(d[k])) >= Keep
    BY <1>2, <1>4, <1>5, <1>6, KeepAssumption
<1> QED BY <1>7 DEF Outranked, Surplus

(***************************************************************************)
(* A batch confined to the row of k commits as an assignment to that row.  *)
(***************************************************************************)
LEMMA RowAssigned ==
    ASSUME db \in [Keys -> Rows], NEW k \in Keys, NEW b, NEW new,
           b.put \cup b.drop \subseteq {k} \X (0 .. VersionBound), Write(b)[k] = new
    PROVE  Write(b) = [db EXCEPT ![k] = new]
<1>1. ASSUME NEW kk \in Keys \ {k} PROVE Write(b)[kk] = db[kk]
    <2>1. db[kk] = [n \in 0 .. VersionBound |-> db[kk][n]]
        BY DEF Rows
    <2>2. \A n \in 0 .. VersionBound : <<kk, n>> \notin b.put /\ <<kk, n>> \notin b.drop
        BY <1>1
    <2> QED BY <2>1, <2>2 DEF Write
<1>2. Write(b) = [kk \in Keys |-> Write(b)[kk]]
    BY DEF Write
<1>3. Write(b) = [kk \in Keys |-> IF kk = k THEN new ELSE db[kk]]
    BY <1>1, <1>2
<1> QED BY <1>3

LEMMA CommitRefines ==
    ASSUME IInv, NEW a \in Actors, Commit(a)
    PROVE  Atomic!Next
<1>1. db' = Write(batch[a]) /\ Current(a) /\ phase[a] # "idle"
    BY DEF Commit, IInv, OpenIsCurrent
<1>2. db \in [Keys -> Rows] /\ result \in [Clients -> Results]
    BY DEF IInv, Typed, TypeOK
<1>3. a \in Clients => Atomic!Answer(a, "ok")
    BY <1>2 DEF Commit, Finish, Atomic!Answer
<1>4. CASE a = Pruner /\ batch[a] = PruneBatch(Part(db, batch[a].reads))
    <2> DEFINE p == Part(db, batch[a].reads)
    <2> HIDE DEF p
    <2>1. batch[a] = PruneBatch(p)
        BY <1>4, Zenon DEF p
    <2>2. batch[a].put = {} /\ batch[a].drop = {cell \in Cells : Outranked(p, cell)}
        BY <2>1 DEF PruneBatch
    <2>3. batch[a].drop \in SUBSET {cell \in Cells : Outranked(db, cell)}
        BY <1>2, <2>2, OutrankedInPart DEF p
    <2>4. db' = Erase(db, batch[a].drop)
        BY <1>1, <2>2 DEF Write, Erase
    <2>5. result' = result
        BY <1>2, <1>4, PrunerAssumption DEF Commit, Finish
    <2> QED BY <2>3, <2>4, <2>5, SameRows DEF Atomic!Next, Atomic!Prune
<1>5. ASSUME NEW k \in Keys, NEW v \in Values, a \in Clients,
             batch[a] = CreateBatch(k, v), ~Exists(db[k])
      PROVE  Atomic!Next
    <2> DEFINE new == [db[k] EXCEPT ![0] = v, ![1] = v]
    <2>a. /\ batch[a].put = {<<k, 0>>, <<k, 1>>} /\ batch[a].drop = {}
          /\ batch[a].val = v /\ {0, 1} \subseteq 0 .. VersionBound
        BY <1>5, VersionBoundAssumption DEF CreateBatch
    <2>b. Write(batch[a])[k] = new
        <3>1. new = [n \in 0 .. VersionBound |-> IF n \in {0, 1} THEN v ELSE db[k][n]]
            BY <1>2 DEF Rows
        <3> HIDE DEF new
        <3> QED BY <2>a, <3>1 DEF Write
    <2> HIDE DEF new
    <2>c. batch[a].put \cup batch[a].drop \subseteq {k} \X (0 .. VersionBound)
        BY <2>a
    <2>d. Write(batch[a]) = [db EXCEPT ![k] = new]
        BY <1>2, <2>b, <2>c, RowAssigned, Zenon
    <2>1. db' = [db EXCEPT ![k] = new]
        BY <1>1, <2>d, Zenon
    <2> USE DEF new
    <2>2. Atomic!Create(a, k, v)
        BY <1>3, <1>5, <2>1, SameRows DEF Atomic!Create
    <2> QED BY <1>5, <2>2, SameRows DEF Atomic!Next
<1>6. ASSUME NEW k \in Keys, NEW v \in Values, a \in Clients,
             batch[a] = UpdateBatch(db, k, v), Exists(db[k]),
             NextVersion(db[k]) \in 1 .. VersionBound
      PROVE  Atomic!Next
    <2> DEFINE new == [db[k] EXCEPT ![0] = v, ![NextVersion(db[k])] = v]
    <2>a. /\ batch[a].put = {<<k, 0>>, <<k, NextVersion(db[k])>>} /\ batch[a].drop = {}
          /\ batch[a].val = v /\ {0, NextVersion(db[k])} \subseteq 0 .. VersionBound
        BY <1>6, VersionBoundAssumption DEF UpdateBatch
    <2>b. Write(batch[a])[k] = new
        <3>1. new = [n \in 0 .. VersionBound |-> IF n \in {0, NextVersion(db[k])} THEN v ELSE db[k][n]]
            BY <1>2 DEF Rows
        <3> HIDE DEF new
        <3> QED BY <2>a, <3>1 DEF Write
    <2> HIDE DEF new
    <2>c. batch[a].put \cup batch[a].drop \subseteq {k} \X (0 .. VersionBound)
        BY <2>a
    <2>d. Write(batch[a]) = [db EXCEPT ![k] = new]
        BY <1>2, <2>b, <2>c, RowAssigned, Zenon
    <2>1. db' = [db EXCEPT ![k] = new]
        BY <1>1, <2>d, Zenon
    <2> USE DEF new
    <2>2. Atomic!Update(a, k, v)
        BY <1>3, <1>6, <2>1, SameRows DEF Atomic!Update
    <2> QED BY <1>6, <2>2, SameRows DEF Atomic!Next
<1>7. ASSUME NEW k \in Keys, a \in Clients, batch[a] = DeleteBatch(k), Exists(db[k])
      PROVE  Atomic!Next
    <2> DEFINE new == [db[k] EXCEPT ![0] = NoValue]
    <2>a. /\ batch[a].put = {} /\ batch[a].drop = {<<k, 0>>}
          /\ {0} \subseteq 0 .. VersionBound
        BY <1>7, VersionBoundAssumption DEF DeleteBatch
    <2>b. Write(batch[a])[k] = new
        <3>1. new = [n \in 0 .. VersionBound |-> IF n \in {0} THEN NoValue ELSE db[k][n]]
            BY <1>2 DEF Rows
        <3> HIDE DEF new
        <3> QED BY <2>a, <3>1 DEF Write
    <2> HIDE DEF new
    <2>c. batch[a].put \cup batch[a].drop \subseteq {k} \X (0 .. VersionBound)
        BY <2>a
    <2>d. Write(batch[a]) = [db EXCEPT ![k] = new]
        BY <1>2, <2>b, <2>c, RowAssigned, Zenon
    <2>1. db' = [db EXCEPT ![k] = new]
        BY <1>1, <2>d, Zenon
    <2> USE DEF new
    <2>2. Atomic!Delete(a, k)
        BY <1>3, <1>7, <2>1, SameRows DEF Atomic!Delete
    <2> QED BY <1>7, <2>2, SameRows DEF Atomic!Next
<1> QED BY <1>1, <1>4, <1>5, <1>6, <1>7 DEF Current

LEMMA BufferRefines ==
    ASSUME IInv, NEW a \in Actors, NEW ph, NEW b, Buffer(a, ph, b)
    PROVE  Atomic!Next \/ UNCHANGED <<db, result>>
<1>1. db' = db /\ result \in [Clients -> Results]
    BY DEF Buffer, IInv, Typed, TypeOK
<1>2. CASE a \in Clients
    <2>1. Atomic!Ask(a)
        BY <1>1, <1>2 DEF Buffer, Atomic!Ask, Atomic!Answer
    <2> QED BY <1>2, <2>1 DEF Atomic!Next
<1>3. CASE a = Pruner
    BY <1>1, <1>3, PrunerAssumption DEF Buffer
<1> QED BY <1>2, <1>3 DEF Actors

(***************************************************************************)
(* Every step of the transactional store is a step of the atomic one, or   *)
(* changes neither records nor answers.                                    *)
(***************************************************************************)
LEMMA StepRefines == IInv /\ [Next]_vars => [Atomic!Next]_<<db, result>>
<1> SUFFICES ASSUME IInv, [Next]_vars PROVE Atomic!Next \/ UNCHANGED <<db, result>>
    OBVIOUS
<1>t. result \in [Clients -> Results]
    BY DEF IInv, Typed, TypeOK
<1>c. Clients \subseteq Actors /\ Pruner \in Actors
    BY DEF Actors
<1>r. ASSUME NEW c \in Clients, NEW e, Refuse(c, e),
             \/ e = "already_exists" /\ \E k \in Keys : Exists(db[k])
             \/ e = "not_found" /\ \E k \in Keys : ~Exists(db[k])
      PROVE  Atomic!Next
    <2>1. Atomic!Refuse(c)
        BY <1>r, SameRows DEF Refuse, Atomic!Refuse, Atomic!Answer
    <2> QED BY <2>1 DEF Atomic!Next
<1>1. ASSUME NEW c \in Clients, NEW k \in Keys, NEW v \in Values, Create(c, k, v)
      PROVE  Atomic!Next \/ UNCHANGED <<db, result>>
    BY <1>1, <1>c, <1>r, BufferRefines DEF Create
<1>2. ASSUME NEW c \in Clients, NEW k \in Keys, NEW v \in Values, Update(c, k, v)
      PROVE  Atomic!Next \/ UNCHANGED <<db, result>>
    BY <1>2, <1>c, <1>r, BufferRefines DEF Update
<1>3. ASSUME NEW c \in Clients, NEW k \in Keys, Delete(c, k)
      PROVE  Atomic!Next \/ UNCHANGED <<db, result>>
    BY <1>3, <1>c, <1>r, BufferRefines DEF Delete
<1>4. ASSUME NEW c \in Clients, Notify(c) PROVE UNCHANGED <<db, result>>
    BY <1>4 DEF Notify
<1>5. ASSUME PruneOldVersions PROVE Atomic!Next \/ UNCHANGED <<db, result>>
    BY <1>5, <1>c, BufferRefines DEF PruneOldVersions
<1>6. ASSUME NEW a \in Actors, Commit(a) PROVE Atomic!Next
    BY <1>6, CommitRefines
<1>7. ASSUME NEW a \in Actors, Conflict(a)
      PROVE  Atomic!Next \/ UNCHANGED <<db, result>>
    <2>1. CASE a \in Clients
        <3>1. Atomic!Refuse(a)
            BY <1>7, <1>t, <2>1 DEF Conflict, Finish, Atomic!Refuse, Atomic!Answer
        <3> QED BY <2>1, <3>1 DEF Atomic!Next
    <2>2. CASE a = Pruner
        BY <1>7, <1>t, <2>2, PrunerAssumption DEF Conflict, Finish
    <2> QED BY <2>1, <2>2 DEF Actors
<1>8. ASSUME Restart PROVE Atomic!Next
    BY <1>8 DEF Restart, Atomic!Next, Atomic!Restart
<1>9. ASSUME UNCHANGED vars PROVE UNCHANGED <<db, result>>
    BY <1>9 DEF vars
<1> QED BY <1>1, <1>2, <1>3, <1>4, <1>5, <1>6, <1>7, <1>8, <1>9 DEF Next

(***************************************************************************)
(* VersionedStore implements AtomicStore: whatever the interleaving of     *)
(* transactions, prune passes and restarts, the records and the answers    *)
(* are those of calls carried out one at a time.                           *)
(***************************************************************************)
THEOREM Serializable == Spec => AtomicSpec
<1>1. Init => Atomic!Init
    BY SameRows DEF Init, Atomic!Init
<1> QED BY <1>1, IInvInit, IInvNext, StepRefines, PTL DEF Spec, AtomicSpec, Atomic!Spec


--------------------------------------------------------------------------------
(* WatchHub                                                                *)

(***************************************************************************)
(* The inductive invariant.  A registered channel has not been given up by *)
(* any notifier, and a channel that Watch has not handed out yet has no    *)
(* history: nobody sends to it, drops it or has closed it.  A notifier     *)
(* that still has channels to send to has an event to send.                *)
(***************************************************************************)
Bounded == \A w \in Watchers : Len(buffer[w]) <= Capacity

RegisteredIsCurrent ==
    \A w \in registered : w \notin closed /\ w \notin lost

GivenUp ==
    \A n \in Notifiers : dropping[n] # None => dropping[n] \notin registered

Unborn ==
    \A w \in Watchers : context[w] = "none" =>
        /\ w \notin registered \cup closed \cup lost
        /\ \A n \in Notifiers : w \notin todo[n] /\ dropping[n] # w

Busy ==
    \A n \in Notifiers :
        /\ todo[n] # {} => n \in active
        /\ n \in active => event[n] \in Events

HubIInv ==
    /\ HubTypeOK
    /\ Bounded
    /\ RegisteredIsCurrent
    /\ GivenUp
    /\ Unborn
    /\ Busy
    /\ LossIsSignalled

LEMMA HubInitIInv == HubInit => HubIInv
<1> SUFFICES ASSUME HubInit PROVE HubIInv
    OBVIOUS
<1>1. <<>> \in Seq(Events) /\ Len(<<>>) = 0
    OBVIOUS
<1>2. HubTypeOK
    BY <1>1 DEF HubInit, HubTypeOK, ContextStates
<1>3. Bounded
    BY <1>1, CapacityAssumption DEF HubInit, Bounded
<1>4. RegisteredIsCurrent /\ GivenUp /\ Unborn /\ Busy /\ LossIsSignalled
    BY NoneAssumption DEF HubInit, RegisteredIsCurrent, GivenUp, Unborn, Busy, LossIsSignalled
<1> QED BY <1>2, <1>3, <1>4 DEF HubIInv

(***************************************************************************)
(* What a channel's buffer is after one event more or one event less.      *)
(***************************************************************************)
LEMMA OneEventMore ==
    ASSUME NEW b \in Seq(Events), NEW e \in Events
    PROVE  Append(b, e) \in Seq(Events) /\ Len(Append(b, e)) = Len(b) + 1 /\ Len(b) \in Nat
OBVIOUS

LEMMA OneEventLess ==
    ASSUME NEW b \in Seq(Events), b # <<>>
    PROVE  Tail(b) \in Seq(Events) /\ Len(Tail(b)) = Len(b) - 1 /\ Len(b) \in Nat
OBVIOUS

(***************************************************************************)
(* Closing closes only the channels it is given, and no buffer grows.      *)
(***************************************************************************)
LEMMA Closing ==
    ASSUME HubIInv, NEW W \in SUBSET Watchers, CloseOrReceive(W)
    PROVE  /\ closed' \subseteq closed \cup W /\ closed \subseteq closed'
           /\ closed' \subseteq Watchers
           /\ buffer' \in [Watchers -> Seq(Events)]
           /\ Bounded'
<1>1. closed' = closed \cup {w \in W : buffer[w] = <<>>}
    BY DEF CloseOrReceive
<1>2. closed \subseteq Watchers /\ buffer \in [Watchers -> Seq(Events)] /\ Capacity \in Nat
    BY CapacityAssumption DEF HubIInv, HubTypeOK
<1>3. buffer' = [w \in Watchers |-> IF w \in W /\ buffer[w] # <<>>
                                     THEN Tail(buffer[w]) ELSE buffer[w]]
    BY DEF CloseOrReceive
<1>4. ASSUME NEW w \in Watchers
      PROVE  buffer'[w] \in Seq(Events) /\ Len(buffer'[w]) <= Capacity
    <2>1. buffer[w] \in Seq(Events) /\ Len(buffer[w]) <= Capacity
        BY <1>2, <1>4 DEF HubIInv, Bounded
    <2>2. CASE w \in W /\ buffer[w] # <<>>
        <3>1. buffer'[w] = Tail(buffer[w])
            BY <1>3, <2>2, <1>4
        <3> QED BY <1>2, <2>1, <2>2, <3>1, OneEventLess
    <2>3. CASE ~(w \in W /\ buffer[w] # <<>>)
        BY <1>3, <2>1, <2>3
    <2> QED BY <2>2, <2>3
<1>5. buffer' \in [Watchers -> Seq(Events)] /\ Bounded'
    BY <1>3, <1>4 DEF Bounded
<1> QED BY <1>1, <1>2, <1>5

--------------------------------------------------------------------------------
LEMMA HubNextIInv == HubIInv /\ [HubNext]_hubVars => HubIInv'
<1> SUFFICES ASSUME HubIInv, [HubNext]_hubVars PROVE HubIInv'
    OBVIOUS
<1> USE DEF GivenUp, Unborn, RegisteredIsCurrent, Busy, LossIsSignalled, BeingClosed
<1>1. ASSUME NEW w \in Watchers, Watch(w) PROVE HubIInv'
    <2>1. context' = [context EXCEPT ![w] = "live"] /\ registered' = registered \cup {w}
          /\ context[w] = "none"
        BY <1>1 DEF Watch
    <2>2. UNCHANGED <<scope, buffer, closed, todo, dropping, event, active, lost, open, panicked>>
        BY <1>1 DEF Watch
    <2>3. HubTypeOK' /\ Bounded'
        BY <2>1, <2>2 DEF HubIInv, HubTypeOK, ContextStates, Bounded
    <2>4. RegisteredIsCurrent' /\ GivenUp' /\ LossIsSignalled'
        BY <2>1, <2>2 DEF HubIInv
    <2>5. Unborn' /\ Busy'
        BY <2>1, <2>2 DEF HubIInv, HubTypeOK
    <2> QED BY <2>3, <2>4, <2>5 DEF HubIInv
<1>2. ASSUME NEW w \in Watchers, Receive(w) PROVE HubIInv'
    <2>1. buffer' = [buffer EXCEPT ![w] = Tail(@)] /\ buffer[w] # <<>>
        BY <1>2 DEF Receive
    <2>2. UNCHANGED <<context, scope, registered, closed, todo, dropping, event, active, lost,
                      open, panicked>>
        BY <1>2 DEF Receive
    <2>3. Tail(buffer[w]) \in Seq(Events) /\ Len(Tail(buffer[w])) <= Capacity
        BY <2>1, OneEventLess, CapacityAssumption DEF HubIInv, HubTypeOK, Bounded
    <2>4. HubTypeOK' /\ Bounded'
        BY <2>1, <2>2, <2>3 DEF HubIInv, HubTypeOK, Bounded
    <2> QED BY <2>2, <2>4 DEF HubIInv
<1>3. ASSUME NEW w \in Watchers, EndContext(w) PROVE HubIInv'
    <2>1. context' = [context EXCEPT ![w] = "ended"] /\ context[w] = "live"
        BY <1>3 DEF EndContext
    <2>2. UNCHANGED <<scope, registered, buffer, closed, todo, dropping, event, active, lost,
                      open, panicked>>
        BY <1>3 DEF EndContext
    <2>3. HubTypeOK' /\ Bounded'
        BY <2>1, <2>2 DEF HubIInv, HubTypeOK, ContextStates, Bounded
    <2>4. Unborn'
        BY <2>1, <2>2 DEF HubIInv, HubTypeOK
    <2> QED BY <2>2, <2>3, <2>4 DEF HubIInv
<1>4. ASSUME NEW w \in Watchers, Cleanup(w) PROVE HubIInv'
    <2>1. context' = [context EXCEPT ![w] = "cleaned"] /\ registered' = registered \ {w}
          /\ CloseOrReceive({w} \cap registered) /\ context[w] = "ended"
        BY <1>4 DEF Cleanup
    <2>2. UNCHANGED <<scope, todo, dropping, event, active, lost, open, panicked>>
        BY <1>4 DEF Cleanup
    <2>3. /\ closed' \subseteq closed \cup {w} /\ closed \subseteq closed'
          /\ closed' \subseteq Watchers /\ buffer' \in [Watchers -> Seq(Events)] /\ Bounded'
        BY <2>1, Closing
    <2>4. HubTypeOK'
        BY <2>1, <2>2, <2>3 DEF HubIInv, HubTypeOK, ContextStates
    <2>5. RegisteredIsCurrent' /\ GivenUp' /\ LossIsSignalled' /\ Busy'
        BY <2>1, <2>2, <2>3 DEF HubIInv
    <2>6. Unborn'
        BY <2>1, <2>2, <2>3 DEF HubIInv, HubTypeOK
    <2> QED BY <2>3, <2>4, <2>5, <2>6 DEF HubIInv
<1>5. ASSUME Close PROVE HubIInv'
    <2>1. CloseOrReceive(registered) /\ registered' = {} /\ open' = FALSE
          /\ UNCHANGED <<context, scope, todo, dropping, event, active, lost, panicked>>
        BY <1>5 DEF Close
    <2>2. registered \in SUBSET Watchers
        BY DEF HubIInv, HubTypeOK
    <2>3. /\ closed' \subseteq closed \cup registered /\ closed \subseteq closed'
          /\ closed' \subseteq Watchers /\ buffer' \in [Watchers -> Seq(Events)] /\ Bounded'
        BY <2>1, <2>2, Closing
    <2>4. HubTypeOK'
        BY <2>1, <2>3 DEF HubIInv, HubTypeOK
    <2>5. RegisteredIsCurrent' /\ GivenUp' /\ LossIsSignalled' /\ Busy'
        BY <2>1, <2>3 DEF HubIInv
    <2>6. Unborn'
        BY <2>1, <2>3 DEF HubIInv
    <2> QED BY <2>3, <2>4, <2>5, <2>6 DEF HubIInv
<1>6. ASSUME NEW n \in Notifiers, NEW s \in Scopes, NEW e \in Events, StartNotify(n, s, e)
      PROVE  HubIInv'
    <2> DEFINE told == {w \in registered : scope[w] = s}
    <2>1. active' = active \cup {n} /\ event' = [event EXCEPT ![n] = e]
          /\ todo' = [todo EXCEPT ![n] = told]
        BY <1>6 DEF StartNotify
    <2>2. UNCHANGED <<context, scope, registered, buffer, closed, dropping, lost, open, panicked>>
        BY <1>6 DEF StartNotify
    <2>3. told \subseteq registered
        OBVIOUS
    <2> HIDE DEF told
    <2>4. HubTypeOK' /\ Bounded'
        BY <2>1, <2>2, <2>3 DEF HubIInv, HubTypeOK, Bounded
    <2>5. RegisteredIsCurrent' /\ GivenUp' /\ LossIsSignalled'
        BY <2>2 DEF HubIInv
    <2>6. Unborn'
        BY <2>1, <2>2, <2>3 DEF HubIInv, HubTypeOK
    <2>7. Busy'
        BY <2>1 DEF HubIInv, HubTypeOK
    <2> QED BY <2>4, <2>5, <2>6, <2>7 DEF HubIInv
<1>7. ASSUME NEW n \in Notifiers, NEW w \in Watchers, Send(n, w) PROVE HubIInv'
    <2>1. buffer' = [buffer EXCEPT ![w] = Append(@, event[n])] /\ w \in todo[n]
          /\ Len(buffer[w]) < Capacity /\ todo' = [todo EXCEPT ![n] = @ \ {w}]
        BY <1>7 DEF Send, Sending
    <2>2. UNCHANGED <<context, scope, registered, closed, dropping, event, active, lost, open,
                      panicked>>
        BY <1>7 DEF Send
    <2>3. event[n] \in Events /\ buffer[w] \in Seq(Events)
        BY <2>1 DEF HubIInv, HubTypeOK
    <2>4. Append(buffer[w], event[n]) \in Seq(Events)
          /\ Len(Append(buffer[w], event[n])) <= Capacity
        BY <2>1, <2>3, OneEventMore, CapacityAssumption
    <2>5. HubTypeOK' /\ Bounded'
        BY <2>1, <2>2, <2>4 DEF HubIInv, HubTypeOK, Bounded
    <2>6. RegisteredIsCurrent' /\ GivenUp' /\ LossIsSignalled'
        BY <2>2 DEF HubIInv
    <2>7. Unborn' /\ Busy'
        BY <2>1, <2>2 DEF HubIInv, HubTypeOK
    <2> QED BY <2>5, <2>6, <2>7 DEF HubIInv
<1>8. ASSUME NEW n \in Notifiers, NEW w \in Watchers, SendOnClosed(n, w) PROVE HubIInv'
    BY <1>8 DEF SendOnClosed, HubIInv, HubTypeOK, Bounded
<1>9. ASSUME NEW n \in Notifiers, NEW w \in Watchers, Drop(n, w) PROVE HubIInv'
    <2>1. registered' = registered \ {w} /\ dropping' = [dropping EXCEPT ![n] = w]
          /\ todo' = [todo EXCEPT ![n] = @ \ {w}] /\ lost' = lost \cup {w}
          /\ w \in todo[n] /\ dropping[n] = None
        BY <1>9 DEF Drop, Sending
    <2>2. UNCHANGED <<context, scope, buffer, closed, event, active, open, panicked>>
        BY <1>9 DEF Drop
    <2>3. HubTypeOK' /\ Bounded'
        BY <2>1, <2>2 DEF HubIInv, HubTypeOK, Bounded
    <2>4. RegisteredIsCurrent' /\ GivenUp'
        BY <2>1, <2>2 DEF HubIInv, HubTypeOK
    <2>5. LossIsSignalled'
        BY <2>1, <2>2, NoneAssumption DEF HubIInv, HubTypeOK
    <2>6. Unborn' /\ Busy'
        BY <2>1, <2>2 DEF HubIInv, HubTypeOK
    <2> QED BY <2>3, <2>4, <2>5, <2>6 DEF HubIInv
<1>10. ASSUME NEW n \in Notifiers, CloseDropped(n) PROVE HubIInv'
    <2>1. closed' = closed \cup {dropping[n]} /\ dropping' = [dropping EXCEPT ![n] = None]
          /\ dropping[n] # None
        BY <1>10 DEF CloseDropped
    <2>2. UNCHANGED <<context, scope, registered, buffer, todo, event, active, lost, open, panicked>>
        BY <1>10 DEF CloseDropped
    <2>3. dropping[n] \in Watchers
        BY <2>1 DEF HubIInv, HubTypeOK
    <2>4. HubTypeOK' /\ Bounded'
        BY <2>1, <2>2, <2>3 DEF HubIInv, HubTypeOK, Bounded
    <2>5. RegisteredIsCurrent' /\ GivenUp' /\ Busy'
        BY <2>1, <2>2 DEF HubIInv, HubTypeOK
    <2>6. LossIsSignalled'
        BY <2>1, <2>2, <2>3 DEF HubIInv, HubTypeOK
    <2>7. Unborn'
        BY <2>1, <2>2, NoneAssumption DEF HubIInv, HubTypeOK
    <2> QED BY <2>4, <2>5, <2>6, <2>7 DEF HubIInv
<1>11. ASSUME NEW n \in Notifiers, EndNotify(n) PROVE HubIInv'
    <2>1. active' = active \ {n} /\ event' = [event EXCEPT ![n] = None] /\ todo[n] = {}
        BY <1>11 DEF EndNotify
    <2>2. UNCHANGED <<context, scope, registered, buffer, closed, todo, dropping, lost, open,
                      panicked>>
        BY <1>11 DEF EndNotify
    <2>3. HubTypeOK' /\ Bounded'
        BY <2>1, <2>2 DEF HubIInv, HubTypeOK, Bounded
    <2>4. Busy'
        BY <2>1, <2>2 DEF HubIInv, HubTypeOK
    <2> QED BY <2>2, <2>3, <2>4 DEF HubIInv
<1>12. CASE UNCHANGED hubVars
    BY <1>12 DEF hubVars, HubIInv, HubTypeOK, Bounded
<1> QED BY <1>1, <1>2, <1>3, <1>4, <1>5, <1>6, <1>7, <1>8, <1>9, <1>10, <1>11, <1>12
    DEF HubNext, NotifierStep

LEMMA HubInductive == HubSpec => []HubIInv
BY HubInitIInv, HubNextIInv, PTL DEF HubSpec

(***************************************************************************)
(* The variables keep their types: only events are ever buffered.          *)
(***************************************************************************)
THEOREM HubTypeCorrect == HubSpec => []HubTypeOK
<1>1. HubIInv => HubTypeOK
    BY DEF HubIInv
<1> QED BY <1>1, HubInductive, PTL

(***************************************************************************)
(* A watcher that has missed an event is told, however notifiers, Cleanup  *)
(* and Close interleave.                                                   *)
(***************************************************************************)
THEOREM LossSignalled == HubSpec => []LossIsSignalled
<1>1. HubIInv => LossIsSignalled
    BY DEF HubIInv
<1> QED BY <1>1, HubInductive, PTL

(***************************************************************************)
(* A channel in the store's map is open and within its capacity.           *)
(***************************************************************************)
THEOREM RegisteredOpen == HubSpec => []RegisteredIsOpen
<1>1. HubIInv => RegisteredIsOpen
    BY DEF HubIInv, HubTypeOK, Bounded, RegisteredIsCurrent, RegisteredIsOpen
<1> QED BY <1>1, HubInductive, PTL

================================================================================
