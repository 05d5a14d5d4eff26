------------------------------- MODULE KeeperCache -------------------------------
(***************************************************************************)
(* The Comb proxy of a Keeper (internal/keeper/keeper.go): the agent's     *)
(* requests on /comb/{key} are served concurrently, each from the Keeper's *)
(* cache or from Comb.  A GET looks into the cache, reads Comb and fills   *)
(* the cache; a PUT or DELETE changes Comb and then invalidates.  Others   *)
(* write the same session of Comb without the cache knowing.               *)
(***************************************************************************)
EXTENDS Integers, Sequences, FiniteSets, SequencesExt

CONSTANTS
    Clients,           \* requests being served at a time
    Keys, Values,
    Absent, NoKey,
    MaxSize,           \* of the cache, 1000 in the code
    ForeignBound,      \* bounds of the model: changes of Comb by others,
    RequestBound       \* and requests

ASSUME MarkersAssumption == Absent \notin Values /\ NoKey \notin Keys
ASSUME SizeAssumption == MaxSize \in Nat \ {0}
ASSUME BoundsAssumption == {ForeignBound, RequestBound} \subseteq Nat

VARIABLES
    stored,            \* Comb: the session's values
    session,           \* Comb has the session
    data, insertOrder, \* combCache: values and the order of insertion
    expired,           \* cached keys whose expiresAt has passed
    request,           \* what each client's request is doing
    foreign, served,   \* how often others wrote, how many requests there were
    \* History variables:
    misled             \* cached keys whose value is not the Keeper's to know

comb == <<stored, session>>
cache == <<data, insertOrder, expired>>
count == <<foreign, served>>
cacheVars == <<comb, cache, request, count, misled>>

NoRequest == [step |-> "none", key |-> NoKey, value |-> Absent]

CacheInit ==
    /\ stored = [k \in Keys |-> Absent] /\ session = FALSE
    /\ data = [k \in Keys |-> Absent] /\ insertOrder = <<>> /\ expired = {}
    /\ request = [c \in Clients |-> NoRequest]
    /\ foreign = 0 /\ served = 0
    /\ misled = {}

Cached == {k \in Keys : data[k] # Absent}

At(c, step) == request[c].step = step
Goto(c, step) == request' = [request EXCEPT ![c].step = step]
Answer(c) == request' = [request EXCEPT ![c] = NoRequest]

Begin(c, step, k, v) ==
    /\ At(c, "none") /\ served < RequestBound
    /\ served' = served + 1
    /\ request' = [request EXCEPT ![c] = [step |-> step, key |-> k, value |-> v]]
    /\ UNCHANGED foreign

--------------------------------------------------------------------------------
(* combCache.                                                              *)

Forgotten(k) ==
    /\ data' = [data EXCEPT ![k] = Absent]
    /\ insertOrder' = RemoveFirst(insertOrder, k)
    /\ expired' = expired \ {k}

\* A key that is there is taken out of the order and not put back.
Renew(k, v) ==
    /\ k \in Cached
    /\ data' = [data EXCEPT ![k] = v]
    /\ insertOrder' = RemoveFirst(insertOrder, k)
    /\ expired' = expired \ {k}

\* Mutant: a full cache is not looked at.
InsertAnyway(k, v) ==
    /\ k \notin Cached
    /\ data' = [data EXCEPT ![k] = v]
    /\ insertOrder' = Append(insertOrder, k)
    /\ UNCHANGED expired

\* A full cache gives up the oldest key it has in order, when it has one.
Insert(k, v) ==
    LET full == Cardinality(Cached) >= MaxSize /\ insertOrder # <<>>
        oldest == IF full THEN {Head(insertOrder)} ELSE {}
    IN  /\ k \notin Cached
        /\ data' = [x \in Keys |-> IF x = k THEN v ELSE IF x \in oldest THEN Absent ELSE data[x]]
        /\ insertOrder' = Append(IF full THEN Tail(insertOrder) ELSE insertOrder, k)
        /\ expired' = expired \ oldest

Set(k, v) == Renew(k, v) \/ Insert(k, v)

Expire(k) ==
    /\ k \in Cached \ expired
    /\ expired' = expired \cup {k}
    /\ UNCHANGED <<comb, data, insertOrder, request, count, misled>>

--------------------------------------------------------------------------------
(* GET.                                                                    *)

\* A hit changes nothing; what is expired is a miss.
Get(c, k) ==
    /\ Begin(c, IF k \in expired THEN "dropping" ELSE "reading", k, Absent)
    /\ k \notin Cached \/ k \in expired
    /\ UNCHANGED <<comb, cache, misled>>

\* get takes the write lock and looks again.
DropExpired(c) ==
    LET k == request[c].key
    IN  /\ At(c, "dropping") /\ Goto(c, "reading")
        /\ IF k \in expired THEN Forgotten(k) ELSE UNCHANGED cache
        /\ UNCHANGED <<comb, count, misled>>

ReadComb(c) ==
    LET v == stored[request[c].key]
    IN  /\ At(c, "reading")
        /\ IF v = Absent
           THEN Answer(c)
           ELSE request' = [request EXCEPT ![c].step = "filling", ![c].value = v]
        /\ UNCHANGED <<comb, cache, count, misled>>

Fill(c) ==
    LET k == request[c].key
        v == request[c].value
    IN  /\ At(c, "filling") /\ Answer(c)
        /\ Set(k, v)
        /\ misled' = IF v = stored[k] THEN misled \ {k} ELSE misled \cup {k}
        /\ UNCHANGED <<comb, count>>

--------------------------------------------------------------------------------
(* PUT and DELETE.                                                         *)

Put(c, k, v) ==
    /\ Begin(c, "writing", k, v)
    /\ UNCHANGED <<comb, cache, misled>>

Delete(c, k) ==
    /\ Begin(c, "deleting", k, Absent)
    /\ UNCHANGED <<comb, cache, misled>>

WriteComb(c) ==
    /\ At(c, "writing") /\ Goto(c, "invalidating")
    /\ stored' = [stored EXCEPT ![request[c].key] = request[c].value]
    /\ session' = TRUE
    /\ UNCHANGED <<cache, count, misled>>

\* A session that Comb does not have is an error, and the cache stays.
DeleteFromComb(c) ==
    /\ At(c, "deleting")
    /\ IF session THEN Goto(c, "invalidating") ELSE Answer(c)
    /\ stored' = [stored EXCEPT ![request[c].key] = Absent]
    /\ UNCHANGED <<session, cache, count, misled>>

\* Mutant: the request ends with the write.
SkipInvalidate(c) ==
    /\ At(c, "invalidating") /\ Answer(c)
    /\ UNCHANGED <<comb, cache, count, misled>>

Invalidate(c) ==
    /\ At(c, "invalidating") /\ Answer(c)
    /\ Forgotten(request[c].key)
    /\ misled' = misled \ {request[c].key}
    /\ UNCHANGED <<comb, count>>

--------------------------------------------------------------------------------
(* Comb changes under the Keeper: another Keeper of the session, the API   *)
(* server, a TTL, or the end of the session.                               *)

ForeignChange(k, v) ==
    /\ foreign < ForeignBound /\ foreign' = foreign + 1
    /\ stored' = [stored EXCEPT ![k] = v]
    /\ session' = (session \/ v # Absent)
    /\ misled' = misled \cup ({k} \cap Cached)
    /\ UNCHANGED <<cache, request, served>>

ClearSession ==
    /\ foreign < ForeignBound /\ foreign' = foreign + 1
    /\ stored' = [k \in Keys |-> Absent] /\ session' = FALSE
    /\ misled' = misled \cup Cached
    /\ UNCHANGED <<cache, request, served>>

Serve(c) ==
    \/ \E k \in Keys : Get(c, k) \/ Delete(c, k) \/ \E v \in Values : Put(c, k, v)
    \/ DropExpired(c) \/ ReadComb(c) \/ Fill(c)
    \/ WriteComb(c) \/ DeleteFromComb(c) \/ Invalidate(c)

CacheNext ==
    \/ \E c \in Clients : Serve(c)
    \/ \E k \in Keys : Expire(k) \/ \E v \in Values \cup {Absent} : ForeignChange(k, v)
    \/ ClearSession

CacheSpec == CacheInit /\ [][CacheNext]_cacheVars

--------------------------------------------------------------------------------
CacheTypeOK ==
    /\ stored \in [Keys -> Values \cup {Absent}] /\ session \in BOOLEAN
    /\ data \in [Keys -> Values \cup {Absent}]
    /\ insertOrder \in Seq(Keys)
    /\ expired \subseteq Cached
    /\ request \in [Clients -> [step : {"none", "dropping", "reading", "filling",
                                        "writing", "deleting", "invalidating"},
                                key : Keys \cup {NoKey}, value : Values \cup {Absent}]]
    /\ foreign \in 0 .. ForeignBound /\ served \in 0 .. RequestBound

(***************************************************************************)
(* The order of insertion names cached keys only, each once, so that an    *)
(* eviction always frees an entry; and beyond maxSize the cache holds only *)
(* keys that the order has lost, and at most one more: what "Cache up to   *)
(* 1000 keys" in NewKeeper comes to when two misses fill one key.          *)
(***************************************************************************)
EvictionFrees ==
    /\ Range(insertOrder) \subseteq Cached
    /\ IsInjective(insertOrder)
    /\ Cardinality(Cached) > MaxSize => Len(insertOrder) <= 1

(***************************************************************************)
(* A cached value that is not Comb's is one of three: a fill that lost a   *)
(* race with a write, a change made by somebody else, or a write of this   *)
(* Keeper that has still to invalidate it.                                 *)
(***************************************************************************)
StaleForAReason ==
    \A k \in Cached \ misled :
        data[k] = stored[k] \/ \E c \in Clients : At(c, "invalidating") /\ request[c].key = k

================================================================================
