---------------------------------- MODULE Comb ----------------------------------
(***************************************************************************)
(* The Comb: the memory the agents of a session share (internal/comb).     *)
(* Sessions are independent of each other, so this is one session's.       *)
(* Every operation of the store holds the lock throughout, except that Get *)
(* and Exists, when they meet a value that has expired, unlock and lock    *)
(* again to delete it.  The structured operations (structured.go) are made *)
(* of several calls of Get and Set.  A value is a sequence and its length  *)
(* the number of its bytes.                                                *)
(***************************************************************************)
EXTENDS Integers, Sequences, FiniteSetsExt, SequencesExt

CONSTANTS
    Clients,
    Plain,      \* keys clients set, increment and delete themselves
    Messages,   \* messages of the conversation
    Artifacts,  \* names of artifacts
    States,     \* states of the session's state machine
    Strings,    \* the values clients set
    Digit,      \* what numbers are made of
    Limits,     \* the memory limits that are set
    Unlimited,
    CallBound   \* bound of the model: calls

Data(a) == <<"_artifact", a>>
Conversation == <<"_conversation">>
ArtifactList == <<"_artifacts">>
State == <<"_state">>
History == <<"_state_history">>

Reserved == {Data(a) : a \in Artifacts} \cup {Conversation, ArtifactList, State, History}
Keys == Plain \cup Reserved
Items == Messages \cup Artifacts \cup States
Values == Strings \cup Seq(Items) \cup Seq({Digit})

\* What clients name themselves is not one of the names that structured.go
\* makes up.
ASSUME KeysAssumption == Plain \cap Reserved = {} /\ IsFiniteSet(Plain \cup Artifacts)
ASSUME StringsAssumption == \A v \in Strings : v \in Seq(Items \cup {Digit}) /\ v # <<>>
ASSUME LimitsAssumption == Limits \subseteq Nat /\ Unlimited \notin Nat
ASSUME CallAssumption == CallBound \in Nat

VARIABLES
    data,     \* the value of each key and whether it expires
    made,     \* the session has a map of keys
    usage,    \* memoryUsage
    limit,    \* memoryLimits
    pending,  \* the call each client is in the middle of
    counted,  \* since the map was last empty no Incr has made a value longer
              \* and no Clear was cut short
    erased,   \* keys a client has ever deleted or cleared
    calls

combVars == <<data, made, usage, limit, pending, counted, erased, calls>>
ghosts == <<counted, erased>>

Gone == [value |-> <<>>, ttl |-> "gone"]
Free == [step |-> "none", key |-> Conversation, item |-> Unlimited, got |-> <<>>]

CombInit ==
    /\ data = [k \in Keys |-> Gone]
    /\ made = FALSE
    /\ usage = 0
    /\ limit = Unlimited
    /\ pending = [c \in Clients |-> Free]
    /\ counted = TRUE
    /\ erased = {}
    /\ calls = CallBound

Has(k) == data[k].ttl # "gone"
Size(k) == Len(data[k].value)
Content == MapThenSumSet(Size, Keys)

\* What Get answers, the empty sequence when it fails.
Found(k) == IF data[k].ttl = "over" THEN <<>> ELSE data[k].value

BeginCall(c) == pending[c] = Free /\ calls > 0 /\ calls' = calls - 1
Finish(c) == pending' = [pending EXCEPT ![c] = Free]

--------------------------------------------------------------------------------
(* The store's own operations.                                             *)

\* Mutant: only the new value is compared with the limit.
FitsAlone(k, v) == limit = Unlimited \/ Len(v) <= limit

Fits(k, v) == limit = Unlimited \/ usage - Size(k) + Len(v) <= limit

\* Set, or its refusal, which has made the map nevertheless.
Put(k, v, ttl) ==
    /\ made' = TRUE
    /\ IF Fits(k, v)
       THEN data' = [data EXCEPT ![k] = [value |-> v, ttl |-> ttl]]
            /\ usage' = usage - Size(k) + Len(v)
       ELSE UNCHANGED <<data, usage>>
    /\ UNCHANGED limit

Drop(K) ==
    /\ data' = [k \in Keys |-> IF k \in K THEN Gone ELSE data[k]]
    /\ usage' = usage - MapThenSumSet(Size, K)

Set(c, k, v, ttl) ==
    /\ BeginCall(c)
    /\ Put(k, v, ttl)
    /\ UNCHANGED <<pending, ghosts>>

Delete(c, k) ==
    /\ BeginCall(c)
    /\ Has(k)
    /\ Drop({k})
    /\ erased' = erased \cup {k}
    /\ UNCHANGED <<made, limit, pending, counted>>

\* Mutant: the value is not looked at.
IncrAnything(c, k) ==
    /\ BeginCall(c)
    /\ data' = [data EXCEPT ![k] = [value |-> Append(@.value, Digit),
                                    ttl |-> IF Has(k) THEN @.ttl ELSE "none"]]
    /\ made' = TRUE
    /\ counted' = FALSE
    /\ UNCHANGED <<usage, limit, pending, erased>>

\* A number may get a digit more, even one that has expired; a value that is
\* not a number is left as it is.
Incr(c, k) ==
    /\ BeginCall(c)
    /\ \/ ~Has(k) /\ data' = [data EXCEPT ![k] = [value |-> <<Digit>>, ttl |-> "none"]]
       \/ /\ Has(k) /\ data[k].value \in Seq({Digit})
          /\ \E more \in {<<>>, <<Digit>>} : data' = [data EXCEPT ![k].value = @ \o more]
       \/ Has(k) /\ data[k].value \notin Seq({Digit}) /\ UNCHANGED data
    /\ made' = TRUE
    /\ counted' = (counted /\ Len(data'[k].value) = Size(k))
    /\ UNCHANGED <<usage, limit, pending, erased>>

(* The context of the request may be cancelled before all keys are gone.   *)
Clear(c) ==
    /\ BeginCall(c)
    /\ made
    /\ \E K \in SUBSET {k \in Keys : Has(k)} :
          /\ data' = [k \in Keys |-> IF k \in K THEN Gone ELSE data[k]]
          /\ erased' = erased \cup K
          /\ counted' = (\A k \in Keys : Has(k) => k \in K)
    /\ usage' = 0
    /\ UNCHANGED <<made, limit, pending>>

SetMemoryLimit(c, l) ==
    /\ BeginCall(c)
    /\ limit' = l
    /\ UNCHANGED <<data, made, usage, pending, ghosts>>

\* Get and Exists: the value has expired, and the lock is given up.
MeetExpired(c, k) ==
    /\ BeginCall(c)
    /\ data[k].ttl = "over"
    /\ pending' = [pending EXCEPT ![c] = [step |-> "evict", key |-> k, item |-> Unlimited,
                                          got |-> data[k].value]]
    /\ UNCHANGED <<data, made, usage, limit, ghosts>>

\* Mutant: what is given back is the size of the value that had expired.
EvictRemembered(c) ==
    /\ pending[c].step = "evict"
    /\ data' = [data EXCEPT ![pending[c].key] = Gone]
    /\ usage' = usage - Len(pending[c].got)
    /\ Finish(c)
    /\ UNCHANGED <<made, limit, ghosts, calls>>

\* Whatever the key holds now is deleted.
Evict(c) ==
    /\ pending[c].step = "evict"
    /\ Drop({pending[c].key})
    /\ Finish(c)
    /\ UNCHANGED <<made, limit, ghosts, calls>>

Expire(k) ==
    /\ data[k].ttl = "running"
    /\ data' = [data EXCEPT ![k].ttl = "over"]
    /\ UNCHANGED <<made, usage, limit, pending, ghosts, calls>>

ExpireKeys ==
    LET K == {k \in Keys : data[k].ttl = "over"}
    IN  /\ K # {}
        /\ Drop(K)
        /\ UNCHANGED <<made, limit, pending, ghosts, calls>>

--------------------------------------------------------------------------------
(* The structured operations: what is put back is what was read, extended. *)

Go(c, step, k, item, got) ==
    pending' = [pending EXCEPT ![c] = [step |-> step, key |-> k, item |-> item, got |-> got]]

AppendConversation(c, m) ==
    /\ BeginCall(c)
    /\ Go(c, "put", Conversation, m, Found(Conversation))
    /\ UNCHANGED <<data, made, usage, limit, ghosts>>

\* Mutant: the refusal of the data is ignored.
StoreArtifactAnyway(c, a) ==
    /\ BeginCall(c)
    /\ Put(Data(a), <<a>>, "none")
    /\ Go(c, "read", ArtifactList, a, <<>>)
    /\ UNCHANGED ghosts

StoreArtifact(c, a) ==
    /\ BeginCall(c)
    /\ Put(Data(a), <<a>>, "none")
    /\ IF Fits(Data(a), <<a>>) THEN Go(c, "read", ArtifactList, a, <<>>) ELSE UNCHANGED pending
    /\ UNCHANGED ghosts

\* Get's answer for a session without a map is an error TransitionState
\* does not expect: nothing happens.
TransitionState(c, from, to) ==
    /\ BeginCall(c)
    /\ made
    /\ Found(State) \in {<<>>, <<from>>}
    /\ Go(c, "enter", State, to, <<>>)
    /\ UNCHANGED <<data, made, usage, limit, ghosts>>

EnterState(c) ==
    LET v == <<pending[c].item>>
    IN  /\ pending[c].step = "enter"
        /\ Put(State, v, "none")
        /\ IF Fits(State, v) THEN Go(c, "read", History, pending[c].item, <<>>) ELSE Finish(c)
        /\ UNCHANGED <<ghosts, calls>>

Read(c) ==
    /\ pending[c].step = "read"
    /\ Go(c, "put", pending[c].key, pending[c].item, Found(pending[c].key))
    /\ UNCHANGED <<data, made, usage, limit, ghosts, calls>>

\* An artifact that is listed already keeps its place.
Extended(k, got, item) ==
    IF k = ArtifactList /\ Contains(got, item) THEN got ELSE Append(got, item)

PutBack(c) ==
    LET k == pending[c].key
    IN  /\ pending[c].step = "put"
        /\ Put(k, Extended(k, pending[c].got, pending[c].item), "none")
        /\ Finish(c)
        /\ UNCHANGED <<ghosts, calls>>

Call(c) ==
    \/ \E k \in Plain, v \in Strings, ttl \in {"none", "running"} : Set(c, k, v, ttl)
    \/ \E k \in Plain : Delete(c, k) \/ Incr(c, k)
    \/ Clear(c)
    \/ \E l \in Limits : SetMemoryLimit(c, l)
    \/ \E k \in Plain : MeetExpired(c, k)
    \/ \E m \in Messages : AppendConversation(c, m)
    \/ \E a \in Artifacts : StoreArtifact(c, a)
    \/ \E from, to \in States : TransitionState(c, from, to)

ContinueCall(c) == Evict(c) \/ EnterState(c) \/ Read(c) \/ PutBack(c)

CombNext ==
    \/ \E c \in Clients : Call(c) \/ ContinueCall(c)
    \/ \E k \in Plain : Expire(k)
    \/ ExpireKeys

CombSpec == CombInit /\ [][CombNext]_combVars

--------------------------------------------------------------------------------
CombTypeOK ==
    /\ \A k \in Keys : data[k].value \in Values /\ data[k].ttl \in {"gone", "none", "running", "over"}
    /\ \A k \in Keys \ Plain : data[k].ttl \in {"gone", "none"}
    /\ {made, counted} \subseteq BOOLEAN
    /\ usage \in Int
    /\ limit \in Limits \cup {Unlimited}
    /\ \A c \in Clients : pending[c].step \in {"none", "evict", "enter", "read", "put"}
                          /\ pending[c].key \in Keys /\ pending[c].got \in Values
    /\ erased \subseteq Keys
    /\ calls \in 0 .. CallBound

(***************************************************************************)
(* memoryUsage is the size of what the session holds, however Set, Delete, *)
(* Clear, expireKeys and the deletion that Get does after its unlock       *)
(* interleave - as long as no Incr makes a value longer, which it does     *)
(* without counting it, and no Clear that is cut short keeps a value.      *)
(***************************************************************************)
UsageIsContent == counted => usage = Content

(***************************************************************************)
(* docs/ARCHITECTURE.md: "Memory limits per session".  No call makes the   *)
(* session hold more than the limit that is set.                           *)
(***************************************************************************)
WithinLimit ==
    [][Content' > Content /\ counted' /\ limit # Unlimited => Content' <= limit]_combVars

(***************************************************************************)
(* An artifact that ListArtifacts shows has its data, although StoreArtifact *)
(* is three calls any of which the limit may refuse - unless a client has  *)
(* erased it.                                                              *)
(***************************************************************************)
ListedIsStored ==
    \A a \in Artifacts : Contains(data[ArtifactList].value, a) =>
        Has(Data(a)) \/ Data(a) \in erased

================================================================================
