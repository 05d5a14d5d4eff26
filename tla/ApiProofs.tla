-------------------------------- MODULE ApiProofs --------------------------------
(***************************************************************************)
(* Api: what the handlers of both APIs keep of the store and of the dead   *)
(* letter queue, for any callers, hives, drones, stages and quota.         *)
(***************************************************************************)
EXTENDS Api, SequenceTheorems, FiniteSetTheorems, TLAPS

--------------------------------------------------------------------------------
(* What a key holds, and what a call holds that has read it.               *)

HiveDocs == [stages : [Stages -> Nat], guardrails : GuardrailConfigs]
SpecDocs == [scaling : ScalingConfigs, guardrails : GuardrailConfigs]
CellDocs == [quota : ResourceQuotas]
SpecMessages == [scaling : ScalingConfigs \cup {Missing}, guardrails : GuardrailConfigs]

\* The keys whose parts calls are about.
Edits == Hives \cup {"cell", "spec"}

Docs(k) == CASE k = "cell" -> CellDocs [] k = "spec" -> SpecDocs [] OTHER -> HiveDocs

CallRecords ==
    [step : Steps, via : {"none", "rest", "grpc"}, key : Keys \cup {NoKey},
     held : HiveDocs \cup SpecDocs \cup CellDocs \cup SpecMessages \cup Nat \cup {"stopping", NoKey},
     then : {"none", "delete", "poll", "purge", "sweep"},
     sets : SUBSET (Stages \cup {"budget", "scaling"}), stale : BOOLEAN, todo : SUBSET Drones]

\* What a call that has read a resource is going to write.
Doc(call) ==
    IF call.via = "grpc" /\ call.step = "put"
    THEN CASE call.key = "cell" -> CellFromProto(call.held)
           [] call.key = "spec" -> AgentSpecFromProto(call.held)
           [] OTHER -> HiveFromProto(call.held)
    ELSE call.held

\* What writing doc over old changes for no reason of the call's own.
Excused(call, old, p) ==
    p \in call.sets \/ (call.via = "grpc" /\ call.step = "put" /\ LostByConversion(old, p))

KeyOfStep(call) ==
    /\ call.step \in {"post", "count", "create"} => call.key \in Hives
    /\ call.step = "scale" => call.key \in Hives \cup {"spec"}
    /\ call.step = "put" => call.key \in Edits
    /\ call.step \in {"mark", "poll", "delete", "purge"} => call.key \in Drones
    /\ call.step = "mark" => call.then \in {"delete", "poll"}

\* A call counts the hives against a quota that was in force.
CountsQuota(call, g) ==
    call.step = "count" => call.held \in Nat /\ (g > 0 => call.held \in 1 .. g)

\* A call whose resource nobody has written since it read it changes the parts
\* it is about.
WritesWhatItRead(call, st) ==
    call.step \in {"put", "scale"} =>
        /\ Doc(call) \in Docs(call.key)
        /\ ~call.stale /\ call.key \in DOMAIN st =>
              \A p \in Parts(call.key) :
                 Part(Doc(call), p) # Part(st[call.key], p) => Excused(call, st[call.key], p)

Sound(call, st, g) ==
    KeyOfStep(call) /\ CountsQuota(call, g) /\ WritesWhatItRead(call, st)

--------------------------------------------------------------------------------
Creators == {c \in Clients : calls[c].step = "create"}

StoreInv ==
    /\ DOMAIN store \subseteq Keys
    /\ \A k \in DOMAIN store \cap Edits : store[k] \in Docs(k)

QuotaInv ==
    /\ granted \in Nat
    /\ granted > 0 => "cell" \in DOMAIN store /\ store["cell"].quota.hives \in 1 .. granted
    /\ IsFiniteSet(StoredHives)
    /\ HivesWithinQuota

CallsInv ==
    /\ calls \in [Clients -> CallRecords]
    /\ \A c \in Clients : Sound(calls[c], store, granted)

ServerInv == StoreInv /\ QuotaInv /\ CallsInv

\* What PartsChangeForAReason and DeletedStays say of a step.
PartsReason ==
    \A k \in DOMAIN store \cap DOMAIN store' : \A p \in Parts(k) :
        Part(store'[k], p) # Part(store[k], p) =>
            \E c \in Clients :
               /\ calls[c].key = k
               /\ \/ p \in calls[c].sets
                  \/ calls[c].stale
                  \/ calls[c].via = "grpc" /\ calls[c].step = "put" /\ LostByConversion(store[k], p)

GoneStays == \A d \in Drones : d \notin DOMAIN store => d \notin DOMAIN store'

\* Only messages that are asked for are taken out of the queue.
QueueReason ==
    \/ UNCHANGED <<letters, arrived, withdrawn>>
    \/ \E c \in Clients : HTTP!DeleteDLQMessage(c) \/ HTTP!ClearDLQ(c)

Good == ServerInv' /\ PartsReason /\ GoneStays /\ QueueReason


--------------------------------------------------------------------------------
(* What no write of another call and no write of its own disturbs.         *)

\* What a handler may write at k: nothing else changes, only a call that is
\* creating a hive brings one, nothing brings a drone, and the parts of what is
\* there change for a reason.
WriteOK(c, k, new) ==
    /\ DOMAIN new \subseteq DOMAIN store \cup {k}
    /\ DOMAIN store \ {k} \subseteq DOMAIN new
    /\ \A j \in DOMAIN new : j # k => new[j] = store[j]
    /\ k \in DOMAIN new \ DOMAIN store =>
          k \notin Drones /\ (k \in Hives => calls[c].step = "create" /\ calls[c].key = k)
    /\ k \in DOMAIN new \cap Edits => new[k] \in Docs(k)
    /\ k \in DOMAIN new \cap DOMAIN store =>
          \A p \in Parts(k) : Part(new[k], p) # Part(store[k], p) =>
              /\ calls[c].key = k
              /\ \/ p \in calls[c].sets
                 \/ calls[c].stale
                 \/ calls[c].via = "grpc" /\ calls[c].step = "put" /\ LostByConversion(store[k], p)

LEMMA KeysApart ==
    /\ NoKey \notin Keys
    /\ Edits \subseteq Keys /\ Drones \subseteq Keys /\ Hives \subseteq Edits
    /\ Edits \cap Drones = {} /\ "cell" \notin Hives /\ "spec" \notin Hives
    /\ "secret" \notin Edits \cup Drones
    /\ {"cell", "spec"} \subseteq Edits /\ Kinds \subseteq Keys
BY NamesAssumption DEF Keys, Kinds, Edits

LEMMA ContinueStep ==
    ASSUME ServerInv, NEW c \in Clients, NEW call \in CallRecords,
           Sound(call, store, granted), call.step = "create" => calls[c].step = "create",
           Continue(c, call)
    PROVE  Good
<1>1. /\ store' = store /\ granted' = granted
      /\ calls' \in [Clients -> CallRecords]
      /\ calls'[c] = call /\ \A d \in Clients \ {c} : calls'[d] = calls[d]
    BY DEF Continue, ServerInv, CallsInv
<1>2. StoreInv'
    BY <1>1 DEF StoreInv, ServerInv
<1>3. CallsInv'
    <2>1. ASSUME NEW d \in Clients PROVE Sound(calls'[d], store, granted)
        BY <1>1 DEF ServerInv, CallsInv
    <2> QED
        BY <1>1, <2>1 DEF CallsInv
<1>4. Creators' \subseteq Creators
    BY <1>1 DEF Creators
<1>5. QuotaInv'
    <2>1. /\ IsFiniteSet(Creators) /\ Cardinality(Creators') \in Nat
          /\ Cardinality(Creators') <= Cardinality(Creators) /\ Cardinality(Creators) \in Nat
        <3>1. IsFiniteSet(Creators)
            BY ClientsAssumption, FS_Subset DEF Creators
        <3> QED
            BY <1>4, <3>1, FS_Subset, FS_CardinalityType
    <2>2. StoredHives' = StoredHives /\ Cardinality(StoredHives) \in Nat /\ Cardinality(Clients) \in Nat
        BY <1>1, ClientsAssumption, FS_CardinalityType DEF StoredHives, ServerInv, QuotaInv
    <2>3. HivesWithinQuota'
        BY <1>1, <2>1, <2>2 DEF ServerInv, QuotaInv, HivesWithinQuota, Creators
    <2> QED
        BY <1>1, <2>2, <2>3 DEF ServerInv, QuotaInv
<1>6. PartsReason /\ GoneStays /\ QueueReason
    BY <1>1 DEF PartsReason, GoneStays, QueueReason, Continue
<1> QED
    BY <1>2, <1>3, <1>5, <1>6 DEF Good, ServerInv

\* The step that lets a hive be created.
LEMMA AdmitStep ==
    ASSUME ServerInv, NEW c \in Clients, calls[c].step = "count", ~QuotaReached(calls[c].held),
           Continue(c, [calls[c] EXCEPT !.step = "create"])
    PROVE  Good
<1> DEFINE call == [calls[c] EXCEPT !.step = "create"]
<1>1. /\ calls[c] \in CallRecords /\ Sound(calls[c], store, granted)
      /\ calls[c].held \in Nat /\ (granted > 0 => calls[c].held \in 1 .. granted)
      /\ calls[c].key \in Hives
    BY DEF ServerInv, CallsInv, Sound, CountsQuota, KeyOfStep
<1>2. /\ call \in CallRecords /\ call.step = "create" /\ call.key = calls[c].key
    BY <1>1 DEF CallRecords, Steps
<1> HIDE DEF call
<1>3. Sound(call, store, granted)
    BY <1>1, <1>2 DEF Sound, CountsQuota, KeyOfStep, WritesWhatItRead
<1>4. /\ store' = store /\ granted' = granted
      /\ calls' \in [Clients -> CallRecords]
      /\ calls'[c] = call /\ \A d \in Clients \ {c} : calls'[d] = calls[d]
    BY <1>2 DEF Continue, ServerInv, CallsInv, call
<1>5. StoreInv'
    BY <1>4 DEF StoreInv, ServerInv
<1>6. CallsInv'
    <2>1. ASSUME NEW d \in Clients PROVE Sound(calls'[d], store, granted)
        BY <1>3, <1>4 DEF ServerInv, CallsInv
    <2> QED
        BY <1>4, <2>1 DEF CallsInv
<1>7. QuotaInv'
    <2>1. Cardinality(Creators') \in Nat /\ Cardinality(Creators') <= Cardinality(Clients)
          /\ Cardinality(Clients) \in Nat
        BY ClientsAssumption, FS_Subset, FS_CardinalityType DEF Creators
    <2>2. StoredHives' = StoredHives /\ Cardinality(StoredHives) \in Nat
        BY <1>4, FS_CardinalityType DEF StoredHives, ServerInv, QuotaInv
    <2>3. granted \in Nat /\ (granted > 0 => Cardinality(StoredHives) < granted)
        BY <1>1, <2>2 DEF QuotaReached, ServerInv, QuotaInv
    <2>4. HivesWithinQuota'
        BY <1>4, <2>1, <2>2, <2>3 DEF HivesWithinQuota, Creators
    <2> QED
        BY <1>4, <2>2, <2>4 DEF ServerInv, QuotaInv
<1>8. PartsReason /\ GoneStays /\ QueueReason
    BY <1>4 DEF PartsReason, GoneStays, QueueReason, Continue
<1> QED
    BY <1>5, <1>6, <1>7, <1>8 DEF Good, ServerInv


LEMMA CommitStep ==
    ASSUME ServerInv, NEW c \in Clients, NEW k \in Keys, NEW new, NEW call \in CallRecords,
           WriteOK(c, k, new), call.step \notin {"create", "count", "put", "scale"}, KeyOfStep(call),
           Commit(c, k, new, call)
    PROVE  Good
<1>1. /\ store' = new
      /\ calls' = [d \in Clients |->
                      IF d = c THEN call
                      ELSE IF calls[d].key = k /\ new # store THEN [calls[d] EXCEPT !.stale = TRUE]
                           ELSE calls[d]]
    BY DEF Commit
<1>2. \A d \in Clients : calls[d] \in CallRecords /\ Sound(calls[d], store, granted)
    BY DEF ServerInv, CallsInv
<1>3. calls'[c] = call
    BY <1>1
<1>4. ASSUME NEW d \in Clients, d # c
      PROVE  /\ calls'[d] \in CallRecords
             /\ calls'[d] = calls[d] \/ calls'[d] = [calls[d] EXCEPT !.stale = TRUE]
             /\ calls[d].key = k /\ new # store => calls'[d] = [calls[d] EXCEPT !.stale = TRUE]
    <2>1. [calls[d] EXCEPT !.stale = TRUE] \in CallRecords
        BY <1>2 DEF CallRecords
    <2>2. CASE calls[d].key = k /\ new # store
        BY <1>1, <1>4, <2>1, <2>2
    <2>3. CASE ~(calls[d].key = k /\ new # store)
        BY <1>1, <1>2, <1>4, <2>3
    <2> QED
        BY <2>2, <2>3
<1>5. ASSUME NEW d \in Clients, d # c
      PROVE  /\ calls'[d].step = calls[d].step /\ calls'[d].key = calls[d].key
             /\ calls'[d].via = calls[d].via /\ calls'[d].held = calls[d].held
             /\ calls'[d].sets = calls[d].sets /\ calls'[d].then = calls[d].then
             /\ ~calls'[d].stale => ~calls[d].stale /\ ~(calls[d].key = k /\ new # store)
    <2>1. calls[d] \in CallRecords
        BY <1>2
    <2>2. CASE calls'[d] = [calls[d] EXCEPT !.stale = TRUE]
        BY <2>1, <2>2 DEF CallRecords
    <2>3. CASE calls'[d] = calls[d] /\ ~(calls[d].key = k /\ new # store)
        BY <2>3
    <2> QED
        BY <1>4, <1>5, <2>2, <2>3
<1>6. calls' \in [Clients -> CallRecords]
    BY <1>1, <1>3, <1>4
<1>7. \A j \in DOMAIN new : j # k => j \in DOMAIN store /\ new[j] = store[j]
    BY DEF WriteOK
<1>8. \A j \in DOMAIN store : j # k => j \in DOMAIN new
    BY DEF WriteOK
<1>9. StoreInv'
    <2>1. DOMAIN new \subseteq Keys
        BY DEF WriteOK, ServerInv, StoreInv
    <2>2. ASSUME NEW j \in DOMAIN new \cap Edits PROVE new[j] \in Docs(j)
        <3>1. CASE j = k
            BY <2>2, <3>1 DEF WriteOK
        <3>2. CASE j # k
            BY <1>7, <2>2, <3>2 DEF ServerInv, StoreInv
        <3> QED
            BY <3>1, <3>2
    <2> QED
        BY <1>1, <2>1, <2>2 DEF StoreInv
\* The largest quota so far.
<1>10. granted \in Nat /\ granted' \in Nat
       /\ (granted' > 0 => granted > 0 /\ granted' >= granted /\ "cell" \in DOMAIN new
                           /\ new["cell"].quota.hives \in 1 .. granted')
    <2>1. granted \in Nat
        BY DEF ServerInv, QuotaInv
    <2>2. ASSUME "cell" \in DOMAIN new PROVE new["cell"].quota.hives \in Nat
        <3>1. new["cell"] \in CellDocs
            BY <1>1, <1>9, <2>2, KeysApart DEF StoreInv, Docs
        <3> QED
            BY <3>1 DEF CellDocs, ResourceQuotas
    <2>3. granted' = IF granted = 0 \/ "cell" \notin DOMAIN new \/ new["cell"].quota.hives = 0
                     THEN 0
                     ELSE IF new["cell"].quota.hives > granted THEN new["cell"].quota.hives
                          ELSE granted
        BY DEF Commit
    <2>4. CASE granted = 0 \/ "cell" \notin DOMAIN new \/ new["cell"].quota.hives = 0
        BY <2>1, <2>3, <2>4
    <2>5. CASE ~(granted = 0 \/ "cell" \notin DOMAIN new \/ new["cell"].quota.hives = 0)
        <3> DEFINE h == new["cell"].quota.hives
        <3>1. h \in Nat /\ h # 0 /\ granted # 0 /\ "cell" \in DOMAIN new
            BY <2>2, <2>5
        <3>2. granted' = IF h > granted THEN h ELSE granted
            BY <2>3, <2>5
        <3> HIDE DEF h
        <3>3. granted' \in Nat /\ granted' >= granted /\ h \in 1 .. granted'
            BY <2>1, <3>1, <3>2
        <3> QED
            BY <2>1, <3>1, <3>3 DEF h
    <2> QED
        BY <2>4, <2>5
<1>11. CallsInv'
    <2>1. Sound(call, new, granted')
        BY DEF Sound, CountsQuota, WritesWhatItRead
    <2>2. ASSUME NEW d \in Clients, d # c PROVE Sound(calls'[d], new, granted')
        <3>1. KeyOfStep(calls'[d])
            BY <1>2, <1>5, <2>2 DEF Sound, KeyOfStep
        <3>2. CountsQuota(calls'[d], granted')
            BY <1>2, <1>5, <1>10, <2>2 DEF Sound, CountsQuota
        <3>3. WritesWhatItRead(calls'[d], new)
            <4>1. Doc(calls'[d]) = Doc(calls[d])
                BY <1>5, <2>2 DEF Doc
            <4>2. \A old, p : Excused(calls'[d], old, p) <=> Excused(calls[d], old, p)
                BY <1>5, <2>2 DEF Excused
            <4>3. ASSUME ~calls'[d].stale, calls'[d].key \in DOMAIN new
                  PROVE  /\ ~calls[d].stale /\ calls[d].key \in DOMAIN store
                         /\ new[calls[d].key] = store[calls[d].key]
                <5>1. ~calls[d].stale /\ (calls[d].key = k => new = store)
                    BY <1>5, <2>2, <4>3
                <5> QED
                    BY <1>5, <1>7, <2>2, <4>3, <5>1
            <4> SUFFICES ASSUME calls'[d].step \in {"put", "scale"}
                         PROVE  /\ Doc(calls'[d]) \in Docs(calls'[d].key)
                                /\ ~calls'[d].stale /\ calls'[d].key \in DOMAIN new =>
                                      \A p \in Parts(calls'[d].key) :
                                         Part(Doc(calls'[d]), p) # Part(new[calls'[d].key], p) =>
                                            Excused(calls'[d], new[calls'[d].key], p)
                BY DEF WritesWhatItRead
            <4>4. WritesWhatItRead(calls[d], store) /\ calls[d].step \in {"put", "scale"}
                BY <1>2, <1>5, <2>2 DEF Sound
            <4>5. Doc(calls'[d]) \in Docs(calls'[d].key)
                BY <1>5, <2>2, <4>1, <4>4 DEF WritesWhatItRead
            <4>6. ASSUME ~calls'[d].stale, calls'[d].key \in DOMAIN new,
                         NEW p \in Parts(calls'[d].key),
                         Part(Doc(calls'[d]), p) # Part(new[calls'[d].key], p)
                  PROVE  Excused(calls'[d], new[calls'[d].key], p)
                <5>1. calls'[d].key = calls[d].key
                    BY <1>5, <2>2
                <5>2. /\ ~calls[d].stale /\ calls[d].key \in DOMAIN store
                      /\ new[calls[d].key] = store[calls[d].key]
                    BY <4>3, <4>6
                <5>3. Part(Doc(calls[d]), p) # Part(store[calls[d].key], p)
                    BY <4>1, <4>6, <5>1, <5>2
                <5>4. Excused(calls[d], store[calls[d].key], p)
                    BY <4>4, <4>6, <5>1, <5>2, <5>3 DEF WritesWhatItRead
                <5> QED
                    BY <4>2, <5>1, <5>2, <5>4
            <4> QED
                BY <4>5, <4>6
        <3> QED
            BY <3>1, <3>2, <3>3 DEF Sound
    <2> QED
        BY <1>1, <1>3, <1>6, <2>1, <2>2 DEF CallsInv
<1>12. QuotaInv'
    <2>1. Creators' \subseteq Creators \ {c}
        BY <1>3, <1>5 DEF Creators
    <2>2. IsFiniteSet(Creators) /\ IsFiniteSet(Creators \ {c}) /\ IsFiniteSet(Creators')
        BY <2>1, ClientsAssumption, FS_Subset DEF Creators
    <2>3. /\ Cardinality(Creators') \in Nat /\ Cardinality(Creators \ {c}) \in Nat
          /\ Cardinality(Creators) \in Nat /\ Cardinality(Clients) \in Nat
          /\ Cardinality(Creators') <= Cardinality(Creators \ {c})
          /\ Cardinality(Creators \ {c}) = IF c \in Creators THEN Cardinality(Creators) - 1
                                           ELSE Cardinality(Creators)
        BY <2>1, <2>2, ClientsAssumption, FS_Subset, FS_CardinalityType, FS_RemoveElement
    <2>4. IsFiniteSet(StoredHives) /\ Cardinality(StoredHives) \in Nat
        BY FS_CardinalityType DEF ServerInv, QuotaInv
    <2>5. /\ IsFiniteSet(StoredHives') /\ Cardinality(StoredHives') \in Nat
          /\ Cardinality(StoredHives') + Cardinality(Creators')
               <= Cardinality(StoredHives) + Cardinality(Creators)
        <3>1. CASE k \in Hives \cap (DOMAIN new \ DOMAIN store)
            <4>1. StoredHives' \subseteq StoredHives \cup {k} /\ c \in Creators
                BY <1>1, <1>7, <3>1 DEF StoredHives, WriteOK, Creators
            <4>2. IsFiniteSet(StoredHives \cup {k})
                  /\ Cardinality(StoredHives \cup {k}) <= Cardinality(StoredHives) + 1
                  /\ Cardinality(StoredHives \cup {k}) \in Nat
                <5>1. k \notin StoredHives
                    BY <3>1 DEF StoredHives
                <5> QED
                    BY <2>4, <5>1, FS_AddElement
            <4>3. /\ IsFiniteSet(StoredHives') /\ Cardinality(StoredHives') \in Nat
                  /\ Cardinality(StoredHives') <= Cardinality(StoredHives \cup {k})
                BY <4>1, <4>2, FS_Subset, FS_CardinalityType
            <4> QED
                BY <2>3, <2>4, <4>1, <4>2, <4>3
        <3>2. CASE k \notin Hives \cap (DOMAIN new \ DOMAIN store)
            <4>1. StoredHives' \subseteq StoredHives
                BY <1>1, <1>7, <3>2 DEF StoredHives
            <4>2. /\ IsFiniteSet(StoredHives') /\ Cardinality(StoredHives') \in Nat
                  /\ Cardinality(StoredHives') <= Cardinality(StoredHives)
                BY <2>4, <4>1, FS_Subset, FS_CardinalityType
            <4> QED
                BY <2>3, <2>4, <4>2
        <3> QED
            BY <3>1, <3>2
    <2>6. HivesWithinQuota'
        BY <1>10, <2>3, <2>4, <2>5 DEF HivesWithinQuota, Creators, ServerInv, QuotaInv
    <2> QED
        BY <1>1, <1>10, <2>5, <2>6 DEF QuotaInv
<1>13. PartsReason
    <2> SUFFICES ASSUME NEW j \in DOMAIN store \cap DOMAIN new, NEW p \in Parts(j),
                        Part(new[j], p) # Part(store[j], p)
                 PROVE  \E d \in Clients :
                           /\ calls[d].key = j
                           /\ \/ p \in calls[d].sets
                              \/ calls[d].stale
                              \/ /\ calls[d].via = "grpc" /\ calls[d].step = "put"
                                 /\ LostByConversion(store[j], p)
        BY <1>1 DEF PartsReason
    <2>1. j = k
        BY <1>7
    <2> QED
        BY <2>1 DEF WriteOK
<1>14. GoneStays /\ QueueReason
    BY <1>1, <1>7 DEF GoneStays, WriteOK, QueueReason, Commit
<1> QED
    BY <1>9, <1>11, <1>12, <1>13, <1>14 DEF Good, ServerInv


--------------------------------------------------------------------------------
(* What the store's operations write, and the calls that handlers go on to. *)

LEMMA WriteCreated ==
    ASSUME NEW c \in Clients, NEW k \in Keys \ Drones, NEW doc,
           k \in Edits => doc \in Docs(k),
           k \in Hives => calls[c].step = "create" /\ calls[c].key = k, StoreInv
    PROVE  WriteOK(c, k, Created(k, doc))
<1> DEFINE new == Created(k, doc)
<1>1. CASE k \in DOMAIN store
    <2>1. new = store
        BY <1>1 DEF Created
    <2> QED
        BY <2>1 DEF WriteOK, StoreInv
<1>2. CASE k \notin DOMAIN store
    <2>1. /\ DOMAIN new = DOMAIN store \cup {k} /\ new[k] = doc
          /\ \A j \in DOMAIN store : j # k /\ new[j] = store[j]
        BY <1>2 DEF Created
    <2> HIDE DEF new
    <2>2. WriteOK(c, k, new)
        BY <1>2, <2>1 DEF WriteOK
    <2> QED
        BY <2>2 DEF new
<1> QED
    BY <1>1, <1>2

\* Writing doc at k changes its parts for a reason.
Reasoned(c, k, doc) ==
    k \in DOMAIN store => \A p \in Parts(k) : Part(doc, p) # Part(store[k], p) =>
        /\ calls[c].key = k
        /\ \/ p \in calls[c].sets
           \/ calls[c].stale
           \/ calls[c].via = "grpc" /\ calls[c].step = "put" /\ LostByConversion(store[k], p)

LEMMA WriteUpdated ==
    ASSUME NEW c \in Clients, NEW k \in Keys, NEW doc,
           k \in Edits => doc \in Docs(k), Reasoned(c, k, doc), StoreInv
    PROVE  WriteOK(c, k, Updated(k, doc))
<1> DEFINE new == Updated(k, doc)
<1>1. CASE k \notin DOMAIN store
    <2>1. new = store
        BY <1>1 DEF Updated
    <2> QED
        BY <1>1, <2>1 DEF WriteOK
<1>2. CASE k \in DOMAIN store
    <2>1. /\ DOMAIN new = DOMAIN store /\ new[k] = doc
          /\ \A j \in DOMAIN store : j # k => new[j] = store[j]
        BY <1>2 DEF Updated
    <2> HIDE DEF new
    <2>2. WriteOK(c, k, new)
        BY <1>2, <2>1 DEF WriteOK, Reasoned
    <2> QED
        BY <2>2 DEF new
<1> QED
    BY <1>1, <1>2

\* Nothing that calls are about.
LEMMA NoParts ==
    ASSUME NEW c \in Clients, NEW k \in Keys \ Edits, NEW doc
    PROVE  Reasoned(c, k, doc)
BY KeysApart DEF Reasoned, Parts, Edits

LEMMA WriteDeleted ==
    ASSUME NEW c \in Clients, NEW k \in Keys
    PROVE  WriteOK(c, k, Deleted(k))
<1> DEFINE new == Deleted(k)
<1>1. /\ DOMAIN new = DOMAIN store \ {k}
      /\ \A j \in DOMAIN new : new[j] = store[j]
    BY DEF Deleted, Restrict
<1> HIDE DEF new
<1>2. WriteOK(c, k, new)
    BY <1>1 DEF WriteOK
<1> QED
    BY <1>2 DEF new

LEMMA WriteNothing ==
    ASSUME NEW c \in Clients, NEW k \in Keys, StoreInv
    PROVE  WriteOK(c, k, store)
BY DEF WriteOK, StoreInv

LEMMA NoCallFits ==
    /\ NoCall \in CallRecords /\ NoCall.step = "none" /\ KeyOfStep(NoCall)
    /\ \A st, g : Sound(NoCall, st, g)
BY DEF NoCall, CallRecords, Steps, Sound, KeyOfStep, CountsQuota, WritesWhatItRead

LEMMA CallFits ==
    ASSUME NEW via \in {"rest", "grpc"}, NEW step \in Steps, NEW k \in Keys \cup {NoKey},
           NEW held \in HiveDocs \cup SpecDocs \cup CellDocs \cup SpecMessages \cup Nat
                          \cup {"stopping", NoKey}
    PROVE  /\ Call(via, step, k, held) \in CallRecords
           /\ Call(via, step, k, held).via = via /\ Call(via, step, k, held).step = step
           /\ Call(via, step, k, held).key = k /\ Call(via, step, k, held).held = held
           /\ Call(via, step, k, held).sets = {} /\ Call(via, step, k, held).then = "none"
           /\ Call(via, step, k, held).todo = {}
<1> DEFINE call == Call(via, step, k, held)
<1>1. call = [NoCall EXCEPT !.via = via, !.step = step, !.key = k, !.held = held]
    BY DEF Call
<1>2. NoCall \in CallRecords /\ NoCall.sets = {} /\ NoCall.then = "none" /\ NoCall.todo = {}
    BY NoCallFits DEF NoCall
<1>3. call \in CallRecords
    BY <1>1, <1>2 DEF CallRecords
<1>4. call.via = via /\ call.step = step /\ call.key = k /\ call.held = held
    BY <1>1, <1>2 DEF CallRecords
<1>5. call.sets = NoCall.sets /\ call.then = NoCall.then /\ call.todo = NoCall.todo
    BY <1>1, <1>2 DEF CallRecords
<1> HIDE DEF call
<1>6. call.sets = {} /\ call.then = "none" /\ call.todo = {}
    BY <1>2, <1>5
<1> QED
    BY <1>3, <1>4, <1>6 DEF call

\* A call that goes on to step, and then to its own continuation.
LEMMA CallWith ==
    ASSUME NEW call \in CallRecords,
           NEW then \in {"none", "delete", "poll", "purge", "sweep"}, NEW todo \in SUBSET Drones,
           NEW sets \in SUBSET (Stages \cup {"budget", "scaling"}), NEW step \in Steps
    PROVE  /\ [call EXCEPT !.step = step] \in CallRecords
           /\ [call EXCEPT !.sets = sets] \in CallRecords
           /\ [call EXCEPT !.then = then] \in CallRecords
           /\ [call EXCEPT !.then = then, !.todo = todo] \in CallRecords
           /\ [call EXCEPT !.todo = todo] \in CallRecords
BY DEF CallRecords

--------------------------------------------------------------------------------
(* Resources on their way through the gRPC API and back.                   *)

LEMMA ThroughGuardrails ==
    ASSUME NEW gc \in GuardrailConfigs
    PROVE  LET back == GuardrailConfigFromProto(GuardrailConfigToProto(gc))
           IN  back \in GuardrailConfigs /\ (gc.limit > 0 => back = gc)
BY MissingAssumption DEF GuardrailConfigToProto, GuardrailConfigFromProto, NoGuardrails, GuardrailConfigs

LEMMA CellBack ==
    ASSUME NEW doc \in CellDocs
    PROVE  CellFromProto(doc) = doc /\ CellFromProto(CellToProto(doc)) \in CellDocs
<1>1. doc.quota \in ResourceQuotas /\ doc.quota # Missing /\ doc = [quota |-> doc.quota]
    BY MissingAssumption DEF CellDocs
<1>2. CellFromProto(doc) = doc
    BY <1>1 DEF CellFromProto
<1>3. CellToProto(doc).quota \in ResourceQuotas \cup {Missing}
    BY <1>1 DEF CellToProto
<1> QED
    BY <1>2, <1>3 DEF CellFromProto, CellDocs, ResourceQuotas

LEMMA SpecBack ==
    ASSUME NEW doc \in SpecDocs
    PROVE  /\ AgentSpecFromProto(AgentSpecToProto(doc)) \in SpecDocs
           /\ AgentSpecToProto(doc).scaling \in ScalingConfigs \cup {Missing}
           /\ AgentSpecToProto(doc).guardrails = GuardrailConfigToProto(doc.guardrails)
           /\ AgentSpecFromProto(AgentSpecToProto(doc)).scaling = doc.scaling
<1>1. doc.scaling \in ScalingConfigs /\ doc.guardrails \in GuardrailConfigs /\ doc.scaling # Missing
    BY MissingAssumption DEF SpecDocs
<1>2. /\ AgentSpecToProto(doc).scaling = IF doc.scaling.min > 0 \/ doc.scaling.max > 0
                                         THEN doc.scaling ELSE Missing
      /\ AgentSpecToProto(doc).guardrails = GuardrailConfigToProto(doc.guardrails)
    BY DEF AgentSpecToProto
<1>3. AgentSpecFromProto(AgentSpecToProto(doc)) =
        [scaling |-> IF doc.scaling.min > 0 \/ doc.scaling.max > 0 THEN doc.scaling
                     ELSE [min |-> 0, max |-> 0],
         guardrails |-> GuardrailConfigFromProto(GuardrailConfigToProto(doc.guardrails))]
    BY <1>1, <1>2 DEF AgentSpecFromProto
<1>4. ~(doc.scaling.min > 0 \/ doc.scaling.max > 0) => doc.scaling = [min |-> 0, max |-> 0]
    BY <1>1 DEF ScalingConfigs
<1>5. AgentSpecFromProto(AgentSpecToProto(doc)).scaling = doc.scaling
    BY <1>3, <1>4
<1>6. AgentSpecFromProto(AgentSpecToProto(doc)) \in SpecDocs
    BY <1>1, <1>3, <1>4, ThroughGuardrails DEF SpecDocs
<1> QED
    BY <1>1, <1>2, <1>5, <1>6

LEMMA HiveBack ==
    ASSUME NEW doc \in HiveDocs
    PROVE  /\ HiveFromProto(doc) \in HiveDocs /\ HiveFromProto(doc).guardrails = doc.guardrails
           /\ HiveFromProto(HiveToProto(doc)) \in HiveDocs
           /\ HiveToProto(doc) = [stages |-> [s \in Stages |-> 0],
                                  guardrails |-> GuardrailConfigToProto(doc.guardrails)]
<1>1. /\ doc.stages \in [Stages -> Nat] /\ doc.guardrails \in GuardrailConfigs
      /\ DOMAIN doc.stages = Stages /\ doc.guardrails # Missing
    BY MissingAssumption DEF HiveDocs
<1>2. HiveFromProto(doc) = [stages |-> [s \in Stages |-> 0], guardrails |-> doc.guardrails]
    BY <1>1 DEF HiveFromProto, StageFromProto, GuardrailConfigFromProto
<1>3. HiveToProto(doc) = [stages |-> [s \in Stages |-> 0],
                          guardrails |-> GuardrailConfigToProto(doc.guardrails)]
    BY <1>1 DEF HiveToProto, StageToProto
<1>4. HiveFromProto(HiveToProto(doc)) =
        [stages |-> [s \in Stages |-> 0],
         guardrails |-> GuardrailConfigFromProto(GuardrailConfigToProto(doc.guardrails))]
    BY <1>3 DEF HiveFromProto, StageFromProto
<1> QED
    BY <1>1, <1>2, <1>3, <1>4, ThroughGuardrails DEF HiveDocs


--------------------------------------------------------------------------------
(* The steps of the handlers, which the two APIs share.                    *)

LEMMA CallKnown ==
    ASSUME ServerInv, NEW c \in Clients
    PROVE  calls[c] \in CallRecords /\ Sound(calls[c], store, granted) /\ StoreInv
BY DEF ServerInv, CallsInv

LEMMA EndStep ==
    ASSUME ServerInv, NEW c \in Clients, Continue(c, NoCall)
    PROVE  Good
BY NoCallFits, ContinueStep

LEMMA QuietStep ==
    ASSUME ServerInv, UNCHANGED <<store, calls, granted>>, QueueReason
    PROVE  Good
<1>1. ServerInv'
    BY DEF ServerInv, StoreInv, CallsInv, QuotaInv, HivesWithinQuota, StoredHives
<1> QED
    BY <1>1 DEF Good, PartsReason, GoneStays

\* Creating and deleting what is neither a hive nor a drone, and deleting either.
LEMMA CreateStep ==
    ASSUME ServerInv, NEW c \in Clients, NEW k \in Kinds, NEW doc, k \in Edits => doc \in Docs(k),
           Commit(c, k, Created(k, doc), NoCall)
    PROVE  Good
<1>1. k \in Keys \ Drones /\ k \notin Hives
    BY NamesAssumption DEF Keys
<1>2. WriteOK(c, k, Created(k, doc))
    BY <1>1, CallKnown, WriteCreated
<1> QED
    BY <1>1, <1>2, NoCallFits, CommitStep

LEMMA DeleteStep ==
    ASSUME ServerInv, NEW c \in Clients, NEW k \in Keys, Commit(c, k, Deleted(k), NoCall)
    PROVE  Good
BY WriteDeleted, NoCallFits, CommitStep

\* Updating what is neither read back nor scaled.
LEMMA ReplaceStep ==
    ASSUME ServerInv, NEW c \in Clients, NEW k \in Keys \ Edits, NEW doc,
           Commit(c, k, Updated(k, doc), NoCall)
    PROVE  Good
<1>1. WriteOK(c, k, Updated(k, doc))
    BY CallKnown, NoParts, WriteUpdated
<1> QED
    BY <1>1, NoCallFits, CommitStep

LEMMA QuotaKnown ==
    ASSUME ServerInv
    PROVE  Quota \in Nat /\ (granted > 0 => Quota \in 1 .. granted)
<1>1. CASE "cell" \in DOMAIN store
    <2>1. store["cell"] \in CellDocs
        BY <1>1, KeysApart DEF ServerInv, StoreInv, Docs
    <2>2. Quota = store["cell"].quota.hives /\ Quota \in Nat
        BY <1>1, <2>1 DEF Quota, CellDocs, ResourceQuotas
    <2> QED
        BY <2>2 DEF ServerInv, QuotaInv
<1>2. CASE "cell" \notin DOMAIN store
    BY <1>2 DEF Quota, ServerInv, QuotaInv
<1> QED
    BY <1>1, <1>2

\* A hive that is to be created: counted, admitted, stored.
LEMMA AskStep ==
    ASSUME ServerInv, NEW c \in Clients, NEW via \in {"rest", "grpc"}, NEW h \in Hives,
           Continue(c, Call(via, "count", h, Quota))
    PROVE  Good
<1> DEFINE call == Call(via, "count", h, Quota)
<1>1. Quota \in Nat /\ (granted > 0 => Quota \in 1 .. granted)
    BY QuotaKnown
<1>2. h \in Keys /\ "count" \in Steps
    BY DEF Keys, Steps
<1>3. call \in CallRecords /\ call.step = "count" /\ call.key = h /\ call.held = Quota
    BY <1>1, <1>2, CallFits
<1>4. Continue(c, call)
    OBVIOUS
<1> HIDE DEF call
<1>5. Sound(call, store, granted)
    BY <1>1, <1>3 DEF Sound, KeyOfStep, CountsQuota, WritesWhatItRead
<1> QED
    BY <1>3, <1>4, <1>5, ContinueStep

LEMMA CountStep ==
    ASSUME ServerInv, NEW c \in Clients, calls[c].step = "count",
           Continue(c, IF QuotaReached(calls[c].held) THEN NoCall
                       ELSE [calls[c] EXCEPT !.step = "create"])
    PROVE  Good
<1>1. CASE QuotaReached(calls[c].held)
    BY <1>1, EndStep
<1>2. CASE ~QuotaReached(calls[c].held)
    BY <1>2, AdmitStep
<1> QED
    BY <1>1, <1>2

LEMMA StoreStep ==
    ASSUME ServerInv, NEW c \in Clients, calls[c].step = "create", NEW doc \in HiveDocs,
           Commit(c, calls[c].key, Created(calls[c].key, doc), NoCall)
    PROVE  Good
<1>1. calls[c].key \in Hives
    BY CallKnown DEF Sound, KeyOfStep
<1>2. calls[c].key \in Keys \ Drones /\ Docs(calls[c].key) = HiveDocs
    BY <1>1, KeysApart, NamesAssumption DEF Keys, Docs
<1>3. WriteOK(c, calls[c].key, Created(calls[c].key, doc))
    BY <1>2, CallKnown, WriteCreated
<1> QED
    BY <1>2, <1>3, NoCallFits, CommitStep

\* Writing back what was read.
LEMMA WriteBackStep ==
    ASSUME ServerInv, NEW c \in Clients, calls[c].step \in {"put", "scale"},
           NEW new \in {store, Updated(calls[c].key, Doc(calls[c]))},
           Commit(c, calls[c].key, new, NoCall)
    PROVE  Good
<1> DEFINE k == calls[c].key
           doc == Doc(calls[c])
<1>1. k \in Edits /\ k \in Keys /\ doc \in Docs(k) /\ WritesWhatItRead(calls[c], store)
    BY CallKnown, KeysApart DEF Sound, KeyOfStep, WritesWhatItRead, Edits
<1>2. Reasoned(c, k, doc)
    BY <1>1 DEF Reasoned, WritesWhatItRead, Excused
<1>3. WriteOK(c, k, new)
    <2>1. CASE new = store
        BY <1>1, <2>1, CallKnown, WriteNothing
    <2>2. CASE new = Updated(k, doc)
        BY <1>1, <1>2, <2>2, CallKnown, WriteUpdated
    <2> QED
        BY <2>1, <2>2
<1> QED
    BY <1>1, <1>3, NoCallFits, CommitStep


\* Going on to write k, having read it: what is going to be written differs in
\* what the call sets, or in what the gRPC API loses.
LEMMA ReadStep ==
    ASSUME ServerInv, NEW c \in Clients, NEW call \in CallRecords,
           call.step \in {"put", "scale"}, call.key \in Edits,
           call.step = "scale" => call.key # "cell",
           Doc(call) \in Docs(call.key),
           \A p \in Parts(call.key) :
              Part(Doc(call), p) # Part(store[call.key], p) => Excused(call, store[call.key], p),
           Continue(c, call)
    PROVE  Good
<1>1. Sound(call, store, granted)
    BY DEF Sound, KeyOfStep, CountsQuota, WritesWhatItRead, Edits
<1> QED
    BY <1>1, ContinueStep

LEMMA HiveHas ==
    ASSUME ServerInv, NEW h \in StoredHives
    PROVE  /\ h \in Hives /\ h \in Keys /\ h \in Edits /\ h \notin {"cell", "spec"}
           /\ Docs(h) = HiveDocs /\ store[h] \in HiveDocs
           /\ Parts(h) = Stages \cup {"budget"}
<1>1. h \in Hives /\ h \in DOMAIN store /\ h \in Keys /\ h \in Edits /\ h \notin {"cell", "spec"}
    BY KeysApart DEF StoredHives
<1>2. Docs(h) = HiveDocs
    BY <1>1 DEF Docs
<1>3. store[h] \in HiveDocs
    BY <1>1, <1>2 DEF ServerInv, StoreInv
<1>4. Parts(h) = Stages \cup {"budget"}
    BY <1>1 DEF Parts
<1> QED
    BY <1>1, <1>2, <1>3, <1>4

LEMMA SpecHas ==
    ASSUME ServerInv, "spec" \in DOMAIN store
    PROVE  /\ Docs("spec") = SpecDocs /\ store["spec"] \in SpecDocs
           /\ Parts("spec") = {"scaling", "budget"}
<1>1. Docs("spec") = SpecDocs
    BY DEF Docs
<1>2. Parts("spec") = {"scaling", "budget"}
    BY KeysApart DEF Parts
<1> QED
    BY <1>1, <1>2, KeysApart DEF ServerInv, StoreInv

LEMMA CellHas ==
    ASSUME ServerInv, "cell" \in DOMAIN store
    PROVE  /\ Docs("cell") = CellDocs /\ store["cell"] \in CellDocs
           /\ Parts("cell") = {"quota"}
<1>1. Docs("cell") = CellDocs
    BY DEF Docs
<1>2. Parts("cell") = {"quota"}
    BY KeysApart DEF Parts
<1> QED
    BY <1>1, <1>2, KeysApart DEF ServerInv, StoreInv

\* The names of the parts that are not stages.
LEMMA PartIs ==
    ASSUME NEW doc
    PROVE  /\ \A s \in Stages : Part(doc, s) = doc.stages[s]
           /\ Part(doc, "budget") = doc.guardrails.budget
           /\ Part(doc, "scaling") = doc.scaling
           /\ Part(doc, "quota") = doc.quota.hives
BY NamesAssumption DEF Part

\* Editing: a client puts a limit into the guardrails.
LEMMA LimitAdded ==
    ASSUME NEW gc \in GuardrailConfigs
    PROVE  /\ [gc EXCEPT !.limit = 1] \in GuardrailConfigs
           /\ [gc EXCEPT !.limit = 1].budget = gc.budget
BY DEF GuardrailConfigs

LEMMA ReadHiveStep ==
    ASSUME ServerInv, NEW c \in Clients, NEW h \in StoredHives,
           Continue(c, Call("rest", "put", h, WithLimit(store[h], store[h].guardrails)))
    PROVE  Good
<1> DEFINE doc == WithLimit(store[h], store[h].guardrails)
           call == Call("rest", "put", h, doc)
<1>1. /\ doc \in HiveDocs /\ doc.stages = store[h].stages
      /\ doc.guardrails.budget = store[h].guardrails.budget
    <2>1. store[h] \in HiveDocs /\ store[h].guardrails \in GuardrailConfigs
        BY HiveHas DEF HiveDocs
    <2>2. doc = [store[h] EXCEPT !.guardrails = [store[h].guardrails EXCEPT !.limit = 1]]
        BY DEF WithLimit
    <2> QED
        BY <2>1, <2>2, LimitAdded DEF HiveDocs
<1>2. Continue(c, call)
    OBVIOUS
<1> HIDE DEF doc
<1>3. /\ call \in CallRecords /\ call.via = "rest" /\ call.step = "put" /\ call.key = h
      /\ call.held = doc
    BY <1>1, HiveHas, CallFits DEF Steps
<1> HIDE DEF call
<1>4. Doc(call) = doc
    BY <1>3 DEF Doc
<1>5. \A p \in Parts(h) : Part(doc, p) = Part(store[h], p)
    BY <1>1, PartIs, HiveHas
<1> QED
    BY <1>1, <1>2, <1>3, <1>4, <1>5, HiveHas, ReadStep

LEMMA ReadSpecStep ==
    ASSUME ServerInv, NEW c \in Clients, "spec" \in DOMAIN store,
           Continue(c, Call("rest", "put", "spec", WithLimit(store["spec"], store["spec"].guardrails)))
    PROVE  Good
<1> DEFINE doc == WithLimit(store["spec"], store["spec"].guardrails)
           call == Call("rest", "put", "spec", doc)
<1>1. /\ doc \in SpecDocs /\ doc.scaling = store["spec"].scaling
      /\ doc.guardrails.budget = store["spec"].guardrails.budget
    <2>1. store["spec"] \in SpecDocs /\ store["spec"].guardrails \in GuardrailConfigs
        BY SpecHas DEF SpecDocs
    <2>2. doc = [store["spec"] EXCEPT !.guardrails = [store["spec"].guardrails EXCEPT !.limit = 1]]
        BY DEF WithLimit
    <2> QED
        BY <2>1, <2>2, LimitAdded DEF SpecDocs
<1>2. Continue(c, call)
    OBVIOUS
<1> HIDE DEF doc
<1>3. /\ call \in CallRecords /\ call.via = "rest" /\ call.step = "put" /\ call.key = "spec"
      /\ call.held = doc
    BY <1>1, KeysApart, CallFits DEF Steps
<1> HIDE DEF call
<1>4. Doc(call) = doc
    BY <1>3 DEF Doc
<1>5. \A p \in Parts("spec") : Part(doc, p) = Part(store["spec"], p)
    BY <1>1, PartIs, SpecHas
<1> QED
    BY <1>1, <1>2, <1>3, <1>4, <1>5, KeysApart, SpecHas, ReadStep

\* The quota of a cell's memory is edited; over either API.
LEMMA ReadCellStep ==
    ASSUME ServerInv, NEW c \in Clients, NEW via \in {"rest", "grpc"}, "cell" \in DOMAIN store,
           Continue(c, Call(via, "put", "cell", [store["cell"] EXCEPT !.quota.memory = 1 - @]))
    PROVE  Good
<1> DEFINE doc == [store["cell"] EXCEPT !.quota.memory = 1 - @]
           call == Call(via, "put", "cell", doc)
<1>1. doc \in CellDocs /\ doc.quota.hives = store["cell"].quota.hives
    <2>1. store["cell"] \in CellDocs /\ store["cell"].quota \in ResourceQuotas
        BY CellHas DEF CellDocs
    <2>2. [store["cell"].quota EXCEPT !.memory = 1 - @] \in ResourceQuotas
          /\ [store["cell"].quota EXCEPT !.memory = 1 - @].hives = store["cell"].quota.hives
        BY <2>1 DEF ResourceQuotas
    <2>3. doc.quota = [store["cell"].quota EXCEPT !.memory = 1 - @]
          /\ DOMAIN doc = DOMAIN store["cell"] /\ doc = [quota |-> doc.quota]
        BY <2>1 DEF CellDocs
    <2> QED
        BY <2>1, <2>2, <2>3 DEF CellDocs
<1>2. Continue(c, call)
    OBVIOUS
<1> HIDE DEF doc
<1>3. /\ call \in CallRecords /\ call.step = "put" /\ call.key = "cell" /\ call.held = doc
    BY <1>1, KeysApart, CallFits DEF Steps
<1> HIDE DEF call
<1>4. Doc(call) = doc
    BY <1>1, <1>3, CellBack DEF Doc
<1>5. \A p \in Parts("cell") : Part(doc, p) = Part(store["cell"], p)
    BY <1>1, PartIs, CellHas
<1> QED
    BY <1>1, <1>2, <1>3, <1>4, <1>5, KeysApart, CellHas, ReadStep


\* Over the gRPC API a client gets a message, and what it sends back is
\* converted to a resource again.
LEMMA ReadHiveMessageStep ==
    ASSUME ServerInv, NEW c \in Clients, NEW h \in StoredHives, NEW msg, msg = HiveToProto(store[h]),
           Continue(c, Call("grpc", "put", h, WithLimit(msg, GuardrailConfigFromProto(msg.guardrails))))
    PROVE  Good
<1> DEFINE doc == WithLimit(msg, GuardrailConfigFromProto(msg.guardrails))
           call == Call("grpc", "put", h, doc)
           gc == store[h].guardrails
           back == GuardrailConfigFromProto(GuardrailConfigToProto(gc))
<1>1. /\ store[h] \in HiveDocs /\ gc \in GuardrailConfigs
      /\ msg = [stages |-> [s \in Stages |-> 0], guardrails |-> GuardrailConfigToProto(gc)]
    <2>1. store[h] \in HiveDocs
        BY HiveHas
    <2> QED
        BY <2>1, HiveBack DEF HiveDocs
<1>2. back \in GuardrailConfigs /\ (gc.limit > 0 => back = gc)
    BY <1>1, ThroughGuardrails
<1>3. GuardrailConfigFromProto(msg.guardrails) = back
    BY <1>1
<1>4. doc = [msg EXCEPT !.guardrails = [back EXCEPT !.limit = 1]]
    BY <1>3 DEF WithLimit
<1> HIDE DEF back
<1>5. doc = [stages |-> [s \in Stages |-> 0], guardrails |-> [back EXCEPT !.limit = 1]]
    BY <1>1, <1>4
<1>6. doc \in HiveDocs /\ doc.guardrails.budget = back.budget
    <2> DEFINE limited == [back EXCEPT !.limit = 1]
    <2>1. limited \in GuardrailConfigs /\ limited.budget = back.budget
        BY <1>2, LimitAdded
    <2> HIDE DEF limited
    <2>2. doc.guardrails = limited /\ doc = [stages |-> [s \in Stages |-> 0], guardrails |-> limited]
        BY <1>5 DEF limited
    <2> QED
        BY <1>1, <2>1, <2>2 DEF HiveDocs
<1>7. Continue(c, call)
    OBVIOUS
<1> HIDE DEF doc
<1>8. /\ call \in CallRecords /\ call.via = "grpc" /\ call.step = "put" /\ call.key = h
      /\ call.held = doc
    BY <1>6, HiveHas, CallFits DEF Steps
<1> HIDE DEF call
<1>9. Doc(call) = HiveFromProto(doc)
    BY <1>8, HiveHas DEF Doc
<1>10. Doc(call) \in HiveDocs /\ Doc(call).guardrails.budget = back.budget
    BY <1>6, <1>9, HiveBack
<1>11. ASSUME NEW p \in Parts(h), Part(Doc(call), p) # Part(store[h], p)
       PROVE  LostByConversion(store[h], p)
    <2>1. CASE p \in Stages
        BY <2>1 DEF LostByConversion
    <2>2. CASE p = "budget"
        <3>1. back.budget # gc.budget
            BY <1>10, <1>11, <2>2, PartIs
        <3>2. gc.limit = 0
            BY <1>1, <1>2, <3>1 DEF GuardrailConfigs
        <3> QED
            BY <2>2, <3>2 DEF LostByConversion
    <2> QED
        BY <1>11, <2>1, <2>2, HiveHas
<1>12. \A p \in Parts(h) : Part(Doc(call), p) # Part(store[h], p) => Excused(call, store[h], p)
    BY <1>8, <1>11 DEF Excused
<1> QED
    BY <1>7, <1>8, <1>10, <1>12, HiveHas, ReadStep

LEMMA ReadSpecMessageStep ==
    ASSUME ServerInv, NEW c \in Clients, "spec" \in DOMAIN store,
           NEW msg, msg = AgentSpecToProto(store["spec"]),
           Continue(c, Call("grpc", "put", "spec",
                            WithLimit(msg, GuardrailConfigFromProto(msg.guardrails))))
    PROVE  Good
<1> DEFINE doc == WithLimit(msg, GuardrailConfigFromProto(msg.guardrails))
           call == Call("grpc", "put", "spec", doc)
           spec == store["spec"]
           gc == spec.guardrails
           back == GuardrailConfigFromProto(GuardrailConfigToProto(gc))
<1>1. /\ spec \in SpecDocs /\ gc \in GuardrailConfigs
      /\ msg.guardrails = GuardrailConfigToProto(gc)
      /\ msg.scaling \in ScalingConfigs \cup {Missing}
    <2>1. spec \in SpecDocs
        BY SpecHas
    <2> QED
        BY <2>1, SpecBack DEF SpecDocs
<1>2. back \in GuardrailConfigs /\ (gc.limit > 0 => back = gc)
    BY <1>1, ThroughGuardrails
<1>3. GuardrailConfigFromProto(msg.guardrails) = back
    BY <1>1
<1>4. doc = [msg EXCEPT !.guardrails = [back EXCEPT !.limit = 1]]
    BY <1>3 DEF WithLimit
<1>5. msg = [scaling |-> msg.scaling, guardrails |-> msg.guardrails]
    BY DEF AgentSpecToProto
<1> HIDE DEF back
<1>6. doc = [scaling |-> msg.scaling, guardrails |-> [back EXCEPT !.limit = 1]]
    BY <1>4, <1>5
<1>7. /\ doc \in SpecMessages /\ doc.guardrails.budget = back.budget /\ doc.scaling = msg.scaling
      /\ doc.guardrails \in GuardrailConfigs
    <2> DEFINE limited == [back EXCEPT !.limit = 1]
    <2>1. limited \in GuardrailConfigs /\ limited.budget = back.budget
        BY <1>2, LimitAdded
    <2> HIDE DEF limited
    <2>2. doc.guardrails = limited /\ doc = [scaling |-> msg.scaling, guardrails |-> limited]
          /\ doc.scaling = msg.scaling
        BY <1>6 DEF limited
    <2> QED
        BY <1>1, <2>1, <2>2 DEF SpecMessages
<1>8. Continue(c, call)
    OBVIOUS
<1> HIDE DEF doc
<1>9. /\ call \in CallRecords /\ call.via = "grpc" /\ call.step = "put" /\ call.key = "spec"
      /\ call.held = doc
    BY <1>7, KeysApart, CallFits DEF Steps
<1> HIDE DEF call
<1>10. Doc(call) = AgentSpecFromProto(doc)
    BY <1>9 DEF Doc
<1>11. AgentSpecFromProto(doc).scaling = spec.scaling
    <2>1. AgentSpecFromProto(doc).scaling = AgentSpecFromProto(msg).scaling
        BY <1>7 DEF AgentSpecFromProto
    <2>2. AgentSpecFromProto(msg).scaling = spec.scaling
        BY <1>1, SpecBack
    <2> QED
        BY <2>1, <2>2
<1>12. AgentSpecFromProto(doc).guardrails = doc.guardrails
    BY <1>7, MissingAssumption DEF AgentSpecFromProto, GuardrailConfigFromProto
<1>13. Doc(call) \in SpecDocs
    <2>1. Doc(call) = [scaling |-> Doc(call).scaling, guardrails |-> Doc(call).guardrails]
        BY <1>10 DEF AgentSpecFromProto
    <2> QED
        BY <1>1, <1>7, <1>10, <1>11, <1>12, <2>1 DEF SpecDocs
<1>14. ASSUME NEW p \in Parts("spec"), Part(Doc(call), p) # Part(spec, p)
       PROVE  LostByConversion(spec, p)
    <2>1. p = "budget"
        BY <1>10, <1>11, <1>14, PartIs, SpecHas
    <2>2. back.budget # gc.budget
        BY <1>7, <1>10, <1>12, <1>14, <2>1, PartIs
    <2>3. gc.limit = 0
        BY <1>1, <1>2, <2>2 DEF GuardrailConfigs
    <2> QED
        BY <2>1, <2>3 DEF LostByConversion
<1>15. \A p \in Parts("spec") : Part(Doc(call), p) # Part(spec, p) => Excused(call, spec, p)
    BY <1>9, <1>14 DEF Excused
<1> QED
    BY <1>8, <1>9, <1>13, <1>15, KeysApart, SpecHas, ReadStep

LEMMA ReadCellMessageStep ==
    ASSUME ServerInv, NEW c \in Clients, "cell" \in DOMAIN store,
           NEW msg, msg = CellToProto(store["cell"]), msg.quota # Missing,
           Continue(c, Call("grpc", "put", "cell", [msg EXCEPT !.quota.memory = 1 - @]))
    PROVE  Good
<1>1. store["cell"] \in CellDocs
    BY CellHas
<1>2. msg = store["cell"]
    BY <1>1 DEF CellToProto, CellDocs
<1> QED
    BY <1>2, ReadCellStep

--------------------------------------------------------------------------------
(* Scaling: what is scaled is written over whatever is there by then.      *)

LEMMA ScaleHiveStep ==
    ASSUME ServerInv, NEW c \in Clients, NEW via \in {"rest", "grpc"}, NEW h \in StoredHives,
           NEW n \in Replicas, NEW stages \in {{s} : s \in Stages} \cup {Stages},
           Continue(c, [Call(via, "scale", h, Scaled(store[h], stages, n)) EXCEPT !.sets = stages])
    PROVE  Good
<1> DEFINE doc == Scaled(store[h], stages, n)
           base == Call(via, "scale", h, doc)
           call == [base EXCEPT !.sets = stages]
<1>1. store[h] \in HiveDocs /\ n \in Nat /\ stages \subseteq Stages
    BY HiveHas, NumbersAssumption
<1>2. /\ doc \in HiveDocs /\ doc.guardrails = store[h].guardrails
      /\ \A s \in Stages \ stages : doc.stages[s] = store[h].stages[s]
    <2>1. doc = [store[h] EXCEPT !.stages =
                    [s \in Stages |-> IF s \in stages THEN n ELSE store[h].stages[s]]]
        BY DEF Scaled
    <2>2. [s \in Stages |-> IF s \in stages THEN n ELSE store[h].stages[s]] \in [Stages -> Nat]
        BY <1>1 DEF HiveDocs
    <2> QED
        BY <1>1, <2>1, <2>2 DEF HiveDocs
<1>3. Continue(c, call)
    OBVIOUS
<1> HIDE DEF doc
<1>4. /\ base \in CallRecords /\ base.step = "scale" /\ base.key = h /\ base.held = doc
    BY <1>2, HiveHas, CallFits DEF Steps
<1> HIDE DEF base
<1>5. /\ call \in CallRecords /\ call.step = "scale" /\ call.key = h /\ call.held = doc
      /\ call.sets = stages
    BY <1>1, <1>4 DEF CallRecords
<1> HIDE DEF call
<1>6. Doc(call) = doc
    BY <1>5 DEF Doc
<1>7. ASSUME NEW p \in Parts(h), Part(doc, p) # Part(store[h], p) PROVE p \in stages
    BY <1>2, <1>7, PartIs, HiveHas
<1>8. \A p \in Parts(h) : Part(Doc(call), p) # Part(store[h], p) => Excused(call, store[h], p)
    BY <1>5, <1>6, <1>7 DEF Excused
<1> QED
    BY <1>2, <1>3, <1>5, <1>6, <1>8, HiveHas, ReadStep

LEMMA ScaleSpecStep ==
    ASSUME ServerInv, NEW c \in Clients, NEW via \in {"rest", "grpc"}, "spec" \in DOMAIN store,
           NEW n \in Replicas,
           Continue(c, [Call(via, "scale", "spec",
                             [store["spec"] EXCEPT !.scaling = [min |-> n, max |-> n]])
                          EXCEPT !.sets = {"scaling"}])
    PROVE  Good
<1> DEFINE doc == [store["spec"] EXCEPT !.scaling = [min |-> n, max |-> n]]
           base == Call(via, "scale", "spec", doc)
           call == [base EXCEPT !.sets = {"scaling"}]
<1>1. store["spec"] \in SpecDocs /\ n \in Nat
    BY SpecHas, NumbersAssumption
<1>2. doc \in SpecDocs /\ doc.guardrails = store["spec"].guardrails
    BY <1>1 DEF SpecDocs, ScalingConfigs
<1>3. Continue(c, call)
    OBVIOUS
<1> HIDE DEF doc
<1>4. /\ base \in CallRecords /\ base.step = "scale" /\ base.key = "spec" /\ base.held = doc
    BY <1>2, KeysApart, CallFits DEF Steps
<1> HIDE DEF base
<1>5. /\ call \in CallRecords /\ call.step = "scale" /\ call.key = "spec" /\ call.held = doc
      /\ call.sets = {"scaling"}
    BY <1>4 DEF CallRecords
<1> HIDE DEF call
<1>6. Doc(call) = doc
    BY <1>5 DEF Doc
<1>7. ASSUME NEW p \in Parts("spec"), Part(doc, p) # Part(store["spec"], p) PROVE p = "scaling"
    BY <1>2, <1>7, PartIs, SpecHas
<1>8. \A p \in Parts("spec") :
         Part(Doc(call), p) # Part(store["spec"], p) => Excused(call, store["spec"], p)
    BY <1>5, <1>6, <1>7 DEF Excused
<1> QED
    BY <1>2, <1>3, <1>5, <1>6, <1>8, KeysApart, SpecHas, ReadStep

\* The manifest of a hive replaces everything that calls are about.
LEMMA ManifestStep ==
    ASSUME ServerInv, NEW c \in Clients, NEW h \in StoredHives,
           Continue(c, [Call("rest", "put", h, NewHive) EXCEPT !.sets = Stages \cup {"budget"}])
    PROVE  Good
<1> DEFINE base == Call("rest", "put", h, NewHive)
           call == [base EXCEPT !.sets = Stages \cup {"budget"}]
<1>1. NewHive \in HiveDocs
    BY DEF NewHive, HiveDocs, GuardrailConfigs
<1>2. /\ base \in CallRecords /\ base.via = "rest" /\ base.step = "put" /\ base.key = h
      /\ base.held = NewHive
    BY <1>1, HiveHas, CallFits DEF Steps
<1>3. Continue(c, call)
    OBVIOUS
<1> HIDE DEF base
<1>4. /\ call \in CallRecords /\ call.via = "rest" /\ call.step = "put" /\ call.key = h
      /\ call.held = NewHive /\ call.sets = Stages \cup {"budget"}
    BY <1>2 DEF CallRecords
<1> HIDE DEF call
<1>5. Doc(call) = NewHive
    BY <1>4 DEF Doc
<1>6. \A p \in Parts(h) : Excused(call, store[h], p)
    BY <1>4, HiveHas DEF Excused
<1> QED
    BY <1>1, <1>3, <1>4, <1>5, <1>6, HiveHas, ReadStep


\* A hive that was not there when the manifest was applied.
LEMMA PostStep ==
    ASSUME ServerInv, NEW c \in Clients, NEW h \in Hives, Continue(c, Call("rest", "post", h, NoKey))
    PROVE  Good
<1> DEFINE call == Call("rest", "post", h, NoKey)
<1>1. call \in CallRecords /\ call.step = "post" /\ call.key = h
    BY CallFits DEF Keys, Steps
<1>2. Continue(c, call)
    OBVIOUS
<1> HIDE DEF call
<1>3. Sound(call, store, granted)
    BY <1>1 DEF Sound, KeyOfStep, CountsQuota, WritesWhatItRead
<1> QED
    BY <1>1, <1>2, <1>3, ContinueStep

--------------------------------------------------------------------------------
(* Draining drones.                                                        *)

\* A call about a drone, or about the drones it has still to do.
LEMMA DroneCall ==
    ASSUME NEW call \in CallRecords, call.step \in {"mark", "poll", "delete", "sweep", "purge"},
           call.step # "sweep" => call.key \in Drones,
           call.step = "mark" => call.then \in {"delete", "poll"}
    PROVE  KeyOfStep(call) /\ \A st, g : Sound(call, st, g)
BY DEF Sound, KeyOfStep, CountsQuota, WritesWhatItRead

LEMMA DroneKey ==
    ASSUME NEW d \in Drones
    PROVE  d \in Keys /\ d \in Keys \ Edits
BY KeysApart

LEMMA DrainStep ==
    ASSUME ServerInv, NEW c \in Clients, NEW via \in {"rest", "grpc"}, NEW d \in StoredDrones,
           NEW then \in {"delete", "poll"},
           Continue(c, [Call(via, "mark", d, "stopping") EXCEPT !.then = then])
    PROVE  Good
<1> DEFINE base == Call(via, "mark", d, "stopping")
           call == [base EXCEPT !.then = then]
<1>1. d \in Drones /\ d \in Keys
    BY DroneKey DEF StoredDrones
<1>2. base \in CallRecords /\ base.step = "mark" /\ base.key = d
    BY <1>1, CallFits DEF Steps
<1>3. Continue(c, call)
    OBVIOUS
<1> HIDE DEF base
<1>4. call \in CallRecords /\ call.step = "mark" /\ call.key = d /\ call.then = then
    BY <1>2 DEF CallRecords
<1> HIDE DEF call
<1> QED
    BY <1>1, <1>3, <1>4, DroneCall, ContinueStep

LEMMA MarkStep ==
    ASSUME ServerInv, NEW c \in Clients, calls[c].step = "mark",
           Commit(c, calls[c].key, Updated(calls[c].key, calls[c].held),
                  IF calls[c].key \in DOMAIN store THEN [calls[c] EXCEPT !.step = calls[c].then]
                  ELSE NoCall)
    PROVE  Good
<1> DEFINE call == IF calls[c].key \in DOMAIN store THEN [calls[c] EXCEPT !.step = calls[c].then]
                   ELSE NoCall
<1>1. /\ calls[c] \in CallRecords /\ calls[c].key \in Drones
      /\ calls[c].then \in {"delete", "poll"}
    BY CallKnown DEF Sound, KeyOfStep
<1>2. /\ call \in CallRecords /\ call.step \in {"none", "delete", "poll"}
      /\ call.step # "none" => call.key \in Drones
    <2>1. CASE calls[c].key \in DOMAIN store
        BY <1>1, <2>1 DEF CallRecords, Steps
    <2>2. CASE calls[c].key \notin DOMAIN store
        BY <2>2, NoCallFits
    <2> QED
        BY <2>1, <2>2
<1>3. Commit(c, calls[c].key, Updated(calls[c].key, calls[c].held), call)
    OBVIOUS
<1> HIDE DEF call
<1>4. KeyOfStep(call)
    BY <1>2 DEF KeyOfStep
<1>5. WriteOK(c, calls[c].key, Updated(calls[c].key, calls[c].held))
    BY <1>1, CallKnown, DroneKey, NoParts, WriteUpdated
<1> QED
    BY <1>1, <1>2, <1>3, <1>4, <1>5, DroneKey, CommitStep

LEMMA PollStep ==
    ASSUME ServerInv, NEW c \in Clients, calls[c].step = "poll",
           NEW call \in {NoCall, calls[c], [calls[c] EXCEPT !.step = "delete"]}, Continue(c, call)
    PROVE  Good
<1>1. calls[c] \in CallRecords /\ calls[c].key \in Drones /\ Sound(calls[c], store, granted)
    BY CallKnown DEF Sound, KeyOfStep
<1>2. CASE call = NoCall
    BY <1>2, EndStep
<1>3. CASE call = calls[c]
    BY <1>1, <1>3, ContinueStep
<1>4. CASE call = [calls[c] EXCEPT !.step = "delete"]
    <2>1. call \in CallRecords /\ call.step = "delete" /\ call.key = calls[c].key
        BY <1>1, <1>4 DEF CallRecords, Steps
    <2> QED
        BY <1>1, <2>1, DroneCall, ContinueStep
<1> QED
    BY <1>2, <1>3, <1>4

\* The timeout of a drain, and a drone that has ended.
LEMMA RemoveStep ==
    ASSUME ServerInv, NEW c \in Clients, calls[c].step \in {"poll", "delete"},
           Commit(c, calls[c].key, Deleted(calls[c].key), NoCall)
    PROVE  Good
<1>1. calls[c].key \in Drones
    BY CallKnown DEF Sound, KeyOfStep
<1> QED
    BY <1>1, DroneKey, DeleteStep

LEMMA DrainAllStep ==
    ASSUME ServerInv, NEW c \in Clients, NEW via \in {"rest", "grpc"}, NEW then \in {"purge", "sweep"},
           Continue(c, [Call(via, "sweep", NoKey, "stopping") EXCEPT !.then = then,
                                                                     !.todo = StoredDrones])
    PROVE  Good
<1> DEFINE base == Call(via, "sweep", NoKey, "stopping")
           call == [base EXCEPT !.then = then, !.todo = StoredDrones]
<1>1. base \in CallRecords /\ base.step = "sweep"
    BY CallFits DEF Steps
<1>2. Continue(c, call)
    OBVIOUS
<1> HIDE DEF base
<1>3. call \in CallRecords /\ call.step = "sweep"
    BY <1>1 DEF CallRecords, StoredDrones
<1> HIDE DEF call
<1> QED
    BY <1>2, <1>3, DroneCall, ContinueStep

\* What is left of a sweep is over or sweeps on.
LEMMA LeftFits ==
    ASSUME NEW call \in CallRecords
    PROVE  Left(call) \in CallRecords /\ Left(call).step \in {"none", "sweep"}
<1>1. CASE call.todo = {}
    BY <1>1, NoCallFits DEF Left
<1>2. CASE call.todo # {}
    <2>1. Left(call) = [call EXCEPT !.step = "sweep", !.key = NoKey]
        BY <1>2 DEF Left
    <2> QED
        BY <2>1 DEF CallRecords, Steps
<1> QED
    BY <1>1, <1>2

LEMMA SweepStep ==
    ASSUME ServerInv, NEW c \in Clients, calls[c].step = "sweep", NEW d \in calls[c].todo,
           NEW rest, rest = [calls[c] EXCEPT !.todo = @ \ {d}],
           Commit(c, d, Updated(d, "stopping"),
                  IF d \in DOMAIN store /\ rest.then = "purge"
                  THEN [rest EXCEPT !.step = "purge", !.key = d] ELSE Left(rest))
    PROVE  Good
<1> DEFINE call == IF d \in DOMAIN store /\ rest.then = "purge"
                   THEN [rest EXCEPT !.step = "purge", !.key = d] ELSE Left(rest)
<1>1. calls[c] \in CallRecords /\ d \in Drones
    BY CallKnown DEF CallRecords
<1>2. rest \in CallRecords
    BY <1>1 DEF CallRecords
<1>3. /\ call \in CallRecords /\ call.step \in {"none", "sweep", "purge"}
      /\ call.step = "purge" => call.key \in Drones
    <2>1. CASE d \in DOMAIN store /\ rest.then = "purge"
        <3>1. call = [rest EXCEPT !.step = "purge", !.key = d]
            BY <2>1
        <3>2. d \in Keys \cup {NoKey} /\ "purge" \in Steps
            BY <1>1, DroneKey DEF Steps
        <3>3. call \in CallRecords
            BY <1>2, <3>1, <3>2 DEF CallRecords
        <3>4. call.step = "purge" /\ call.key = d
            BY <1>2, <3>1 DEF CallRecords
        <3> QED
            BY <1>1, <3>3, <3>4
    <2>2. CASE ~(d \in DOMAIN store /\ rest.then = "purge")
        <3>1. call = Left(rest)
            BY <2>2
        <3> QED
            BY <1>2, <3>1, LeftFits
    <2> QED
        BY <2>1, <2>2
<1>4. Commit(c, d, Updated(d, "stopping"), call)
    OBVIOUS
<1> HIDE DEF call
<1>5. KeyOfStep(call)
    BY <1>3 DEF KeyOfStep
<1>6. WriteOK(c, d, Updated(d, "stopping"))
    BY <1>1, CallKnown, DroneKey, NoParts, WriteUpdated
<1> QED
    BY <1>1, <1>3, <1>4, <1>5, <1>6, DroneKey, CommitStep

LEMMA PurgeStep ==
    ASSUME ServerInv, NEW c \in Clients, calls[c].step = "purge",
           Commit(c, calls[c].key, Deleted(calls[c].key), Left(calls[c]))
    PROVE  Good
<1>1. calls[c] \in CallRecords /\ calls[c].key \in Drones
    BY CallKnown DEF Sound, KeyOfStep
<1>2. Left(calls[c]) \in CallRecords /\ Left(calls[c]).step \in {"none", "sweep"}
    BY <1>1, LeftFits
<1>3. KeyOfStep(Left(calls[c]))
    BY <1>2 DEF KeyOfStep
<1> QED
    BY <1>1, <1>2, <1>3, DroneKey, WriteDeleted, CommitStep


--------------------------------------------------------------------------------
(* The HTTP API and the gRPC API name the same operations.                 *)

LEMMA HttpMeans ==
    /\ \A k, doc : /\ HTTP!Created(k, doc) = Created(k, doc) /\ HTTP!Updated(k, doc) = Updated(k, doc)
                     /\ HTTP!Deleted(k) = Deleted(k)
    /\ HTTP!FirstCell = FirstCell /\ HTTP!FirstSpec = FirstSpec /\ HTTP!NewHive = NewHive
    /\ HTTP!NoCall = NoCall /\ HTTP!Quota = Quota
    /\ HTTP!StoredHives = StoredHives /\ HTTP!StoredDrones = StoredDrones
    /\ \A call : HTTP!Left(call) = Left(call)
    /\ \A doc, gc : HTTP!WithLimit(doc, gc) = WithLimit(doc, gc)
    /\ \A hive, stages, n : HTTP!Scaled(hive, stages, n) = Scaled(hive, stages, n)
    /\ \A via, step, k, held : HTTP!Call(via, step, k, held) = Call(via, step, k, held)
    /\ \A n : HTTP!QuotaReached(n) = QuotaReached(n)
    /\ \A c, via, step : HTTP!At(c, via, step) => calls[c].step = step /\ calls[c].via = via
    /\ \A c, k, new, call : HTTP!Commit(c, k, new, call) => Commit(c, k, new, call)
    /\ \A c, call : HTTP!Continue(c, call) => Continue(c, call)
<1>1. /\ \A k, doc : /\ HTTP!Created(k, doc) = Created(k, doc) /\ HTTP!Updated(k, doc) = Updated(k, doc)
                         /\ HTTP!Deleted(k) = Deleted(k)
    BY DEF HTTP!Created, HTTP!Updated, HTTP!Deleted, HTTP!Restrict, Created, Updated, Deleted, Restrict
<1>2. /\ HTTP!FirstCell = FirstCell /\ HTTP!FirstSpec = FirstSpec /\ HTTP!NewHive = NewHive
      /\ HTTP!NoCall = NoCall /\ HTTP!Quota = Quota
      /\ HTTP!StoredHives = StoredHives /\ HTTP!StoredDrones = StoredDrones
    BY DEF HTTP!FirstCell, HTTP!FirstSpec, HTTP!NewHive, HTTP!NoCall, HTTP!Quota, HTTP!StoredHives,
           HTTP!StoredDrones, FirstCell, FirstSpec, NewHive, NoCall, Quota, StoredHives, StoredDrones
<1>3. /\ \A call : HTTP!Left(call) = Left(call)
      /\ \A doc, gc : HTTP!WithLimit(doc, gc) = WithLimit(doc, gc)
      /\ \A hive, stages, n : HTTP!Scaled(hive, stages, n) = Scaled(hive, stages, n)
      /\ \A via, step, k, held : HTTP!Call(via, step, k, held) = Call(via, step, k, held)
    BY <1>2 DEF HTTP!Left, HTTP!WithLimit, HTTP!Scaled, HTTP!Call, Left, WithLimit, Scaled, Call
<1>4. HTTP!Cardinality(HTTP!StoredHives) = Cardinality(StoredHives)
    BY <1>2 DEF HTTP!Cardinality, Cardinality, HTTP!IsFiniteSet, IsFiniteSet
<1>5. /\ \A n : HTTP!QuotaReached(n) = QuotaReached(n)
    BY <1>2, <1>4 DEF HTTP!QuotaReached, QuotaReached
<1>6. /\ \A c, via, step : HTTP!At(c, via, step) => calls[c].step = step /\ calls[c].via = via
    BY DEF HTTP!At
<1>7. /\ \A c, k, new, call : HTTP!Commit(c, k, new, call) => Commit(c, k, new, call)
      /\ \A c, call : HTTP!Continue(c, call) => Continue(c, call)
    BY DEF HTTP!Commit, HTTP!Continue, Commit, Continue
<1> QED
    BY <1>1, <1>2, <1>3, <1>5, <1>6, <1>7

LEMMA GrpcMeans ==
    /\ \A k, doc : /\ GRPC!Created(k, doc) = Created(k, doc) /\ GRPC!Updated(k, doc) = Updated(k, doc)
                     /\ GRPC!Deleted(k) = Deleted(k)
    /\ GRPC!FirstCell = FirstCell /\ GRPC!FirstSpec = FirstSpec /\ GRPC!NewHive = NewHive
    /\ GRPC!NoCall = NoCall /\ GRPC!Quota = Quota
    /\ GRPC!StoredHives = StoredHives /\ GRPC!StoredDrones = StoredDrones
    /\ \A call : GRPC!Left(call) = Left(call)
    /\ \A doc, gc : GRPC!WithLimit(doc, gc) = WithLimit(doc, gc)
    /\ \A hive, stages, n : GRPC!Scaled(hive, stages, n) = Scaled(hive, stages, n)
    /\ \A via, step, k, held : GRPC!Call(via, step, k, held) = Call(via, step, k, held)
    /\ \A n : GRPC!QuotaReached(n) = QuotaReached(n)
    /\ \A c, via, step : GRPC!At(c, via, step) => calls[c].step = step /\ calls[c].via = via
    /\ \A c, k, new, call : GRPC!Commit(c, k, new, call) => Commit(c, k, new, call)
    /\ \A c, call : GRPC!Continue(c, call) => Continue(c, call)
<1>1. /\ \A k, doc : /\ GRPC!Created(k, doc) = Created(k, doc) /\ GRPC!Updated(k, doc) = Updated(k, doc)
                         /\ GRPC!Deleted(k) = Deleted(k)
    BY DEF GRPC!Created, GRPC!Updated, GRPC!Deleted, GRPC!Restrict, Created, Updated, Deleted, Restrict
<1>2. /\ GRPC!FirstCell = FirstCell /\ GRPC!FirstSpec = FirstSpec /\ GRPC!NewHive = NewHive
      /\ GRPC!NoCall = NoCall /\ GRPC!Quota = Quota
      /\ GRPC!StoredHives = StoredHives /\ GRPC!StoredDrones = StoredDrones
    BY DEF GRPC!FirstCell, GRPC!FirstSpec, GRPC!NewHive, GRPC!NoCall, GRPC!Quota, GRPC!StoredHives,
           GRPC!StoredDrones, FirstCell, FirstSpec, NewHive, NoCall, Quota, StoredHives, StoredDrones
<1>3. /\ \A call : GRPC!Left(call) = Left(call)
      /\ \A doc, gc : GRPC!WithLimit(doc, gc) = WithLimit(doc, gc)
      /\ \A hive, stages, n : GRPC!Scaled(hive, stages, n) = Scaled(hive, stages, n)
      /\ \A via, step, k, held : GRPC!Call(via, step, k, held) = Call(via, step, k, held)
    BY <1>2 DEF GRPC!Left, GRPC!WithLimit, GRPC!Scaled, GRPC!Call, Left, WithLimit, Scaled, Call
<1>4. GRPC!Cardinality(GRPC!StoredHives) = Cardinality(StoredHives)
    BY <1>2 DEF GRPC!Cardinality, Cardinality, GRPC!IsFiniteSet, IsFiniteSet
<1>5. /\ \A n : GRPC!QuotaReached(n) = QuotaReached(n)
    BY <1>2, <1>4 DEF GRPC!QuotaReached, QuotaReached
<1>6. /\ \A c, via, step : GRPC!At(c, via, step) => calls[c].step = step /\ calls[c].via = via
    BY DEF GRPC!At
<1>7. /\ \A c, k, new, call : GRPC!Commit(c, k, new, call) => Commit(c, k, new, call)
      /\ \A c, call : GRPC!Continue(c, call) => Continue(c, call)
    BY DEF GRPC!Commit, GRPC!Continue, Commit, Continue
<1> QED
    BY <1>1, <1>2, <1>3, <1>5, <1>6, <1>7

LEMMA ConversionMeans ==
    /\ \A doc : GRPC!CellToProto(doc) = CellToProto(doc) /\ GRPC!CellFromProto(doc) = CellFromProto(doc)
    /\ \A doc : GRPC!AgentSpecToProto(doc) = AgentSpecToProto(doc)
    /\ \A doc : GRPC!AgentSpecFromProto(doc) = AgentSpecFromProto(doc)
    /\ \A doc : GRPC!HiveToProto(doc) = HiveToProto(doc) /\ GRPC!HiveFromProto(doc) = HiveFromProto(doc)
    /\ \A gc : GRPC!GuardrailConfigFromProto(gc) = GuardrailConfigFromProto(gc)
    /\ \A gc : GRPC!GuardrailConfigToProto(gc) = GuardrailConfigToProto(gc)
<1>1. /\ \A gc : GRPC!GuardrailConfigFromProto(gc) = GuardrailConfigFromProto(gc)
      /\ \A gc : GRPC!GuardrailConfigToProto(gc) = GuardrailConfigToProto(gc)
    BY DEF GRPC!GuardrailConfigFromProto, GRPC!GuardrailConfigToProto, GuardrailConfigFromProto,
           GuardrailConfigToProto, GRPC!NoGuardrails, NoGuardrails
<1> QED
    BY <1>1 DEF GRPC!CellToProto, GRPC!CellFromProto, GRPC!AgentSpecToProto, GRPC!AgentSpecFromProto,
                GRPC!HiveToProto, GRPC!HiveFromProto, GRPC!StageToProto, GRPC!StageFromProto,
                CellToProto, CellFromProto, AgentSpecToProto, AgentSpecFromProto,
                HiveToProto, HiveFromProto, StageToProto, StageFromProto

LEMMA FirstDocs ==
    FirstCell \in Docs("cell") /\ FirstSpec \in Docs("spec") /\ NewHive \in HiveDocs
<1>1. FirstCell \in CellDocs
    BY NumbersAssumption DEF FirstCell, CellDocs, ResourceQuotas
<1>2. FirstSpec \in SpecDocs
    BY DEF FirstSpec, SpecDocs, ScalingConfigs, GuardrailConfigs
<1>3. NewHive \in HiveDocs
    BY DEF NewHive, HiveDocs, GuardrailConfigs
<1> QED
    BY <1>1, <1>2, <1>3 DEF Docs

LEMMA HttpStep ==
    ASSUME ServerInv, NEW c \in Clients, ServeHTTP(c) \/ RequestHTTP(c)
    PROVE  Good
<1>1. CASE HTTP!CheckResourceQuota(c)
    <2>1. /\ calls[c].step = "count"
          /\ Continue(c, IF QuotaReached(calls[c].held) THEN NoCall
                         ELSE [calls[c] EXCEPT !.step = "create"])
        BY <1>1, HttpMeans DEF HTTP!CheckResourceQuota
    <2> QED
        BY <2>1, CountStep
<1>2. CASE HTTP!StoreHive(c)
    <2>1. /\ calls[c].step = "create" /\ NewHive \in HiveDocs
          /\ Commit(c, calls[c].key, Created(calls[c].key, NewHive), NoCall)
        BY <1>2, HttpMeans, FirstDocs DEF HTTP!StoreHive
    <2> QED
        BY <2>1, StoreStep
<1>3. CASE HTTP!StoreScaled(c)
    <2>1. calls[c].step = "scale"
        BY <1>3, HttpMeans DEF HTTP!StoreScaled
    <2>2. Commit(c, calls[c].key, Updated(calls[c].key, calls[c].held), NoCall)
        BY <1>3, HttpMeans DEF HTTP!StoreScaled
    <2>3. Doc(calls[c]) = calls[c].held
        BY <2>1 DEF Doc
    <2> QED
        BY <2>1, <2>2, <2>3, WriteBackStep
<1>4. CASE HTTP!MarkDraining(c)
    <2>1. /\ calls[c].step = "mark"
          /\ Commit(c, calls[c].key, Updated(calls[c].key, calls[c].held),
                    IF calls[c].key \in DOMAIN store THEN [calls[c] EXCEPT !.step = calls[c].then]
                    ELSE NoCall)
        BY <1>4, HttpMeans DEF HTTP!MarkDraining
    <2> QED
        BY <2>1, MarkStep
<1>5. CASE HTTP!Poll(c)
    <2>1. /\ calls[c].step = "poll"
          /\ \E call \in {NoCall, calls[c], [calls[c] EXCEPT !.step = "delete"]} : Continue(c, call)
        BY <1>5, HttpMeans DEF HTTP!Poll
    <2> QED
        BY <2>1, PollStep
<1>6. CASE HTTP!TimeOut(c) \/ HTTP!DeleteDrained(c)
    <2>1. /\ calls[c].step \in {"poll", "delete"}
          /\ Commit(c, calls[c].key, Deleted(calls[c].key), NoCall)
        BY <1>6, HttpMeans DEF HTTP!TimeOut, HTTP!DeleteDrained
    <2> QED
        BY <2>1, RemoveStep
<1>7. CASE HTTP!SweepDrones(c)
    <2>1. calls[c].step = "sweep"
        BY <1>7, HttpMeans DEF HTTP!SweepDrones
    <2>2. PICK d \in calls[c].todo :
             LET rest == [calls[c] EXCEPT !.todo = @ \ {d}]
             IN  HTTP!Commit(c, d, HTTP!Updated(d, "stopping"),
                      IF d \in DOMAIN store /\ rest.then = "purge"
                      THEN [rest EXCEPT !.step = "purge", !.key = d] ELSE HTTP!Left(rest))
        BY <1>7 DEF HTTP!SweepDrones
    <2> DEFINE rest == [calls[c] EXCEPT !.todo = @ \ {d}]
    <2>3. Commit(c, d, Updated(d, "stopping"),
                 IF d \in DOMAIN store /\ rest.then = "purge"
                 THEN [rest EXCEPT !.step = "purge", !.key = d] ELSE Left(rest))
        BY <2>2, HttpMeans
    <2> HIDE DEF rest
    <2> QED
        BY <2>1, <2>3, SweepStep DEF rest
<1>8. CASE HTTP!PurgeDrone(c)
    <2>1. /\ calls[c].step = "purge"
          /\ Commit(c, calls[c].key, Deleted(calls[c].key), Left(calls[c]))
        BY <1>8, HttpMeans DEF HTTP!PurgeDrone
    <2> QED
        BY <2>1, PurgeStep
<1>9. CASE HTTP!DeleteCell(c)
    <2>1. Commit(c, "cell", Deleted("cell"), NoCall)
        BY <1>9, HttpMeans DEF HTTP!DeleteCell, HTTP!Served
    <2> QED
        BY <2>1, KeysApart, DeleteStep DEF Kinds
<1>10. CASE HTTP!DeleteAgentSpec(c)
    <2>1. Commit(c, "spec", Deleted("spec"), NoCall)
        BY <1>10, HttpMeans DEF HTTP!DeleteAgentSpec, HTTP!Served
    <2> QED
        BY <2>1, KeysApart, DeleteStep DEF Kinds
<1>11. CASE HTTP!DeleteSecret(c)
    <2>1. Commit(c, "secret", Deleted("secret"), NoCall)
        BY <1>11, HttpMeans DEF HTTP!DeleteSecret, HTTP!Served
    <2> QED
        BY <2>1, KeysApart, DeleteStep DEF Kinds
<1>12. CASE HTTP!DeleteHive(c)
    <2>1. \E h \in StoredHives : Commit(c, h, Deleted(h), NoCall)
        BY <1>12, HttpMeans DEF HTTP!DeleteHive, HTTP!Served
    <2> QED
        BY <2>1, HiveHas, DeleteStep
<1>13. CASE HTTP!DeleteDrone(c)
    <2>1. \E d \in StoredDrones : Commit(c, d, Deleted(d), NoCall)
        BY <1>13, HttpMeans DEF HTTP!DeleteDrone, HTTP!Served
    <2> QED
        BY <2>1, DroneKey, DeleteStep DEF StoredDrones
<1>14. CASE HTTP!CreateSecret(c)
    <2>1. Commit(c, "secret", Created("secret", "full"), NoCall)
        BY <1>14, HttpMeans DEF HTTP!CreateSecret, HTTP!Served
    <2> QED
        BY <2>1, KeysApart, CreateStep DEF Kinds
<1>15. CASE HTTP!UpdateSecret(c)
    <2>1. \E data \in {"full", "empty"} : Commit(c, "secret", Updated("secret", data), NoCall)
        BY <1>15, HttpMeans DEF HTTP!UpdateSecret, HTTP!Served
    <2> QED
        BY <2>1, KeysApart, ReplaceStep DEF Kinds
<1>16. CASE HTTP!CreateHive(c)
    <2>1. PICK h \in Hives : HTTP!Continue(c, HTTP!Call("rest", "count", h, HTTP!Quota))
        BY <1>16 DEF HTTP!CreateHive
    <2>2. Continue(c, Call("rest", "count", h, Quota))
        BY <2>1, HttpMeans
    <2> QED
        BY <2>2, AskStep
<1>17. CASE HTTP!ScaleHive(c)
    <2>1. PICK h \in StoredHives, n \in Replicas, stages \in {{s} : s \in Stages} \cup {Stages} :
             HTTP!Continue(c, [HTTP!Call("rest", "scale", h, HTTP!Scaled(store[h], stages, n))
                              EXCEPT !.sets = stages])
        BY <1>17, HttpMeans DEF HTTP!ScaleHive
    <2>2. Continue(c, [Call("rest", "scale", h, Scaled(store[h], stages, n)) EXCEPT !.sets = stages])
        BY <2>1, HttpMeans
    <2> QED
        BY <2>2, ScaleHiveStep
<1>18. CASE HTTP!ScaleAgentSpec(c)
    <2>1. /\ "spec" \in DOMAIN store
          /\ \E n \in Replicas :
                Continue(c, [Call("rest", "scale", "spec",
                                  [store["spec"] EXCEPT !.scaling = [min |-> n, max |-> n]])
                               EXCEPT !.sets = {"scaling"}])
        BY <1>18, HttpMeans DEF HTTP!ScaleAgentSpec
    <2> QED
        BY <2>1, ScaleSpecStep
<1>19. CASE HTTP!DrainDrone(c)
    <2>1. PICK d \in StoredDrones, then \in {"delete", "poll"} :
             HTTP!Continue(c, [HTTP!Call("rest", "mark", d, "stopping") EXCEPT !.then = then])
        BY <1>19, HttpMeans DEF HTTP!DrainDrone
    <2>2. Continue(c, [Call("rest", "mark", d, "stopping") EXCEPT !.then = then])
        BY <2>1, HttpMeans
    <2> QED
        BY <2>2, DrainStep
<1>20. CASE HTTP!DrainAgentSpec(c)
    <2>1. \E then \in {"purge", "sweep"} :
             Continue(c, [Call("rest", "sweep", NoKey, "stopping") EXCEPT !.then = then,
                                                                         !.todo = StoredDrones])
        BY <1>20, HttpMeans DEF HTTP!DrainAgentSpec
    <2> QED
        BY <2>1, DrainAllStep
<1>21. CASE HTTP!CreateCell(c)
    <2>1. Commit(c, "cell", Created("cell", FirstCell), NoCall) /\ FirstCell \in Docs("cell")
        BY <1>21, HttpMeans, FirstDocs DEF HTTP!CreateCell, HTTP!Served
    <2> QED
        BY <2>1, KeysApart, CreateStep DEF Kinds
<1>22. CASE HTTP!CreateAgentSpec(c)
    <2>1. Commit(c, "spec", Created("spec", FirstSpec), NoCall) /\ FirstSpec \in Docs("spec")
        BY <1>22, HttpMeans, FirstDocs DEF HTTP!CreateAgentSpec, HTTP!Served
    <2> QED
        BY <2>1, KeysApart, CreateStep DEF Kinds
<1>23. CASE HTTP!UpdateCell(c) \/ HTTP!UpdateAgentSpec(c) \/ HTTP!UpdateHive(c)
    <2>1. HTTP!At(c, "rest", "put")
        BY <1>23 DEF HTTP!UpdateCell, HTTP!UpdateAgentSpec, HTTP!UpdateHive, HTTP!Put
    <2>2. \E new \in {store, HTTP!Updated(calls[c].key, calls[c].held)} :
             HTTP!Commit(c, calls[c].key, new, HTTP!NoCall)
        BY <1>23 DEF HTTP!UpdateCell, HTTP!UpdateAgentSpec, HTTP!UpdateHive, HTTP!Put
    <2>3. calls[c].step = "put" /\ Doc(calls[c]) = calls[c].held
        BY <2>1, HttpMeans DEF Doc
    <2>4. \E new \in {store, Updated(calls[c].key, calls[c].held)} :
             Commit(c, calls[c].key, new, NoCall)
        BY <2>2, HttpMeans
    <2> QED
        BY <2>3, <2>4, WriteBackStep
<1>24. CASE HTTP!GetCell(c)
    <2>1. /\ "cell" \in DOMAIN store
          /\ Continue(c, Call("rest", "put", "cell", [store["cell"] EXCEPT !.quota.memory = 1 - @]))
        BY <1>24, HttpMeans DEF HTTP!GetCell
    <2> QED
        BY <2>1, ReadCellStep
<1>25. CASE HTTP!GetAgentSpec(c)
    <2>1. /\ "spec" \in DOMAIN store
          /\ HTTP!Continue(c, HTTP!Call("rest", "put", "spec",
                                        HTTP!WithLimit(store["spec"], store["spec"].guardrails)))
        BY <1>25 DEF HTTP!GetAgentSpec, HTTP!Read
    <2>2. Continue(c, Call("rest", "put", "spec", WithLimit(store["spec"], store["spec"].guardrails)))
        BY <2>1, HttpMeans
    <2> QED
        BY <2>1, <2>2, ReadSpecStep
<1>26. CASE HTTP!GetHive(c)
    <2>1. PICK h \in StoredHives :
             HTTP!Continue(c, HTTP!Call("rest", "put", h,
                                        HTTP!WithLimit(store[h], store[h].guardrails)))
        BY <1>26, HttpMeans DEF HTTP!GetHive, HTTP!Read
    <2>2. Continue(c, Call("rest", "put", h, WithLimit(store[h], store[h].guardrails)))
        BY <2>1, HttpMeans
    <2> QED
        BY <2>2, ReadHiveStep
<1>27. CASE HTTP!Apply(c)
    <2>1. PICK h \in Hives :
             \/ /\ h \in DOMAIN store
                /\ HTTP!Continue(c, [HTTP!Call("rest", "put", h, HTTP!NewHive)
                                       EXCEPT !.sets = Stages \cup {"budget"}])
             \/ HTTP!Continue(c, HTTP!Call("rest", "post", h, NoKey))
        BY <1>27 DEF HTTP!Apply
    <2>2. CASE /\ h \in DOMAIN store
               /\ HTTP!Continue(c, [HTTP!Call("rest", "put", h, HTTP!NewHive)
                                      EXCEPT !.sets = Stages \cup {"budget"}])
        <3>1. h \in StoredHives
            BY <2>2 DEF StoredHives
        <3>2. Continue(c, [Call("rest", "put", h, NewHive) EXCEPT !.sets = Stages \cup {"budget"}])
            BY <2>2, HttpMeans
        <3> QED
            BY <3>1, <3>2, ManifestStep
    <2>3. CASE HTTP!Continue(c, HTTP!Call("rest", "post", h, NoKey))
        <3>1. Continue(c, Call("rest", "post", h, NoKey))
            BY <2>3, HttpMeans
        <3> QED
            BY <3>1, PostStep
    <2> QED
        BY <2>1, <2>2, <2>3
<1>28. CASE HTTP!PostManifest(c)
    <2>1. calls[c].step = "post"
        BY <1>28, HttpMeans DEF HTTP!PostManifest
    <2>2. \/ HTTP!Continue(c, HTTP!Call("rest", "count", calls[c].key, HTTP!Quota))
          \/ HTTP!Continue(c, HTTP!NoCall)
        BY <1>28 DEF HTTP!PostManifest
    <2>3. Continue(c, Call("rest", "count", calls[c].key, Quota)) \/ Continue(c, NoCall)
        BY <2>2, HttpMeans
    <2>4. calls[c].key \in Hives
        BY <2>1, CallKnown DEF Sound, KeyOfStep
    <2> QED
        BY <2>3, <2>4, AskStep, EndStep
<1>29. CASE HTTP!AssignRoleHandler(c) \/ HTTP!RemoveRoleHandler(c)
    <2>1. UNCHANGED <<store, calls, granted>> /\ UNCHANGED <<letters, arrived, withdrawn>>
        BY <1>29 DEF HTTP!AssignRoleHandler, HTTP!RemoveRoleHandler
    <2> QED
        BY <2>1, QuietStep DEF QueueReason
<1>30. CASE HTTP!DeleteDLQMessage(c) \/ HTTP!ClearDLQ(c)
    <2>1. UNCHANGED <<store, calls, granted>>
        BY <1>30 DEF HTTP!DeleteDLQMessage, HTTP!ClearDLQ
    <2> QED
        BY <1>30, <2>1, QuietStep DEF QueueReason
<1> QED
    BY <1>1, <1>2, <1>3, <1>4, <1>5, <1>6, <1>7, <1>8, <1>9, <1>10, <1>11, <1>12,
       <1>13, <1>14, <1>15, <1>16, <1>17, <1>18, <1>19, <1>20, <1>21, <1>22, <1>23,
       <1>24, <1>25, <1>26, <1>27, <1>28, <1>29, <1>30 DEF ServeHTTP, RequestHTTP

LEMMA GrpcStep ==
    ASSUME ServerInv, NEW c \in Clients, ServeGRPC(c) \/ RequestGRPC(c)
    PROVE  Good
<1>1. CASE GRPC!CheckResourceQuotaForHive(c)
    <2>1. /\ calls[c].step = "count"
          /\ Continue(c, IF QuotaReached(calls[c].held) THEN NoCall
                         ELSE [calls[c] EXCEPT !.step = "create"])
        BY <1>1, GrpcMeans DEF GRPC!CheckResourceQuotaForHive
    <2> QED
        BY <2>1, CountStep
<1>2. CASE GRPC!StoreHive(c)
    <2>1. calls[c].step = "create"
        BY <1>2, GrpcMeans DEF GRPC!StoreHive
    <2> DEFINE doc == HiveFromProto(HiveToProto(NewHive))
    <2>2. doc \in HiveDocs
        BY FirstDocs, HiveBack
    <2>3. GRPC!HiveFromProto(GRPC!HiveToProto(GRPC!NewHive)) = doc
        BY GrpcMeans, ConversionMeans
    <2>4. GRPC!Commit(c, calls[c].key, GRPC!Created(calls[c].key, doc), GRPC!NoCall)
        BY <1>2, <2>3 DEF GRPC!StoreHive
    <2> HIDE DEF doc
    <2>5. Commit(c, calls[c].key, Created(calls[c].key, doc), NoCall)
        BY <2>4, GrpcMeans
    <2> QED
        BY <2>1, <2>2, <2>5, StoreStep
<1>3. CASE GRPC!StoreScaled(c)
    <2>1. calls[c].step = "scale"
        BY <1>3, GrpcMeans DEF GRPC!StoreScaled
    <2>2. Commit(c, calls[c].key, Updated(calls[c].key, calls[c].held), NoCall)
        BY <1>3, GrpcMeans DEF GRPC!StoreScaled
    <2>3. Doc(calls[c]) = calls[c].held
        BY <2>1 DEF Doc
    <2> QED
        BY <2>1, <2>2, <2>3, WriteBackStep
<1>4. CASE GRPC!MarkDraining(c)
    <2>1. /\ calls[c].step = "mark"
          /\ Commit(c, calls[c].key, Updated(calls[c].key, calls[c].held),
                    IF calls[c].key \in DOMAIN store THEN [calls[c] EXCEPT !.step = calls[c].then]
                    ELSE NoCall)
        BY <1>4, GrpcMeans DEF GRPC!MarkDraining
    <2> QED
        BY <2>1, MarkStep
<1>5. CASE GRPC!Poll(c)
    <2>1. /\ calls[c].step = "poll"
          /\ \E call \in {NoCall, calls[c], [calls[c] EXCEPT !.step = "delete"]} : Continue(c, call)
        BY <1>5, GrpcMeans DEF GRPC!Poll
    <2> QED
        BY <2>1, PollStep
<1>6. CASE GRPC!TimeOut(c) \/ GRPC!DeleteDrained(c)
    <2>1. /\ calls[c].step \in {"poll", "delete"}
          /\ Commit(c, calls[c].key, Deleted(calls[c].key), NoCall)
        BY <1>6, GrpcMeans DEF GRPC!TimeOut, GRPC!DeleteDrained
    <2> QED
        BY <2>1, RemoveStep
<1>7. CASE GRPC!SweepDrones(c)
    <2>1. calls[c].step = "sweep"
        BY <1>7, GrpcMeans DEF GRPC!SweepDrones
    <2>2. PICK d \in calls[c].todo :
             LET rest == [calls[c] EXCEPT !.todo = @ \ {d}]
             IN  GRPC!Commit(c, d, GRPC!Updated(d, "stopping"),
                      IF d \in DOMAIN store /\ rest.then = "purge"
                      THEN [rest EXCEPT !.step = "purge", !.key = d] ELSE GRPC!Left(rest))
        BY <1>7 DEF GRPC!SweepDrones
    <2> DEFINE rest == [calls[c] EXCEPT !.todo = @ \ {d}]
    <2>3. Commit(c, d, Updated(d, "stopping"),
                 IF d \in DOMAIN store /\ rest.then = "purge"
                 THEN [rest EXCEPT !.step = "purge", !.key = d] ELSE Left(rest))
        BY <2>2, GrpcMeans
    <2> HIDE DEF rest
    <2> QED
        BY <2>1, <2>3, SweepStep DEF rest
<1>8. CASE GRPC!PurgeDrone(c)
    <2>1. /\ calls[c].step = "purge"
          /\ Commit(c, calls[c].key, Deleted(calls[c].key), Left(calls[c]))
        BY <1>8, GrpcMeans DEF GRPC!PurgeDrone
    <2> QED
        BY <2>1, PurgeStep
<1>9. CASE GRPC!DeleteCell(c)
    <2>1. Commit(c, "cell", Deleted("cell"), NoCall)
        BY <1>9, GrpcMeans DEF GRPC!DeleteCell, GRPC!Served
    <2> QED
        BY <2>1, KeysApart, DeleteStep DEF Kinds
<1>10. CASE GRPC!DeleteAgentSpec(c)
    <2>1. Commit(c, "spec", Deleted("spec"), NoCall)
        BY <1>10, GrpcMeans DEF GRPC!DeleteAgentSpec, GRPC!Served
    <2> QED
        BY <2>1, KeysApart, DeleteStep DEF Kinds
<1>11. CASE GRPC!DeleteSecret(c)
    <2>1. Commit(c, "secret", Deleted("secret"), NoCall)
        BY <1>11, GrpcMeans DEF GRPC!DeleteSecret, GRPC!Served
    <2> QED
        BY <2>1, KeysApart, DeleteStep DEF Kinds
<1>12. CASE GRPC!DeleteHive(c)
    <2>1. \E h \in StoredHives : Commit(c, h, Deleted(h), NoCall)
        BY <1>12, GrpcMeans DEF GRPC!DeleteHive, GRPC!Served
    <2> QED
        BY <2>1, HiveHas, DeleteStep
<1>13. CASE GRPC!DeleteDrone(c)
    <2>1. \E d \in StoredDrones : Commit(c, d, Deleted(d), NoCall)
        BY <1>13, GrpcMeans DEF GRPC!DeleteDrone, GRPC!Served
    <2> QED
        BY <2>1, DroneKey, DeleteStep DEF StoredDrones
<1>14. CASE GRPC!CreateSecret(c)
    <2>1. Commit(c, "secret", Created("secret", "full"), NoCall)
        BY <1>14, GrpcMeans DEF GRPC!CreateSecret, GRPC!Served
    <2> QED
        BY <2>1, KeysApart, CreateStep DEF Kinds
<1>15. CASE GRPC!UpdateSecret(c)
    <2>1. \E data \in {"full", "empty"} : Commit(c, "secret", Updated("secret", data), NoCall)
        BY <1>15, GrpcMeans DEF GRPC!UpdateSecret, GRPC!Served
    <2> QED
        BY <2>1, KeysApart, ReplaceStep DEF Kinds
<1>16. CASE GRPC!CreateHive(c)
    <2>1. PICK h \in Hives : GRPC!Continue(c, GRPC!Call("grpc", "count", h, GRPC!Quota))
        BY <1>16 DEF GRPC!CreateHive
    <2>2. Continue(c, Call("grpc", "count", h, Quota))
        BY <2>1, GrpcMeans
    <2> QED
        BY <2>2, AskStep
<1>17. CASE GRPC!ScaleHive(c)
    <2>1. PICK h \in StoredHives, n \in Replicas, stages \in {{s} : s \in Stages} \cup {Stages} :
             GRPC!Continue(c, [GRPC!Call("grpc", "scale", h, GRPC!Scaled(store[h], stages, n))
                              EXCEPT !.sets = stages])
        BY <1>17, GrpcMeans DEF GRPC!ScaleHive
    <2>2. Continue(c, [Call("grpc", "scale", h, Scaled(store[h], stages, n)) EXCEPT !.sets = stages])
        BY <2>1, GrpcMeans
    <2> QED
        BY <2>2, ScaleHiveStep
<1>18. CASE GRPC!ScaleAgentSpec(c)
    <2>1. /\ "spec" \in DOMAIN store
          /\ \E n \in Replicas :
                Continue(c, [Call("grpc", "scale", "spec",
                                  [store["spec"] EXCEPT !.scaling = [min |-> n, max |-> n]])
                               EXCEPT !.sets = {"scaling"}])
        BY <1>18, GrpcMeans DEF GRPC!ScaleAgentSpec
    <2> QED
        BY <2>1, ScaleSpecStep
<1>19. CASE GRPC!DrainDrone(c)
    <2>1. PICK d \in StoredDrones, then \in {"delete", "poll"} :
             GRPC!Continue(c, [GRPC!Call("grpc", "mark", d, "stopping") EXCEPT !.then = then])
        BY <1>19, GrpcMeans DEF GRPC!DrainDrone
    <2>2. Continue(c, [Call("grpc", "mark", d, "stopping") EXCEPT !.then = then])
        BY <2>1, GrpcMeans
    <2> QED
        BY <2>2, DrainStep
<1>20. CASE GRPC!DrainAgentSpec(c)
    <2>1. \E then \in {"purge", "sweep"} :
             Continue(c, [Call("grpc", "sweep", NoKey, "stopping") EXCEPT !.then = then,
                                                                         !.todo = StoredDrones])
        BY <1>20, GrpcMeans DEF GRPC!DrainAgentSpec
    <2> QED
        BY <2>1, DrainAllStep
<1>21. CASE GRPC!CreateCell(c)
    <2> DEFINE doc == CellFromProto(CellToProto(FirstCell))
    <2>1. doc \in Docs("cell")
        BY FirstDocs, CellBack DEF Docs
    <2>2. GRPC!CellFromProto(GRPC!CellToProto(GRPC!FirstCell)) = doc
        BY GrpcMeans, ConversionMeans
    <2>3. GRPC!Commit(c, "cell", GRPC!Created("cell", doc), GRPC!NoCall)
        BY <1>21, <2>2 DEF GRPC!CreateCell, GRPC!Served
    <2> HIDE DEF doc
    <2>4. Commit(c, "cell", Created("cell", doc), NoCall)
        BY <2>3, GrpcMeans
    <2> QED
        BY <2>1, <2>4, KeysApart, CreateStep DEF Kinds
<1>22. CASE GRPC!CreateAgentSpec(c)
    <2> DEFINE doc == AgentSpecFromProto(AgentSpecToProto(FirstSpec))
    <2>1. doc \in Docs("spec")
        BY FirstDocs, SpecBack DEF Docs
    <2>2. GRPC!AgentSpecFromProto(GRPC!AgentSpecToProto(GRPC!FirstSpec)) = doc
        BY GrpcMeans, ConversionMeans
    <2>3. GRPC!Commit(c, "spec", GRPC!Created("spec", doc), GRPC!NoCall)
        BY <1>22, <2>2 DEF GRPC!CreateAgentSpec, GRPC!Served
    <2> HIDE DEF doc
    <2>4. Commit(c, "spec", Created("spec", doc), NoCall)
        BY <2>3, GrpcMeans
    <2> QED
        BY <2>1, <2>4, KeysApart, CreateStep DEF Kinds
<1>23. CASE GRPC!UpdateCell(c) \/ GRPC!UpdateAgentSpec(c) \/ GRPC!UpdateHive(c)
    <2>1. calls[c].step = "put" /\ calls[c].via = "grpc"
        BY <1>23, GrpcMeans DEF GRPC!UpdateCell, GRPC!UpdateAgentSpec, GRPC!UpdateHive, GRPC!Put
    <2>2. \E doc : /\ \/ calls[c].key = "cell" /\ doc = CellFromProto(calls[c].held)
                      \/ calls[c].key = "spec" /\ doc = AgentSpecFromProto(calls[c].held)
                      \/ calls[c].key \in Hives /\ doc = HiveFromProto(calls[c].held)
                   /\ \E new \in {store, GRPC!Updated(calls[c].key, doc)} :
                         GRPC!Commit(c, calls[c].key, new, GRPC!NoCall)
        <3>1. CASE GRPC!UpdateCell(c)
            <4> DEFINE doc == CellFromProto(calls[c].held)
            <4>1. GRPC!CellFromProto(calls[c].held) = doc
                BY ConversionMeans
            <4>2. doc = CellFromProto(calls[c].held)
                OBVIOUS
            <4> HIDE DEF doc
            <4>3. /\ calls[c].key = "cell"
                  /\ \E new \in {store, GRPC!Updated(calls[c].key, doc)} :
                        GRPC!Commit(c, calls[c].key, new, GRPC!NoCall)
                BY <3>1, <4>1 DEF GRPC!UpdateCell, GRPC!Put
            <4> QED
                BY <4>2, <4>3
        <3>2. CASE GRPC!UpdateAgentSpec(c)
            <4> DEFINE doc == AgentSpecFromProto(calls[c].held)
            <4>1. GRPC!AgentSpecFromProto(calls[c].held) = doc
                BY ConversionMeans
            <4>2. doc = AgentSpecFromProto(calls[c].held)
                OBVIOUS
            <4> HIDE DEF doc
            <4>3. /\ calls[c].key = "spec"
                  /\ \E new \in {store, GRPC!Updated(calls[c].key, doc)} :
                        GRPC!Commit(c, calls[c].key, new, GRPC!NoCall)
                BY <3>2, <4>1 DEF GRPC!UpdateAgentSpec, GRPC!Put
            <4> QED
                BY <4>2, <4>3
        <3>3. CASE GRPC!UpdateHive(c)
            BY <3>3, ConversionMeans DEF GRPC!UpdateHive, GRPC!Put
        <3> QED
            BY <1>23, <3>1, <3>2, <3>3
    <2>3. PICK doc : /\ \/ calls[c].key = "cell" /\ doc = CellFromProto(calls[c].held)
                        \/ calls[c].key = "spec" /\ doc = AgentSpecFromProto(calls[c].held)
                        \/ calls[c].key \in Hives /\ doc = HiveFromProto(calls[c].held)
                     /\ \E new \in {store, GRPC!Updated(calls[c].key, doc)} :
                           GRPC!Commit(c, calls[c].key, new, GRPC!NoCall)
        BY <2>2
    <2>4. Doc(calls[c]) = doc
        BY <2>1, <2>3, KeysApart DEF Doc
    <2>5. \E new \in {store, Updated(calls[c].key, doc)} : Commit(c, calls[c].key, new, NoCall)
        BY <2>3, GrpcMeans
    <2> QED
        BY <2>1, <2>4, <2>5, WriteBackStep
<1>24. CASE GRPC!GetCell(c)
    <2>1. /\ "cell" \in DOMAIN store
          /\ \E msg \in {CellToProto(store["cell"])} :
                /\ msg.quota # Missing
                /\ Continue(c, Call("grpc", "put", "cell", [msg EXCEPT !.quota.memory = 1 - @]))
        BY <1>24, GrpcMeans, ConversionMeans DEF GRPC!GetCell
    <2> QED
        BY <2>1, ReadCellMessageStep
<1>25. CASE GRPC!GetAgentSpec(c)
    <2> DEFINE msg == AgentSpecToProto(store["spec"])
               edited == WithLimit(msg, GuardrailConfigFromProto(msg.guardrails))
    <2>1. GRPC!Edited(GRPC!AgentSpecToProto(store["spec"])) = edited
        BY GrpcMeans, ConversionMeans DEF GRPC!Edited
    <2>2. "spec" \in DOMAIN store /\ GRPC!Continue(c, GRPC!Call("grpc", "put", "spec", edited))
        BY <1>25, <2>1 DEF GRPC!GetAgentSpec, GRPC!Read
    <2> HIDE DEF edited
    <2>3. Continue(c, Call("grpc", "put", "spec", edited))
        BY <2>2, GrpcMeans
    <2> HIDE DEF msg
    <2> QED
        BY <2>2, <2>3, ReadSpecMessageStep DEF edited, msg
<1>26. CASE GRPC!GetHive(c)
    <2>1. PICK h \in StoredHives :
             GRPC!Continue(c, GRPC!Call("grpc", "put", h, GRPC!Edited(GRPC!HiveToProto(store[h]))))
        BY <1>26, GrpcMeans DEF GRPC!GetHive, GRPC!Read
    <2> DEFINE msg == HiveToProto(store[h])
               edited == WithLimit(msg, GuardrailConfigFromProto(msg.guardrails))
    <2>2. GRPC!Edited(GRPC!HiveToProto(store[h])) = edited
        BY GrpcMeans, ConversionMeans DEF GRPC!Edited
    <2>3. GRPC!Continue(c, GRPC!Call("grpc", "put", h, edited))
        BY <2>1, <2>2
    <2> HIDE DEF edited
    <2>4. Continue(c, Call("grpc", "put", h, edited))
        BY <2>3, GrpcMeans
    <2> HIDE DEF msg
    <2> QED
        BY <2>4, ReadHiveMessageStep DEF edited, msg
<1> QED
    BY <1>1, <1>2, <1>3, <1>4, <1>5, <1>6, <1>7, <1>8, <1>9, <1>10, <1>11, <1>12,
       <1>13, <1>14, <1>15, <1>16, <1>17, <1>18, <1>19, <1>20, <1>21, <1>22, <1>23,
       <1>24, <1>25, <1>26 DEF ServeGRPC, RequestGRPC


--------------------------------------------------------------------------------
(* The dead letter queue: ids in the order of arrival.                     *)

Increasing(s) == \A i, j \in DOMAIN s : i < j => s[i] < s[j]

QueueInv ==
    /\ arrived \in Nat /\ withdrawn \subseteq 1 .. arrived
    /\ letters \in Seq(Nat) /\ Range(letters) \subseteq 1 .. arrived
    /\ OldestGoesFirst

LEMMA WithoutOldest ==
    ASSUME NEW s \in Seq(Nat), s # <<>>, Increasing(s)
    PROVE  /\ Tail(s) \in Seq(Nat) /\ Len(Tail(s)) = Len(s) - 1 /\ Increasing(Tail(s))
           /\ Range(Tail(s)) \subseteq Range(s)
           /\ \A id \in Range(s) \ Range(Tail(s)) : \A kept \in Range(Tail(s)) : id < kept
<1>1. Len(s) \in Nat /\ Len(s) > 0 /\ DOMAIN s = 1 .. Len(s)
    BY LenProperties, EmptySeq
<1>2. /\ Tail(s) \in Seq(Nat) /\ Len(Tail(s)) = Len(s) - 1
      /\ DOMAIN Tail(s) = 1 .. Len(s) - 1
      /\ \A i \in 1 .. Len(s) - 1 : i + 1 \in DOMAIN s /\ Tail(s)[i] = s[i + 1]
    BY <1>1
<1>3. Increasing(Tail(s))
    BY <1>1, <1>2 DEF Increasing
<1>4. Range(Tail(s)) \subseteq Range(s)
    BY <1>2 DEF Range
<1>5. ASSUME NEW id \in Range(s) \ Range(Tail(s)), NEW kept \in Range(Tail(s)) PROVE id < kept
    <2>1. PICK i \in DOMAIN s : s[i] = id
        BY <1>5 DEF Range
    <2>2. i = 1
        <3>1. ASSUME i > 1 PROVE FALSE
            <4>1. i - 1 \in 1 .. Len(s) - 1 /\ (i - 1) + 1 = i
                BY <1>1, <3>1
            <4>2. Tail(s)[i - 1] = id
                BY <1>2, <2>1, <4>1
            <4> QED
                BY <1>2, <1>5, <4>1, <4>2 DEF Range
        <3> QED
            BY <1>1, <3>1
    <2>3. PICK j \in 1 .. Len(s) - 1 : Tail(s)[j] = kept
        BY <1>2, <1>5 DEF Range
    <2>4. kept = s[j + 1] /\ j + 1 \in DOMAIN s /\ 1 < j + 1
        BY <1>1, <1>2, <2>3
    <2> QED
        BY <1>1, <2>1, <2>2, <2>4 DEF Increasing
<1> QED
    BY <1>2, <1>3, <1>4, <1>5

LEMMA WithNewest ==
    ASSUME NEW s \in Seq(Nat), Increasing(s), NEW n \in Nat, \A id \in Range(s) : id < n
    PROVE  /\ Append(s, n) \in Seq(Nat) /\ Len(Append(s, n)) = Len(s) + 1
           /\ Increasing(Append(s, n)) /\ Range(Append(s, n)) = Range(s) \cup {n}
<1> DEFINE r == Append(s, n)
<1>1. /\ Len(s) \in Nat /\ DOMAIN s = 1 .. Len(s) /\ r \in Seq(Nat) /\ Len(r) = Len(s) + 1
      /\ DOMAIN r = 1 .. Len(s) + 1
      /\ \A i \in 1 .. Len(s) : r[i] = s[i]
      /\ r[Len(s) + 1] = n
    BY AppendProperties, LenProperties
<1> HIDE DEF r
<1>2. \A i \in DOMAIN r : i = Len(s) + 1 \/ i \in 1 .. Len(s)
    BY <1>1
<1>3. Range(r) = Range(s) \cup {n}
    <2>1. Range(r) \subseteq Range(s) \cup {n}
        BY <1>1, <1>2 DEF Range
    <2>2. Len(s) + 1 \in DOMAIN r /\ 1 .. Len(s) \subseteq DOMAIN r
        BY <1>1
    <2> QED
        BY <1>1, <2>1, <2>2 DEF Range
<1>4. Increasing(r)
    <2> SUFFICES ASSUME NEW i \in DOMAIN r, NEW j \in DOMAIN r, i < j PROVE r[i] < r[j]
        BY DEF Increasing
    <2>1. i \in 1 .. Len(s)
        BY <1>1, <1>2
    <2>2. CASE j = Len(s) + 1
        BY <1>1, <2>1, <2>2 DEF Range
    <2>3. CASE j \in 1 .. Len(s)
        BY <1>1, <2>1, <2>3 DEF Increasing
    <2> QED
        BY <1>2, <2>2, <2>3
<1> QED
    BY <1>1, <1>3, <1>4 DEF r

LEMMA CutProperties ==
    ASSUME NEW S, NEW s \in Seq(S), NEW i \in 1 .. Len(s)
    PROVE  LET t == SubSeq(s, 1, i - 1) \o SubSeq(s, i + 1, Len(s))
           IN  /\ t \in Seq(S) /\ Len(t) = Len(s) - 1
               /\ \A j \in 1 .. Len(s) - 1 : t[j] = IF j < i THEN s[j] ELSE s[j + 1]
<1> DEFINE front == SubSeq(s, 1, i - 1)
           back == SubSeq(s, i + 1, Len(s))
<1>1. front \in Seq(S) /\ Len(front) = i - 1 /\ \A j \in 1 .. i - 1 : front[j] = s[j]
    BY SubSeqProperties
<1>2. back \in Seq(S) /\ Len(back) = Len(s) - i /\ \A j \in 1 .. Len(s) - i : back[j] = s[i + j]
    BY SubSeqProperties
<1> HIDE DEF front, back
<1>3. /\ front \o back \in Seq(S) /\ Len(front \o back) = Len(front) + Len(back)
      /\ \A j \in 1 .. Len(front) + Len(back) :
            (front \o back)[j] = IF j <= Len(front) THEN front[j] ELSE back[j - Len(front)]
    BY <1>1, <1>2, ConcatProperties
<1>4. \A j \in 1 .. Len(s) - 1 : (front \o back)[j] = IF j < i THEN s[j] ELSE s[j + 1]
    <2> SUFFICES ASSUME NEW j \in 1 .. Len(s) - 1
                 PROVE  (front \o back)[j] = IF j < i THEN s[j] ELSE s[j + 1]
        OBVIOUS
    <2>1. CASE j < i
        BY <1>1, <1>2, <1>3, <2>1
    <2>2. CASE j >= i
        <3>1. (front \o back)[j] = back[j - (i - 1)]
            BY <1>1, <1>2, <1>3, <2>2
        <3>2. j - (i - 1) \in 1 .. Len(s) - i
            BY <2>2
        <3> QED
            BY <1>2, <2>2, <3>1, <3>2
    <2>3. j < i \/ j >= i
        <3>1. Len(s) \in Nat
            BY LenProperties
        <3> QED
            BY <3>1
    <2> QED
        BY <2>1, <2>2, <2>3, Zenon
<1>5. front \o back \in Seq(S) /\ Len(front \o back) = Len(s) - 1
    BY <1>1, <1>2, <1>3, LenProperties
<1> QED
    BY <1>4, <1>5 DEF front, back

\* Taking the i-th message out leaves the others in their order.
LEMMA WithoutOne ==
    ASSUME NEW s \in Seq(Nat), Increasing(s), NEW i \in 1 .. Len(s),
           NEW t \in Seq(Nat), Len(t) = Len(s) - 1,
           \A j \in 1 .. Len(s) - 1 : t[j] = IF j < i THEN s[j] ELSE s[j + 1]
    PROVE  /\ Increasing(t)
           /\ Range(t) \subseteq Range(s) /\ Range(s) \subseteq Range(t) \cup {s[i]}
<1>1. Len(s) \in Nat /\ DOMAIN s = 1 .. Len(s) /\ DOMAIN t = 1 .. Len(s) - 1
    BY LenProperties
<1> DEFINE place(j) == IF j < i THEN j ELSE j + 1
<1>2. \A j \in 1 .. Len(s) - 1 : place(j) \in 1 .. Len(s) /\ t[j] = s[place(j)]
    BY <1>1
<1>3. \A j, k \in 1 .. Len(s) - 1 : j < k => place(j) < place(k)
    BY <1>1
<1> HIDE DEF place
<1>4. Increasing(t)
    <2> SUFFICES ASSUME NEW j \in DOMAIN t, NEW k \in DOMAIN t, j < k PROVE t[j] < t[k]
        BY DEF Increasing
    <2>1. /\ place(j) \in DOMAIN s /\ place(k) \in DOMAIN s /\ place(j) < place(k)
          /\ t[j] = s[place(j)] /\ t[k] = s[place(k)]
        BY <1>1, <1>2, <1>3
    <2> QED
        BY <2>1 DEF Increasing
<1>5. Range(t) \subseteq Range(s)
    <2> SUFFICES ASSUME NEW j \in DOMAIN t PROVE t[j] \in Range(s)
        BY DEF Range
    <2>1. place(j) \in DOMAIN s /\ t[j] = s[place(j)]
        BY <1>1, <1>2
    <2> QED
        BY <2>1 DEF Range
<1>6. ASSUME NEW j \in 1 .. Len(s), j # i PROVE s[j] \in Range(t)
    <2>1. CASE j < i
        <3>1. j \in 1 .. Len(s) - 1
            BY <1>1, <2>1
        <3>2. t[j] = s[j]
            BY <2>1, <3>1
        <3> QED
            BY <1>1, <3>1, <3>2 DEF Range
    <2>2. CASE j > i
        <3>1. j - 1 \in 1 .. Len(s) - 1 /\ ~(j - 1 < i) /\ (j - 1) + 1 = j
            BY <1>1, <2>2
        <3>2. t[j - 1] = s[(j - 1) + 1]
            BY <3>1
        <3> QED
            BY <1>1, <3>1, <3>2 DEF Range
    <2> QED
        BY <1>6, <2>1, <2>2
<1>7. Range(s) \subseteq Range(t) \cup {s[i]}
    BY <1>1, <1>6 DEF Range
<1> QED
    BY <1>4, <1>5, <1>7

LEMMA MessageDeleted ==
    ASSUME NEW s \in Seq(Nat), Increasing(s), NEW id \in Range(s)
    PROVE  LET t == HTTP!DeleteMessage(s, id)
           IN  /\ t \in Seq(Nat) /\ Len(t) = Len(s) - 1 /\ Increasing(t)
               /\ Range(t) \subseteq Range(s) /\ Range(s) \subseteq Range(t) \cup {id}
<1>1. PICK i \in 1 .. Len(s) : s[i] = id
    BY LenProperties DEF Range
<1>2. \A j \in 1 .. Len(s) : s[j] = id => j = i
    BY <1>1, LenProperties DEF Increasing
<1>3. {j \in 1 .. Len(s) : s[j] = id} = {i}
    BY <1>1, <1>2
<1>4. HTTP!DeleteMessage(s, id) = HTTP!RemoveFirst(s, id)
    BY <1>1, LenProperties DEF HTTP!DeleteMessage, HTTP!HasMessage
<1>5. HTTP!RemoveFirst(s, id) = HTTP!RemoveAt(s, i)
    <2>1. HTTP!Min({i}) = i
        BY DEF HTTP!Min
    <2> QED
        BY <1>1, <1>3, <2>1 DEF HTTP!RemoveFirst, HTTP!SelectInSeq
<1>6. HTTP!RemoveAt(s, i) = SubSeq(s, 1, i - 1) \o SubSeq(s, i + 1, Len(s))
    BY DEF HTTP!RemoveAt
<1> DEFINE t == SubSeq(s, 1, i - 1) \o SubSeq(s, i + 1, Len(s))
<1>7. /\ t \in Seq(Nat) /\ Len(t) = Len(s) - 1
      /\ \A j \in 1 .. Len(s) - 1 : t[j] = IF j < i THEN s[j] ELSE s[j + 1]
    BY CutProperties
<1>8. HTTP!DeleteMessage(s, id) = t
    BY <1>4, <1>5, <1>6
<1> HIDE DEF t
<1>9. Increasing(t) /\ Range(t) \subseteq Range(s) /\ Range(s) \subseteq Range(t) \cup {s[i]}
    BY <1>7, WithoutOne
<1> QED
    BY <1>1, <1>7, <1>8, <1>9

LEMMA QueueInvFrom ==
    ASSUME letters' \in Seq(Nat), Increasing(letters'), Len(letters') <= MaxLetters,
           arrived' \in Nat, withdrawn' \subseteq 1 .. arrived',
           Range(letters') \subseteq 1 .. arrived',
           \A id \in (1 .. arrived') \ (withdrawn' \cup Range(letters')) :
              \A kept \in Range(letters') : id < kept
    PROVE  QueueInv'
<1>1. OldestGoesFirst'
    BY DEF OldestGoesFirst, Increasing
<1> QED
    BY <1>1 DEF QueueInv

LEMMA QueueStep ==
    ASSUME QueueInv, AddToQueue \/ QueueReason
    PROVE  QueueInv'
<1>0. /\ Increasing(letters) /\ Len(letters) \in Nat /\ Len(letters) <= MaxLetters
      /\ \A id \in (1 .. arrived) \ (withdrawn \cup Range(letters)) :
            \A kept \in Range(letters) : id < kept
    BY LenProperties DEF QueueInv, OldestGoesFirst, Increasing
<1>1. CASE UNCHANGED <<letters, arrived, withdrawn>>
    BY <1>1 DEF QueueInv, OldestGoesFirst
<1>2. CASE AddToQueue
    <2> DEFINE rest == IF Len(letters) >= MaxLetters THEN Tail(letters) ELSE letters
    <2>1. /\ letters' = Append(rest, arrived + 1) /\ arrived' = arrived + 1
          /\ withdrawn' = withdrawn
        BY <1>2 DEF AddToQueue, AddMessage
    <2>2. /\ rest \in Seq(Nat) /\ Increasing(rest) /\ Len(rest) + 1 <= MaxLetters
          /\ Len(rest) \in Nat /\ Range(rest) \subseteq Range(letters)
          /\ \A id \in Range(letters) \ Range(rest) : \A kept \in Range(rest) : id < kept
        <3>1. CASE Len(letters) >= MaxLetters
            <4>1. letters # <<>>
                BY <1>0, <3>1, MaxLettersAssumption, EmptySeq
            <4> QED
                BY <1>0, <3>1, <4>1, MaxLettersAssumption, WithoutOldest DEF QueueInv
        <3>2. CASE ~(Len(letters) >= MaxLetters)
            BY <1>0, <3>2, MaxLettersAssumption DEF QueueInv
        <3> QED
            BY <3>1, <3>2
    <2> HIDE DEF rest
    <2>3. arrived \in Nat /\ arrived + 1 \in Nat /\ \A id \in Range(rest) : id \in 1 .. arrived
        BY <2>2 DEF QueueInv
    <2>4. /\ letters' \in Seq(Nat) /\ Len(letters') = Len(rest) + 1 /\ Increasing(letters')
          /\ Range(letters') = Range(rest) \cup {arrived + 1}
        BY <2>1, <2>2, <2>3, WithNewest
    <2>5. ASSUME NEW id \in (1 .. arrived') \ (withdrawn' \cup Range(letters')),
                 NEW kept \in Range(letters')
          PROVE  id < kept
        <3>1. id \in 1 .. arrived /\ id \notin withdrawn /\ id \notin Range(rest)
            BY <2>1, <2>3, <2>4, <2>5
        <3>2. CASE kept = arrived + 1
            BY <2>3, <3>1, <3>2
        <3>3. CASE kept \in Range(rest)
            <4>1. CASE id \in Range(letters)
                BY <2>2, <3>1, <3>3, <4>1
            <4>2. CASE id \notin Range(letters)
                BY <1>0, <2>2, <3>1, <3>3, <4>2
            <4> QED
                BY <4>1, <4>2
        <3> QED
            BY <2>4, <2>5, <3>2, <3>3
    <2>6. arrived' \in Nat /\ withdrawn' \subseteq 1 .. arrived' /\ Range(letters') \subseteq 1 .. arrived'
        BY <2>1, <2>3, <2>4 DEF QueueInv
    <2>7. Len(letters') <= MaxLetters
        BY <2>2, <2>4
    <2> QED
        BY <2>4, <2>5, <2>6, <2>7, QueueInvFrom
\* What callers take out, one message or all of them.
<1>3. ASSUME NEW c \in Clients, HTTP!DeleteDLQMessage(c)
      PROVE  QueueInv'
    <2>1. PICK id \in HTTP!Range(letters) :
             letters' = HTTP!DeleteMessage(letters, id) /\ withdrawn' = withdrawn \cup {id}
        BY <1>3 DEF HTTP!DeleteDLQMessage
    <2>2. arrived' = arrived
        BY <1>3 DEF HTTP!DeleteDLQMessage
    <2>3. id \in Range(letters)
        BY <2>1 DEF HTTP!Range, Range
    <2>4. /\ letters' \in Seq(Nat) /\ Len(letters') = Len(letters) - 1 /\ Increasing(letters')
          /\ Range(letters') \subseteq Range(letters)
          /\ Range(letters) \subseteq Range(letters') \cup {id}
        BY <1>0, <2>1, <2>3, MessageDeleted DEF QueueInv
    <2>5. \A x \in (1 .. arrived') \ (withdrawn' \cup Range(letters')) :
             \A kept \in Range(letters') : x < kept
        BY <1>0, <2>1, <2>2, <2>4
    <2>6. /\ arrived' \in Nat
          /\ withdrawn' \subseteq 1 .. arrived' /\ Range(letters') \subseteq 1 .. arrived'
        BY <2>1, <2>2, <2>3, <2>4 DEF QueueInv
    <2>7. Len(letters') <= MaxLetters
        BY <1>0, <2>4, MaxLettersAssumption
    <2> QED
        BY <2>4, <2>5, <2>6, <2>7, QueueInvFrom
<1>4. ASSUME NEW c \in Clients, HTTP!ClearDLQ(c)
      PROVE  QueueInv'
    <2>1. /\ letters' = <<>> /\ withdrawn' = withdrawn \cup Range(letters) /\ arrived' = arrived
        BY <1>4 DEF HTTP!ClearDLQ, HTTP!ClearMessages, HTTP!Range, Range
    <2>2. letters' \in Seq(Nat) /\ Len(letters') = 0 /\ DOMAIN letters' = {} /\ Range(letters') = {}
        BY <2>1, EmptySeq DEF Range
    <2>3. Increasing(letters') /\ Len(letters') <= MaxLetters
        BY <2>2, MaxLettersAssumption DEF Increasing
    <2>4. /\ arrived' \in Nat
          /\ withdrawn' \subseteq 1 .. arrived' /\ Range(letters') \subseteq 1 .. arrived'
        BY <2>1, <2>2 DEF QueueInv
    <2>5. \A x \in (1 .. arrived') \ (withdrawn' \cup Range(letters')) :
             \A kept \in Range(letters') : x < kept
        BY <2>2
    <2> QED
        BY <2>2, <2>3, <2>4, <2>5, QueueInvFrom
<1> QED
    BY <1>1, <1>2, <1>3, <1>4 DEF QueueReason


--------------------------------------------------------------------------------
(* The specification.                                                      *)

Inv == ServerInv /\ QueueInv

LEMMA InitStored ==
    ASSUME Init
    PROVE  StoreInv /\ StoredHives = {FirstHive} /\ granted \in Nat
           /\ "cell" \in DOMAIN store /\ store["cell"].quota.hives = granted
<1>1. /\ DOMAIN store = {"cell", "spec", FirstHive} \cup Drones
      /\ \A k \in DOMAIN store :
            store[k] = CASE k = "cell" -> FirstCell [] k = "spec" -> FirstSpec
                         [] k = FirstHive -> NewHive [] OTHER -> "running"
    BY DEF Init
<1>2. /\ FirstHive \in Hives /\ FirstHive \notin Kinds /\ FirstHive \notin Drones
      /\ "cell" \notin Hives /\ "spec" \notin Hives
      /\ Drones \cap Hives = {} /\ "cell" \notin Drones /\ "spec" \notin Drones
    BY HiveAssumption, NamesAssumption DEF Kinds
<1>3. DOMAIN store \subseteq Keys
    BY <1>1, <1>2 DEF Keys, Kinds
<1>4. /\ "cell" \in DOMAIN store /\ store["cell"] = FirstCell
      /\ "spec" \in DOMAIN store /\ store["spec"] = FirstSpec
      /\ FirstHive \in DOMAIN store /\ store[FirstHive] = NewHive
    BY <1>1, <1>2 DEF Kinds
<1>5. granted = MaxHives /\ MaxHives \in Nat
    BY NumbersAssumption DEF Init
<1>6. FirstCell \in CellDocs /\ FirstCell.quota.hives = MaxHives
    BY <1>5 DEF FirstCell, CellDocs, ResourceQuotas
<1>7. FirstSpec \in SpecDocs
    BY DEF FirstSpec, SpecDocs, ScalingConfigs, GuardrailConfigs
<1>8. NewHive \in HiveDocs
    BY DEF NewHive, HiveDocs, GuardrailConfigs
<1>9. \A k \in DOMAIN store \cap Edits : k \in {"cell", "spec", FirstHive}
    BY <1>1, <1>2 DEF Edits
<1>10. Docs("cell") = CellDocs /\ Docs("spec") = SpecDocs /\ Docs(FirstHive) = HiveDocs
    BY <1>2 DEF Docs, Kinds
<1>11. StoreInv
    BY <1>3, <1>4, <1>6, <1>7, <1>8, <1>9, <1>10 DEF StoreInv
<1>12. StoredHives = {FirstHive}
    BY <1>1, <1>2 DEF StoredHives
<1> QED
    BY <1>4, <1>5, <1>6, <1>11, <1>12

LEMMA InitImpliesInv == Init => Inv
<1> SUFFICES ASSUME Init PROVE Inv
    OBVIOUS
<1>1. \A c \in Clients : calls[c] = NoCall
    BY DEF Init
<1>2. NoCall \in CallRecords
    BY DEF NoCall, CallRecords, Steps
<1>3. Sound(NoCall, store, granted)
    BY DEF NoCall, Sound, KeyOfStep, CountsQuota, WritesWhatItRead
<1>4. CallsInv
    BY <1>1, <1>2, <1>3 DEF CallsInv, Init
<1>5. {c \in Clients : calls[c].step = "create"} = {}
    BY <1>1 DEF NoCall
<1>6. /\ IsFiniteSet(StoredHives) /\ Cardinality(StoredHives) = 1
      /\ Cardinality({c \in Clients : calls[c].step = "create"}) = 0
    BY <1>5, InitStored, FS_Singleton, FS_EmptySet
<1>7. Cardinality(Clients) \in Nat /\ Cardinality(Clients) >= 1
    BY ClientsAssumption, FS_CardinalityType, FS_EmptySet
<1>8. HivesWithinQuota
    BY <1>6, <1>7, InitStored DEF HivesWithinQuota
<1>9. QuotaInv
    BY <1>6, <1>8, InitStored DEF QuotaInv
<1>10. ServerInv
    BY <1>4, <1>9, InitStored DEF ServerInv
<1>11. /\ letters = <<>> /\ letters \in Seq(Nat) /\ Len(letters) = 0 /\ DOMAIN letters = {}
       /\ Range(letters) = {}
    BY EmptySeq DEF Init, Range
<1>12. QueueInv
    BY <1>11, MaxLettersAssumption DEF QueueInv, OldestGoesFirst, Init
<1> QED
    BY <1>10, <1>12 DEF Inv

LEMMA NextPreservesInv ==
    ASSUME Inv, [Next]_vars
    PROVE  Inv' /\ PartsReason /\ GoneStays
<1>0. ServerInv /\ QueueInv
    BY DEF Inv
<1>1. CASE UNCHANGED vars
    <2>1. Good
        BY <1>0, <1>1, QuietStep DEF vars, QueueReason
    <2> QED
        BY <1>0, <2>1, QueueStep DEF Good, Inv
<1>2. CASE AddToQueue
    <2>1. UNCHANGED <<store, calls, granted>>
        BY <1>2 DEF AddToQueue
    <2>2. ServerInv'
        BY <1>0, <2>1 DEF ServerInv, StoreInv, CallsInv, QuotaInv, HivesWithinQuota, StoredHives
    <2>3. PartsReason /\ GoneStays
        BY <2>1 DEF PartsReason, GoneStays
    <2>4. QueueInv'
        BY <1>0, <1>2, QueueStep
    <2> QED
        BY <2>2, <2>3, <2>4 DEF Inv
<1>3. ASSUME NEW c \in Clients, ServeHTTP(c) \/ RequestHTTP(c) \/ ServeGRPC(c) \/ RequestGRPC(c)
      PROVE  Inv' /\ PartsReason /\ GoneStays
    <2>1. Good
        BY <1>0, <1>3, HttpStep, GrpcStep
    <2> QED
        BY <1>0, <2>1, QueueStep DEF Good, Inv
<1> QED
    BY <1>1, <1>2, <1>3 DEF Next

LEMMA Invariance == Spec => []Inv
<1>1. Inv /\ [Next]_vars => Inv'
    BY NextPreservesInv
<1> QED
    BY <1>1, InitImpliesInv, PTL DEF Spec

\* However many callers create hives at once, through either API, the hives
\* stored and about to be exceed the largest quota there was by less than the
\* number of callers (quota.go: checkResourceQuota).
THEOREM QuotaIsOverrunByFewerThanTheCallers == Spec => []HivesWithinQuota
<1>1. Inv => HivesWithinQuota
    BY DEF Inv, ServerInv, QuotaInv
<1> QED
    BY <1>1, Invariance, PTL

\* The dead letter queue is never longer than its size, is in the order of
\* arrival, and what it dropped unasked is older than all it keeps (dlq.go).
THEOREM QueueDropsTheOldest == Spec => []OldestGoesFirst
<1>1. Inv => OldestGoesFirst
    BY DEF Inv, QueueInv
<1> QED
    BY <1>1, Invariance, PTL

\* A part of a resource changes only by the call that is about it, by a call
\* that read the resource before another wrote it, or by the gRPC conversion
\* (server.go, grpc_convert.go).
THEOREM PartsAreChangedForAReason == Spec => PartsChangeForAReason
<1> DEFINE Reasons ==
             \A k \in DOMAIN store \cap DOMAIN store' : \A p \in Parts(k) :
                 Part(store'[k], p) # Part(store[k], p) =>
                     \E c \in Clients :
                        /\ calls[c].key = k
                        /\ \/ p \in calls[c].sets
                           \/ calls[c].stale
                           \/ /\ calls[c].via = "grpc" /\ calls[c].step = "put"
                              /\ LostByConversion(store[k], p)
<1>1. Inv /\ [Next]_vars => [Reasons]_vars
    BY NextPreservesInv DEF PartsReason
<1>2. Spec => [][Reasons]_vars
    BY <1>1, Invariance, PTL DEF Spec
<1> QED
    BY <1>2 DEF PartsChangeForAReason

\* No call brings back a drone that was deleted, not even a drain that had read
\* the drone before (server.go: drainDrone, drainAgentSpec).
THEOREM DeletedDronesStayAway == Spec => DeletedStays
<1>1. Inv /\ [Next]_vars => [GoneStays]_vars
    BY NextPreservesInv
<1>2. Spec => [][GoneStays]_vars
    BY <1>1, Invariance, PTL DEF Spec
<1> QED
    BY <1>2 DEF DeletedStays, GoneStays

--------------------------------------------------------------------------------
(* The types of what the handlers share besides the store: a request is    *)
(* counted as it arrives, and only the role handlers write roles.          *)

Counted == UNCHANGED requests \/ (requests < RequestBound /\ requests' = requests + 1)

RolesWritten ==
    \/ UNCHANGED roles
    \/ \E user \in Clients, role \in RoleNames \cup {NoRole} : roles' = [roles EXCEPT ![user] = role]

SharedInv ==
    /\ roles \in [Clients -> RoleNames \cup {NoRole}]
    /\ requests \in 0 .. RequestBound /\ arrived \in 0 .. EventBound

LEMMA HttpCounts ==
    /\ \A c : HTTP!Arrives(c) => Counted
    /\ \A c, k, new, call : HTTP!Commit(c, k, new, call) => UNCHANGED <<roles, arrived>>
    /\ \A c, call : HTTP!Continue(c, call) => UNCHANGED <<roles, arrived>>
    /\ \A c, k, new : HTTP!Served(c, k, new) => Counted /\ UNCHANGED <<roles, arrived>>
BY DEF HTTP!Arrives, HTTP!Commit, HTTP!Continue, HTTP!Served, Counted

LEMMA GrpcCounts ==
    /\ \A c : GRPC!Arrives(c) => Counted
    /\ \A c, k, new, call : GRPC!Commit(c, k, new, call) => UNCHANGED <<roles, arrived>>
    /\ \A c, call : GRPC!Continue(c, call) => UNCHANGED <<roles, arrived>>
    /\ \A c, k, new : GRPC!Served(c, k, new) => Counted /\ UNCHANGED <<roles, arrived>>
BY DEF GRPC!Arrives, GRPC!Commit, GRPC!Continue, GRPC!Served, Counted

LEMMA HttpShared ==
    ASSUME NEW c \in Clients, ServeHTTP(c) \/ RequestHTTP(c)
    PROVE  Counted /\ RolesWritten /\ UNCHANGED arrived
<1> USE HttpCounts DEF Counted, RolesWritten
<1>1. CASE ServeHTTP(c)
    BY <1>1 DEF ServeHTTP, HTTP!CheckResourceQuota, HTTP!StoreHive, HTTP!StoreScaled, HTTP!MarkDraining,
                HTTP!Poll, HTTP!TimeOut, HTTP!DeleteDrained, HTTP!SweepDrones, HTTP!PurgeDrone
<1>2. CASE \/ HTTP!CreateCell(c) \/ HTTP!GetCell(c) \/ HTTP!UpdateCell(c) \/ HTTP!DeleteCell(c)
           \/ HTTP!CreateAgentSpec(c) \/ HTTP!GetAgentSpec(c) \/ HTTP!UpdateAgentSpec(c)
           \/ HTTP!DeleteAgentSpec(c) \/ HTTP!ScaleAgentSpec(c)
    BY <1>2 DEF HTTP!CreateCell, HTTP!GetCell, HTTP!UpdateCell, HTTP!DeleteCell, HTTP!CreateAgentSpec,
                HTTP!GetAgentSpec, HTTP!UpdateAgentSpec, HTTP!DeleteAgentSpec, HTTP!ScaleAgentSpec,
                HTTP!Rest, HTTP!Read, HTTP!Put
<1>3. CASE \/ HTTP!CreateHive(c) \/ HTTP!GetHive(c) \/ HTTP!UpdateHive(c) \/ HTTP!DeleteHive(c)
           \/ HTTP!ScaleHive(c) \/ HTTP!Apply(c) \/ HTTP!PostManifest(c)
    BY <1>3 DEF HTTP!CreateHive, HTTP!GetHive, HTTP!UpdateHive, HTTP!DeleteHive, HTTP!ScaleHive,
                HTTP!Apply, HTTP!PostManifest, HTTP!Rest, HTTP!Read, HTTP!Put
<1>4. CASE \/ HTTP!CreateSecret(c) \/ HTTP!UpdateSecret(c) \/ HTTP!DeleteSecret(c)
           \/ HTTP!DeleteDrone(c) \/ HTTP!DrainDrone(c) \/ HTTP!DrainAgentSpec(c)
    BY <1>4 DEF HTTP!CreateSecret, HTTP!UpdateSecret, HTTP!DeleteSecret, HTTP!DeleteDrone,
                HTTP!DrainDrone, HTTP!DrainAgentSpec, HTTP!Rest
<1>5. CASE HTTP!AssignRoleHandler(c) \/ HTTP!RemoveRoleHandler(c)
    BY <1>5 DEF HTTP!AssignRoleHandler, HTTP!RemoveRoleHandler, HTTP!AssignRole, HTTP!RemoveRole,
                HTTP!RoleNames, RoleNames, HTTP!Rest
<1>6. CASE HTTP!DeleteDLQMessage(c) \/ HTTP!ClearDLQ(c)
    BY <1>6 DEF HTTP!DeleteDLQMessage, HTTP!ClearDLQ, HTTP!Rest
<1> QED
    BY <1>1, <1>2, <1>3, <1>4, <1>5, <1>6 DEF RequestHTTP

LEMMA GrpcShared ==
    ASSUME NEW c \in Clients, ServeGRPC(c) \/ RequestGRPC(c)
    PROVE  Counted /\ RolesWritten /\ UNCHANGED arrived
<1> USE GrpcCounts DEF Counted, RolesWritten
<1>1. CASE ServeGRPC(c)
    BY <1>1 DEF ServeGRPC, GRPC!CheckResourceQuotaForHive, GRPC!StoreHive, GRPC!StoreScaled,
                GRPC!MarkDraining, GRPC!Poll, GRPC!TimeOut, GRPC!DeleteDrained, GRPC!SweepDrones,
                GRPC!PurgeDrone
<1>2. CASE \/ GRPC!CreateCell(c) \/ GRPC!GetCell(c) \/ GRPC!UpdateCell(c) \/ GRPC!DeleteCell(c)
           \/ GRPC!CreateAgentSpec(c) \/ GRPC!GetAgentSpec(c) \/ GRPC!UpdateAgentSpec(c)
           \/ GRPC!DeleteAgentSpec(c) \/ GRPC!ScaleAgentSpec(c)
    BY <1>2 DEF GRPC!CreateCell, GRPC!GetCell, GRPC!UpdateCell, GRPC!DeleteCell, GRPC!CreateAgentSpec,
                GRPC!GetAgentSpec, GRPC!UpdateAgentSpec, GRPC!DeleteAgentSpec, GRPC!ScaleAgentSpec,
                GRPC!Grpc, GRPC!Read, GRPC!Put
<1>3. CASE \/ GRPC!CreateHive(c) \/ GRPC!GetHive(c) \/ GRPC!UpdateHive(c) \/ GRPC!DeleteHive(c)
           \/ GRPC!ScaleHive(c)
    BY <1>3 DEF GRPC!CreateHive, GRPC!GetHive, GRPC!UpdateHive, GRPC!DeleteHive, GRPC!ScaleHive,
                GRPC!Grpc, GRPC!Read, GRPC!Put
<1>4. CASE \/ GRPC!CreateSecret(c) \/ GRPC!UpdateSecret(c) \/ GRPC!DeleteSecret(c)
           \/ GRPC!DeleteDrone(c) \/ GRPC!DrainDrone(c) \/ GRPC!DrainAgentSpec(c)
    BY <1>4 DEF GRPC!CreateSecret, GRPC!UpdateSecret, GRPC!DeleteSecret, GRPC!DeleteDrone,
                GRPC!DrainDrone, GRPC!DrainAgentSpec, GRPC!Grpc
<1> QED
    BY <1>1, <1>2, <1>3, <1>4 DEF RequestGRPC

LEMMA SharedInit == Init => SharedInv
BY NumbersAssumption DEF Init, SharedInv, RoleNames

LEMMA SharedStep == SharedInv /\ [Next]_vars => SharedInv'
<1> SUFFICES ASSUME SharedInv, [Next]_vars PROVE SharedInv'
    OBVIOUS
<1>1. RequestBound \in Nat /\ EventBound \in Nat
    BY NumbersAssumption
<1>2. ASSUME NEW c \in Clients, ServeHTTP(c) \/ RequestHTTP(c) \/ ServeGRPC(c) \/ RequestGRPC(c)
      PROVE  SharedInv'
    <2>1. Counted /\ RolesWritten /\ UNCHANGED arrived
        BY <1>2, HttpShared, GrpcShared
    <2>2. roles' \in [Clients -> RoleNames \cup {NoRole}]
        BY <2>1 DEF RolesWritten, SharedInv
    <2>3. requests' \in 0 .. RequestBound
        BY <1>1, <2>1 DEF Counted, SharedInv
    <2> QED
        BY <2>1, <2>2, <2>3 DEF SharedInv
<1>3. CASE AddToQueue
    BY <1>1, <1>3 DEF AddToQueue, SharedInv
<1>4. CASE UNCHANGED vars
    BY <1>4 DEF vars, SharedInv
<1> QED
    BY <1>2, <1>3, <1>4 DEF Next

(***************************************************************************)
(* The variables of the server keep their types: the store holds nothing   *)
(* but resources under their own keys, every call is at one of its steps,  *)
(* and nothing is withdrawn from the dead letter queue that never arrived. *)
(***************************************************************************)
THEOREM TypeCorrect == Spec => []TypeOK
<1>1. Inv /\ SharedInv => TypeOK
    BY DEF Inv, ServerInv, StoreInv, CallsInv, CallRecords, QueueInv, SharedInv, TypeOK
<1> QED
    BY <1>1, Invariance, SharedInit, SharedStep, PTL DEF Spec

================================================================================
