--------------------------- MODULE ResourceStoreProofs ---------------------------
(***************************************************************************)
(* ResourceStore, the composition of transactions and notifications: what  *)
(* watchers know when a transaction commits, for any number of clients,    *)
(* watchers and resources and any size of the channels.                    *)
(***************************************************************************)
EXTENDS ResourceStore, SequenceTheorems, TLAPS

(***************************************************************************)
(* The inductive invariant follows what a transaction owes to a watcher:   *)
(* while it has not begun to notify, the watcher is still registered under *)
(* the namespace that will be told (Pending); while it notifies, the       *)
(* watcher is on the list that is left (Underway); unless it was cut off   *)
(* or has ended its context.  Known excludes that a watcher that is owed   *)
(* an event is yet to be handed out.                                       *)
(***************************************************************************)
Shape ==
    /\ phase \in [Db!Actors -> Db!Phases] /\ DOMAIN batch = Db!Actors
    /\ context \in [Watchers -> Hub!ContextStates] /\ scope \in [Watchers -> Namespaces]
    /\ registered \subseteq Watchers
    /\ buffer \in [Watchers -> Seq(Events)]
    /\ todo \in [Clients -> SUBSET Watchers] /\ DOMAIN event = Clients
    /\ active \subseteq Clients
    /\ owed \in [Clients -> SUBSET Watchers]

Settled(w) == w \in lost \/ context[w] # "live"

Known ==
    /\ \A w \in registered : context[w] # "none"
    /\ \A c \in Clients : \A w \in owed[c] : context[w] # "none"

Changing == \A c \in Clients : phase[c] = "notify" => ChangedKey(batch[c]) \in Keys

Telling == \A c \in active : phase[c] = "notify"

Pending ==
    \A c \in Clients : phase[c] = "notify" /\ c \notin active =>
        \A w \in owed[c] :
            Settled(w) \/ (w \in registered /\ scope[w] = ChangedKey(batch[c])[1])

Underway == \A c \in active : \A w \in owed[c] : Settled(w) \/ w \in todo[c]

Addressed ==
    \A c \in Clients : \A w \in todo[c] : event[c] \in Events /\ event[c][2][1] = scope[w]

IInv ==
    /\ Shape /\ Known /\ Changing /\ Telling
    /\ Pending /\ Underway /\ NoSilentCommit
    /\ Addressed /\ OwnNamespaceOnly

LEMMA ClientsAct == Clients \subseteq Db!Actors
BY DEF Db!Actors

LEMMA InitIInv == Init => IInv
<1> SUFFICES ASSUME Init PROVE IInv
    OBVIOUS
<1>1. /\ phase = [a \in Db!Actors |-> "idle"]
      /\ batch = [a \in Db!Actors |-> Db!NoBatch]
      /\ owed = [c \in Clients |-> {}]
    BY DEF Init, Db!Init
<1>2. /\ context = [w \in Watchers |-> "none"]
      /\ scope \in [Watchers -> Namespaces]
      /\ registered = {} /\ active = {}
      /\ buffer = [w \in Watchers |-> <<>>]
      /\ todo = [n \in Clients |-> {}]
      /\ event = [n \in Clients |-> None]
    BY DEF Init, Hub!HubInit
<1>3. Shape
    BY <1>1, <1>2, EmptySeq DEF Shape, Db!Phases, Hub!ContextStates
<1>4. \A c \in Clients : phase[c] = "idle"
    BY <1>1, ClientsAct
<1>5. Known /\ Changing /\ Telling /\ Pending /\ Underway /\ NoSilentCommit
    BY <1>1, <1>2, <1>4 DEF Known, Changing, Telling, Pending, Underway, NoSilentCommit
<1>6. Addressed /\ OwnNamespaceOnly
    BY <1>2 DEF Addressed, OwnNamespaceOnly
<1> QED
    BY <1>3, <1>5, <1>6 DEF IInv

--------------------------------------------------------------------------------
(* The steps of a call.                                                    *)

\* The closure of a call that is not refused, as far as the watchers go.
LEMMA Closure ==
    ASSUME IInv, NEW c \in Clients, NEW k \in Keys,
           \/ \E v \in Values : Db!Create(c, k, v) \/ Db!Update(c, k, v)
           \/ Db!Delete(c, k)
    PROVE  /\ phase[c] = "idle"
           /\ \/ UNCHANGED <<phase, batch>>
              \/ \E b : /\ phase' = [phase EXCEPT ![c] = "notify"]
                        /\ batch' = [batch EXCEPT ![c] = b]
                        /\ ChangedKey(b) = k
<1>1. ASSUME NEW v \in Values, Db!Create(c, k, v)
      PROVE  /\ phase[c] = "idle"
             /\ \/ UNCHANGED <<phase, batch>>
                \/ /\ phase' = [phase EXCEPT ![c] = "notify"]
                   /\ batch' = [batch EXCEPT ![c] = Db!CreateBatch(k, v)]
    BY <1>1 DEF Db!Create, Db!Refuse, Db!Buffer
<1>2. ASSUME NEW v \in Values, Db!Update(c, k, v)
      PROVE  /\ phase[c] = "idle"
             /\ \/ UNCHANGED <<phase, batch>>
                \/ /\ phase' = [phase EXCEPT ![c] = "notify"]
                   /\ batch' = [batch EXCEPT ![c] = Db!UpdateBatch(db, k, v)]
    BY <1>2 DEF Db!Update, Db!Refuse, Db!Buffer
<1>3. ASSUME Db!Delete(c, k)
      PROVE  /\ phase[c] = "idle"
             /\ \/ UNCHANGED <<phase, batch>>
                \/ /\ phase' = [phase EXCEPT ![c] = "notify"]
                   /\ batch' = [batch EXCEPT ![c] = Db!DeleteBatch(k)]
    BY <1>3 DEF Db!Delete, Db!Refuse, Db!Buffer
<1>4. ASSUME NEW b, \A x \in Keys : <<x, 0>> \in b.put \cup b.drop <=> x = k
      PROVE  ChangedKey(b) = k
    BY <1>4 DEF ChangedKey
<1>5. \A v \in Values : ChangedKey(Db!CreateBatch(k, v)) = k
    BY <1>4 DEF Db!CreateBatch
<1>6. \A v \in Values : ChangedKey(Db!UpdateBatch(db, k, v)) = k
    BY <1>4 DEF Db!UpdateBatch
<1>7. ChangedKey(Db!DeleteBatch(k)) = k
    BY <1>4 DEF Db!DeleteBatch
<1> QED
    BY <1>1, <1>2, <1>3, <1>5, <1>6, <1>7

LEMMA CallKeeps ==
    ASSUME IInv, NEW c \in Clients, Call(c)
    PROVE  IInv'
<1>1. PICK k \in Keys :
        /\ \/ \E v \in Values : Db!Create(c, k, v) \/ Db!Update(c, k, v)
           \/ Db!Delete(c, k)
        /\ owed' = [owed EXCEPT ![c] = IF phase'[c] = "idle" THEN {}
                                        ELSE {w \in registered : scope[w] = k[1]}]
    BY DEF Call
<1>2. UNCHANGED <<context, scope, registered, buffer, todo, event, active, lost>>
    BY DEF Call, hubVars
<1>3. phase[c] = "idle" /\ c \notin active
    <2>1. phase[c] = "idle"
        BY <1>1, Closure
    <2> QED
        BY <2>1 DEF IInv, Telling
<1>4. /\ DOMAIN phase = Db!Actors /\ DOMAIN batch = Db!Actors /\ c \in Db!Actors
      /\ owed \in [Clients -> SUBSET Watchers]
    BY ClientsAct DEF IInv, Shape
<1>5. CASE UNCHANGED <<phase, batch>>
    <2>1. owed' = [owed EXCEPT ![c] = {}]
        BY <1>1, <1>3, <1>5
    <2>2. Shape'
        BY <1>2, <1>4, <1>5, <2>1 DEF IInv, Shape
    <2>3. \A d \in Clients : owed'[d] \subseteq owed[d]
        BY <1>4, <2>1
    <2>4. Known' /\ Changing' /\ Telling' /\ Addressed' /\ OwnNamespaceOnly'
        BY <1>2, <1>5, <2>3 DEF IInv, Known, Changing, Telling, Addressed, OwnNamespaceOnly
    <2>5. Pending' /\ Underway' /\ NoSilentCommit'
        BY <1>2, <1>5, <2>3 DEF IInv, Pending, Underway, NoSilentCommit, Settled, Shape
    <2> QED
        BY <2>2, <2>4, <2>5 DEF IInv
<1>6. ASSUME NEW b, phase' = [phase EXCEPT ![c] = "notify"],
             batch' = [batch EXCEPT ![c] = b], ChangedKey(b) = k
      PROVE  IInv'
    <2>1. /\ phase'[c] = "notify" /\ batch'[c] = b
          /\ \A d \in Clients \ {c} : phase'[d] = phase[d] /\ batch'[d] = batch[d]
        BY <1>4, <1>6, ClientsAct
    <2> DEFINE told == {w \in registered : scope[w] = k[1]}
    <2>2. owed' = [owed EXCEPT ![c] = told]
        BY <1>1, <2>1
    <2>3. told \subseteq registered /\ \A w \in told : scope[w] = k[1]
        OBVIOUS
    <2> HIDE DEF told
    <2>4. owed'[c] = told /\ \A d \in Clients \ {c} : owed'[d] = owed[d]
        BY <1>4, <2>2
    <2>5. Shape'
        <3>1. phase' \in [Db!Actors -> Db!Phases] /\ DOMAIN batch' = Db!Actors
            BY <1>4, <1>6 DEF IInv, Shape, Db!Phases
        <3>2. owed' \in [Clients -> SUBSET Watchers]
            BY <1>4, <2>2, <2>3 DEF IInv, Shape
        <3> QED
            BY <1>2, <3>1, <3>2 DEF IInv, Shape
    <2>6. Known'
        BY <1>2, <2>3, <2>4 DEF IInv, Known
    <2>7. Changing' /\ Telling'
        BY <1>2, <1>3, <1>6, <2>1 DEF IInv, Changing, Telling, Shape
    <2>8. Pending'
        BY <1>2, <1>6, <2>1, <2>3, <2>4 DEF IInv, Pending, Settled
    <2>9. Underway' /\ NoSilentCommit'
        BY <1>2, <1>3, <2>1, <2>4 DEF IInv, Underway, NoSilentCommit, Settled, Shape
    <2>10. Addressed' /\ OwnNamespaceOnly'
        BY <1>2 DEF IInv, Addressed, OwnNamespaceOnly
    <2> QED
        BY <2>5, <2>6, <2>7, <2>8, <2>9, <2>10 DEF IInv
<1> QED
    BY <1>1, <1>5, <1>6, Closure

LEMMA StartNotifyKeeps ==
    ASSUME IInv, NEW c \in Clients, StartNotify(c)
    PROVE  IInv'
<1> DEFINE k == ChangedKey(batch[c])
           told == {w \in registered : scope[w] = k[1]}
           e == <<c, k>>
<1>1. /\ phase[c] = "notify" /\ c \notin active
      /\ active' = active \cup {c}
      /\ event' = [event EXCEPT ![c] = e]
      /\ todo' = [todo EXCEPT ![c] = told]
      /\ UNCHANGED <<phase, batch, owed, context, scope, registered, buffer, lost>>
    BY DEF StartNotify, Hub!StartNotify, dbVars
<1>2. k \in Keys /\ e \in Events /\ e[2][1] = k[1]
    BY <1>1 DEF IInv, Changing, Events
<1>3. /\ told \subseteq registered /\ told \subseteq Watchers
      /\ \A w \in Watchers : w \in told <=> w \in registered /\ scope[w] = k[1]
    BY DEF IInv, Shape
<1>4. /\ \A w \in owed[c] : Settled(w) \/ (w \in registered /\ scope[w] = k[1])
      /\ owed[c] \subseteq Watchers
    BY <1>1 DEF IInv, Pending, Shape
<1> HIDE DEF told, e, k
<1>5. /\ todo'[c] = told /\ event'[c] = e
      /\ \A d \in Clients \ {c} : todo'[d] = todo[d] /\ event'[d] = event[d]
    BY <1>1 DEF IInv, Shape
<1>6. Shape'
    BY <1>1, <1>3 DEF IInv, Shape
<1>7. Known' /\ Changing' /\ OwnNamespaceOnly'
    BY <1>1 DEF IInv, Known, Changing, OwnNamespaceOnly
<1>8. Telling' /\ Pending' /\ NoSilentCommit'
    BY <1>1 DEF IInv, Telling, Pending, NoSilentCommit, Settled
<1>9. Underway'
    <2> SUFFICES ASSUME NEW d \in active', NEW w \in owed[d]
                 PROVE  Settled(w) \/ w \in todo'[d]
        BY <1>1 DEF Underway, Settled
    <2>1. CASE d = c
        BY <1>3, <1>4, <1>5, <2>1
    <2>2. CASE d # c
        BY <1>1, <1>5, <2>2 DEF IInv, Underway, Shape
    <2> QED
        BY <2>1, <2>2
<1>10. Addressed'
    <2> SUFFICES ASSUME NEW d \in Clients, NEW w \in todo'[d]
                 PROVE  event'[d] \in Events /\ event'[d][2][1] = scope[w]
        BY <1>1 DEF Addressed
    <2>1. CASE d = c
        BY <1>2, <1>3, <1>5, <2>1
    <2>2. CASE d # c
        BY <1>5, <2>2 DEF IInv, Addressed
    <2> QED
        BY <2>1, <2>2
<1> QED
    BY <1>6, <1>7, <1>8, <1>9, <1>10 DEF IInv

\* The events of a channel that one was added to, or that was read from.
LEMMA BufferSends ==
    ASSUME NEW b \in Seq(Events), NEW e \in Events, NEW s,
           \A i \in DOMAIN b : b[i][2][1] = s, e[2][1] = s
    PROVE  /\ Append(b, e) \in Seq(Events)
           /\ \A i \in DOMAIN Append(b, e) : Append(b, e)[i][2][1] = s
<1> DEFINE t == Append(b, e)
<1>1. /\ t \in Seq(Events) /\ Len(t) = Len(b) + 1 /\ Len(b) \in Nat
      /\ \A i \in 1 .. Len(b) : t[i] = b[i]
      /\ t[Len(b) + 1] = e
      /\ DOMAIN b = 1 .. Len(b)
    BY AppendProperties, LenProperties
<1> HIDE DEF t
<1>2. DOMAIN t = 1 .. Len(b) + 1
    BY <1>1, LenProperties
<1>3. ASSUME NEW i \in 1 .. Len(b) + 1 PROVE t[i][2][1] = s
    <2>1. CASE i = Len(b) + 1
        BY <1>1, <2>1
    <2>2. CASE i \in 1 .. Len(b)
        BY <1>1, <2>2
    <2> QED
        BY <1>1, <2>1, <2>2
<1> QED
    BY <1>1, <1>2, <1>3 DEF t

LEMMA BufferShrinks ==
    ASSUME NEW b \in Seq(Events), b # <<>>, NEW s, \A i \in DOMAIN b : b[i][2][1] = s
    PROVE  /\ Tail(b) \in Seq(Events)
           /\ \A i \in DOMAIN Tail(b) : Tail(b)[i][2][1] = s
<1> DEFINE t == Tail(b)
<1>1. /\ t \in Seq(Events) /\ Len(t) = Len(b) - 1 /\ Len(b) \in Nat \ {0}
      /\ \A i \in 1 .. Len(t) : t[i] = b[i + 1]
      /\ DOMAIN b = 1 .. Len(b)
    BY HeadTailProperties, EmptySeq, LenProperties
<1> HIDE DEF t
<1>2. DOMAIN t = 1 .. Len(b) - 1
    BY <1>1, LenProperties
<1>3. ASSUME NEW i \in 1 .. Len(b) - 1 PROVE t[i][2][1] = s
    <2>1. t[i] = b[i + 1] /\ i + 1 \in DOMAIN b
        BY <1>1
    <2> QED
        BY <2>1
<1> QED
    BY <1>1, <1>2, <1>3 DEF t

LEMMA TellKeeps ==
    ASSUME IInv, NEW c \in Clients, Tell(c)
    PROVE  IInv'
<1>1. PICK w \in Watchers : Hub!Send(c, w) /\ owed' = [owed EXCEPT ![c] = @ \ {w}]
    BY DEF Tell
<1>2. /\ w \in todo[c]
      /\ buffer' = [buffer EXCEPT ![w] = Append(@, event[c])]
      /\ todo' = [todo EXCEPT ![c] = @ \ {w}]
      /\ UNCHANGED <<phase, batch, context, scope, registered, event, active, lost>>
    BY <1>1 DEF Tell, Hub!Send, Hub!Sending, dbVars
<1>3. event[c] \in Events /\ event[c][2][1] = scope[w]
    BY <1>2 DEF IInv, Addressed
<1>4. buffer[w] \in Seq(Events) /\ \A i \in DOMAIN buffer[w] : buffer[w][i][2][1] = scope[w]
    BY DEF IInv, Shape, OwnNamespaceOnly
<1>5. /\ Append(buffer[w], event[c]) \in Seq(Events)
      /\ \A i \in DOMAIN Append(buffer[w], event[c]) :
            Append(buffer[w], event[c])[i][2][1] = scope[w]
    BY <1>3, <1>4, BufferSends
<1> DEFINE longer == Append(buffer[w], event[c])
<1>6. buffer' = [buffer EXCEPT ![w] = longer]
    BY <1>2
<1>7. longer \in Seq(Events) /\ \A i \in DOMAIN longer : longer[i][2][1] = scope[w]
    BY <1>5
<1> HIDE DEF longer
<1>8. /\ \A d \in Clients : /\ owed'[d] = IF d = c THEN owed[d] \ {w} ELSE owed[d]
                            /\ todo'[d] = IF d = c THEN todo[d] \ {w} ELSE todo[d]
      /\ buffer'[w] = longer /\ \A x \in Watchers \ {w} : buffer'[x] = buffer[x]
    BY <1>1, <1>2, <1>6 DEF IInv, Shape
<1>9. Shape'
    BY <1>1, <1>2, <1>6, <1>7 DEF IInv, Shape
<1>10. \A d \in Clients : /\ \A x \in owed'[d] : x \in owed[d] /\ (d = c => x # w)
                          /\ \A x \in todo'[d] : x \in todo[d]
                          /\ \A x \in todo[d] : x \in todo'[d] \/ (d = c /\ x = w)
    BY <1>8
<1>11. \A x \in Watchers : Settled(x)' <=> Settled(x)
    BY <1>2 DEF Settled
<1>12. Known' /\ Changing' /\ Telling'
    BY <1>2, <1>10 DEF IInv, Known, Changing, Telling
<1>13. Addressed'
    BY <1>2, <1>10 DEF IInv, Addressed
<1>14. owed' \in [Clients -> SUBSET Watchers] /\ active \subseteq Clients
    BY <1>9 DEF IInv, Shape
<1>15. Pending'
    BY <1>2, <1>10, <1>11, <1>14 DEF IInv, Pending
<1>16. Underway'
    BY <1>2, <1>10, <1>11, <1>14 DEF IInv, Underway
<1>17. NoSilentCommit'
    BY <1>2, <1>10 DEF IInv, NoSilentCommit
<1>18. OwnNamespaceOnly'
    BY <1>2, <1>7, <1>8 DEF IInv, OwnNamespaceOnly
<1> QED
    BY <1>9, <1>12, <1>13, <1>15, <1>16, <1>17, <1>18 DEF IInv

LEMMA GiveUpKeeps ==
    ASSUME IInv, NEW c \in Clients, GiveUp(c)
    PROVE  IInv'
<1>1. UNCHANGED <<phase, batch, owed>>
    BY DEF GiveUp, dbVars
<1>2. ASSUME UNCHANGED <<context, scope, registered, buffer, todo, event, active, lost>>
      PROVE  IInv'
    <2>1. Shape' /\ Known' /\ Changing' /\ Telling' /\ Addressed' /\ OwnNamespaceOnly'
        BY <1>1, <1>2 DEF IInv, Shape, Known, Changing, Telling, Addressed, OwnNamespaceOnly
    <2>2. Pending' /\ Underway' /\ NoSilentCommit'
        BY <1>1, <1>2 DEF IInv, Pending, Underway, NoSilentCommit, Settled
    <2> QED
        BY <2>1, <2>2 DEF IInv
<1>3. ASSUME NEW w \in Watchers, Hub!SendOnClosed(c, w) PROVE IInv'
    BY <1>2, <1>3 DEF Hub!SendOnClosed
<1>4. CASE Hub!CloseDropped(c)
    BY <1>2, <1>4 DEF Hub!CloseDropped
<1>5. ASSUME NEW w \in Watchers, Hub!Drop(c, w) PROVE IInv'
    <2>1. /\ registered' = registered \ {w} /\ lost' = lost \cup {w}
          /\ todo' = [todo EXCEPT ![c] = @ \ {w}]
          /\ UNCHANGED <<context, scope, buffer, event, active>>
        BY <1>5 DEF Hub!Drop
    <2>2. \A d \in Clients : todo'[d] = IF d = c THEN todo[d] \ {w} ELSE todo[d]
        BY <2>1 DEF IInv, Shape
    <2>3. Shape'
        BY <1>1, <2>1 DEF IInv, Shape
    <2>4. Known' /\ Changing' /\ Telling' /\ Addressed' /\ OwnNamespaceOnly'
        BY <1>1, <2>1, <2>2 DEF IInv, Known, Changing, Telling, Addressed, OwnNamespaceOnly
    <2>5. Pending' /\ Underway' /\ NoSilentCommit'
        BY <1>1, <2>1, <2>2 DEF IInv, Pending, Underway, NoSilentCommit, Settled, Shape
    <2> QED
        BY <2>3, <2>4, <2>5 DEF IInv
<1> QED
    BY <1>3, <1>4, <1>5 DEF GiveUp

LEMMA EndNotifyKeeps ==
    ASSUME IInv, NEW c \in Clients, EndNotify(c)
    PROVE  IInv'
<1>1. /\ c \in active /\ todo[c] = {} /\ active' = active \ {c}
      /\ event' = [event EXCEPT ![c] = None]
      /\ UNCHANGED <<context, scope, registered, buffer, todo, lost, owed, batch>>
      /\ phase' = [phase EXCEPT ![c] = "commit"]
    BY DEF EndNotify, Hub!EndNotify, Db!Notify
<1>2. /\ \A d \in Clients : phase'[d] = IF d = c THEN "commit" ELSE phase[d]
      /\ \A d \in Clients \ {c} : event'[d] = event[d]
    BY <1>1, ClientsAct DEF IInv, Shape
<1>3. Shape'
    BY <1>1, ClientsAct DEF IInv, Shape, Db!Phases
<1>4. Known' /\ Changing' /\ Telling' /\ OwnNamespaceOnly'
    BY <1>1, <1>2 DEF IInv, Known, Changing, Telling, OwnNamespaceOnly, Shape
<1>5. Addressed'
    BY <1>1, <1>2 DEF IInv, Addressed
<1>6. Pending' /\ Underway' /\ NoSilentCommit'
    BY <1>1, <1>2 DEF IInv, Pending, Underway, NoSilentCommit, Settled, Shape
<1> QED
    BY <1>3, <1>4, <1>5, <1>6 DEF IInv

LEMMA CommitKeeps ==
    ASSUME IInv, NEW c \in Clients, Commit(c)
    PROVE  IInv'
<1>1. /\ phase[c] = "commit"
      /\ phase' = [phase EXCEPT ![c] = "idle"]
      /\ batch' = [batch EXCEPT ![c] = Db!NoBatch]
      /\ owed' = [owed EXCEPT ![c] = {}]
      /\ UNCHANGED <<context, scope, registered, buffer, todo, event, active, lost>>
    BY DEF Commit, Db!Commit, Db!Conflict, Db!Finish, hubVars
<1>2. /\ \A d \in Clients : phase'[d] = IF d = c THEN "idle" ELSE phase[d]
      /\ \A d \in Clients : owed'[d] = IF d = c THEN {} ELSE owed[d]
      /\ \A d \in Clients \ {c} : batch'[d] = batch[d]
    BY <1>1, ClientsAct DEF IInv, Shape
<1>3. Shape'
    BY <1>1, ClientsAct DEF IInv, Shape, Db!Phases
<1>4. Known' /\ Changing' /\ Addressed' /\ OwnNamespaceOnly'
    BY <1>1, <1>2 DEF IInv, Known, Changing, Addressed, OwnNamespaceOnly
<1>5. Telling'
    BY <1>1, <1>2 DEF IInv, Telling, Shape
<1>6. Pending' /\ Underway' /\ NoSilentCommit'
    BY <1>1, <1>2 DEF IInv, Pending, Underway, NoSilentCommit, Settled, Shape
<1> QED
    BY <1>3, <1>4, <1>5, <1>6 DEF IInv

--------------------------------------------------------------------------------
(* The steps of a watcher.                                                 *)

LEMMA FollowKeeps ==
    ASSUME IInv, NEW w \in Watchers, Follow(w)
    PROVE  IInv'
<1>1. UNCHANGED <<phase, batch, owed>>
    BY DEF Follow, dbVars
<1>2. CASE Hub!Watch(w)
    <2>1. /\ context[w] = "none"
          /\ context' = [context EXCEPT ![w] = "live"]
          /\ registered' = registered \cup {w}
          /\ UNCHANGED <<scope, buffer, todo, event, active, lost>>
        BY <1>2 DEF Hub!Watch
    <2>2. \A x \in Watchers : context'[x] = IF x = w THEN "live" ELSE context[x]
        BY <2>1 DEF IInv, Shape
    <2>3. Shape'
        BY <1>1, <2>1 DEF IInv, Shape, Hub!ContextStates
    <2>4. \A d \in Clients : w \notin owed[d] /\ owed[d] \subseteq Watchers
        BY <2>1 DEF IInv, Known, Shape
    <2>5. Known'
        BY <1>1, <2>1, <2>2, <2>4 DEF IInv, Known, Shape
    <2>6. Changing' /\ Telling' /\ Addressed' /\ OwnNamespaceOnly'
        BY <1>1, <2>1 DEF IInv, Changing, Telling, Addressed, OwnNamespaceOnly
    <2>7. \A d \in Clients : \A x \in owed[d] : context'[x] = context[x]
        BY <2>2, <2>4
    <2>8. Pending' /\ Underway' /\ NoSilentCommit'
        BY <1>1, <2>1, <2>7 DEF IInv, Pending, Underway, NoSilentCommit, Settled, Shape
    <2> QED
        BY <2>3, <2>5, <2>6, <2>8 DEF IInv
\* Events leave w's channel, w may leave the map, and is then not live.
<1>3. ASSUME buffer'[w] = buffer[w] \/ (buffer[w] # <<>> /\ buffer'[w] = Tail(buffer[w])),
             \A x \in Watchers \ {w} : buffer'[x] = buffer[x] /\ context'[x] = context[x],
             DOMAIN buffer' = Watchers, buffer' = [x \in Watchers |-> buffer'[x]],
             context' \in [Watchers -> Hub!ContextStates],
             \/ context'[w] = context[w] /\ registered' = registered
             \/ context'[w] \in {"ended", "cleaned"} /\ registered' \in {registered, registered \ {w}},
             UNCHANGED <<scope, todo, event, active, lost>>
      PROVE  IInv'
    <2>1. buffer[w] \in Seq(Events) /\ \A i \in DOMAIN buffer[w] : buffer[w][i][2][1] = scope[w]
        BY DEF IInv, Shape, OwnNamespaceOnly
    <2>2. buffer'[w] \in Seq(Events) /\ \A i \in DOMAIN buffer'[w] : buffer'[w][i][2][1] = scope[w]
        <3>1. CASE buffer'[w] = buffer[w]
            BY <2>1, <3>1
        <3>2. CASE buffer[w] # <<>> /\ buffer'[w] = Tail(buffer[w])
            <4>1. /\ Tail(buffer[w]) \in Seq(Events)
                  /\ \A i \in DOMAIN Tail(buffer[w]) : Tail(buffer[w])[i][2][1] = scope[w]
                BY <2>1, <3>2, BufferShrinks
            <4> QED
                BY <3>2, <4>1
        <3> QED
            BY <1>3, <3>1, <3>2
    <2>3. buffer' \in [Watchers -> Seq(Events)]
        BY <1>3, <2>2 DEF IInv, Shape
    <2>4. Shape'
        BY <1>1, <1>3, <2>3 DEF IInv, Shape
    <2>5. OwnNamespaceOnly'
        BY <1>3, <2>2 DEF IInv, OwnNamespaceOnly
    <2>6. Changing' /\ Telling' /\ Addressed'
        BY <1>1, <1>3 DEF IInv, Changing, Telling, Addressed
    <2>7. \A x \in Watchers : /\ context[x] # "none" => context'[x] # "none"
                              /\ Settled(x) => Settled(x)'
                              /\ x \in registered /\ x \notin registered' => Settled(x)'
        BY <1>3 DEF Settled
    <2>8. Known'
        BY <1>1, <1>3, <2>7 DEF IInv, Known, Shape
    <2>9. \A d \in Clients : owed[d] \subseteq Watchers
        BY DEF IInv, Shape
    <2>10. Pending'
        BY <1>1, <1>3, <2>7, <2>9 DEF IInv, Pending
    <2>11. Underway'
        BY <1>1, <1>3, <2>7, <2>9 DEF IInv, Underway, Shape
    <2>12. NoSilentCommit'
        BY <1>1, <1>3, <2>7, <2>9 DEF IInv, NoSilentCommit, Settled
    <2> QED
        BY <2>4, <2>5, <2>6, <2>8, <2>10, <2>11, <2>12 DEF IInv
<1>4. CASE Hub!Receive(w)
    <2>1. /\ buffer[w] # <<>> /\ buffer' = [buffer EXCEPT ![w] = Tail(@)]
          /\ UNCHANGED <<context, registered, scope, todo, event, active, lost>>
        BY <1>4 DEF Hub!Receive
    <2>2. buffer'[w] = Tail(buffer[w]) /\ DOMAIN buffer' = Watchers
          /\ (\A x \in Watchers \ {w} : buffer'[x] = buffer[x])
          /\ buffer' = [x \in Watchers |-> buffer'[x]]
        BY <2>1 DEF IInv, Shape
    <2>3. context' \in [Watchers -> Hub!ContextStates]
        BY <2>1 DEF IInv, Shape
    <2> QED
        BY <1>3, <2>1, <2>2, <2>3
<1>5. CASE Hub!EndContext(w)
    <2>1. /\ context' = [context EXCEPT ![w] = "ended"]
          /\ UNCHANGED <<buffer, registered, scope, todo, event, active, lost>>
        BY <1>5 DEF Hub!EndContext
    <2>2. /\ context'[w] = "ended" /\ context' \in [Watchers -> Hub!ContextStates]
          /\ \A x \in Watchers \ {w} : context'[x] = context[x]
        BY <2>1 DEF IInv, Shape, Hub!ContextStates
    <2>3. DOMAIN buffer' = Watchers /\ buffer' = [x \in Watchers |-> buffer'[x]]
        BY <2>1 DEF IInv, Shape
    <2> QED
        BY <1>3, <2>1, <2>2, <2>3
<1>6. CASE Hub!Cleanup(w)
    <2>1. /\ context' = [context EXCEPT ![w] = "cleaned"]
          /\ registered' = registered \ {w}
          /\ buffer' = [x \in Watchers |-> IF x \in {w} \cap registered /\ buffer[x] # <<>>
                                           THEN Tail(buffer[x]) ELSE buffer[x]]
          /\ UNCHANGED <<scope, todo, event, active, lost>>
        BY <1>6 DEF Hub!Cleanup, Hub!CloseOrReceive
    <2>2. /\ context'[w] = "cleaned" /\ context' \in [Watchers -> Hub!ContextStates]
          /\ \A x \in Watchers \ {w} : context'[x] = context[x]
        BY <2>1 DEF IInv, Shape, Hub!ContextStates
    <2>3. /\ buffer'[w] = buffer[w] \/ (buffer[w] # <<>> /\ buffer'[w] = Tail(buffer[w]))
          /\ \A x \in Watchers \ {w} : buffer'[x] = buffer[x]
          /\ DOMAIN buffer' = Watchers
          /\ buffer' = [x \in Watchers |-> buffer'[x]]
        BY <2>1
    <2> QED
        BY <1>3, <2>1, <2>2, <2>3
<1> QED
    BY <1>2, <1>4, <1>5, <1>6 DEF Follow

LEMMA NextIInv == IInv /\ [Next]_vars => IInv'
<1> SUFFICES ASSUME IInv, [Next]_vars PROVE IInv'
    OBVIOUS
<1>1. CASE UNCHANGED vars
    <2>1. UNCHANGED <<phase, batch, owed, context, scope, registered, buffer, todo, event,
                      active, lost>>
        BY <1>1 DEF vars, dbVars, hubVars
    <2>2. Shape' /\ Known' /\ Changing' /\ Telling' /\ Addressed' /\ OwnNamespaceOnly'
        BY <2>1 DEF IInv, Shape, Known, Changing, Telling, Addressed, OwnNamespaceOnly
    <2>3. Pending' /\ Underway' /\ NoSilentCommit'
        BY <2>1 DEF IInv, Pending, Underway, NoSilentCommit, Settled
    <2> QED
        BY <2>2, <2>3 DEF IInv
<1> QED
    BY <1>1, CallKeeps, StartNotifyKeeps, TellKeeps, GiveUpKeeps, EndNotifyKeeps, CommitKeeps,
       FollowKeeps DEF Next

LEMMA Inductive == Spec => []IInv
BY InitIInv, NextIInv, PTL DEF Spec

--------------------------------------------------------------------------------
(***************************************************************************)
(* No transaction is ready to commit before every watcher that its         *)
(* namespace had when the call began was told, cut off, or has ended its   *)
(* own context, for any number of clients, watchers and resources.         *)
(***************************************************************************)
THEOREM CommitsAnnounced == Spec => []NoSilentCommit
<1>1. IInv => NoSilentCommit
    BY DEF IInv
<1> QED
    BY <1>1, Inductive, PTL

(***************************************************************************)
(* notifyWatchers tells a watcher of its own namespace only.               *)
(***************************************************************************)
THEOREM OwnNamespace == Spec => []OwnNamespaceOnly
<1>1. IInv => OwnNamespaceOnly
    BY DEF IInv
<1> QED
    BY <1>1, Inductive, PTL

--------------------------------------------------------------------------------
(* The refinement of the two parts the store is composed of.               *)

LEMMA DbStep == IInv /\ [Next]_vars => [Db!Next]_(Db!vars)
<1> SUFFICES ASSUME IInv, [Next]_vars PROVE [Db!Next]_(Db!vars)
    OBVIOUS
<1>1. ASSUME NEW c \in Clients, Call(c) PROVE Db!Next
    <2>1. PICK k \in Keys : \/ \E v \in Values : Db!Create(c, k, v) \/ Db!Update(c, k, v)
                            \/ Db!Delete(c, k)
        BY <1>1 DEF Call
    <2> QED
        BY <2>1 DEF Db!Next, Db!Keys, Keys
<1>2. ASSUME NEW c \in Clients, EndNotify(c) PROVE Db!Next
    BY <1>2 DEF EndNotify, Db!Next
<1>3. ASSUME NEW c \in Clients, Commit(c) PROVE Db!Next
    BY <1>3, ClientsAct DEF Commit, Db!Next
<1>4. ASSUME NEW c \in Clients, StartNotify(c) \/ Tell(c) \/ GiveUp(c) PROVE UNCHANGED Db!vars
    BY <1>4 DEF StartNotify, Tell, GiveUp, dbVars, Db!vars
<1>5. ASSUME NEW w \in Watchers, Follow(w) PROVE UNCHANGED Db!vars
    BY <1>5 DEF Follow, dbVars, Db!vars
<1>6. CASE UNCHANGED vars
    BY <1>6 DEF vars, dbVars, Db!vars
<1> QED
    BY <1>1, <1>2, <1>3, <1>4, <1>5, <1>6 DEF Next

(***************************************************************************)
(* The composition implements the transactions of VersionedStore: telling  *)
(* the watchers is the step those take between closure and commit, however *)
(* many steps of notifyWatchers it is.                                     *)
(***************************************************************************)
THEOREM ImplementsTransactions == Spec => Db!Spec
<1>1. Init => Db!Init
    BY DEF Init
<1> QED
    BY <1>1, DbStep, Inductive, PTL DEF Spec, Db!Spec

LEMMA HubStep == IInv /\ [Next]_vars => [Hub!HubNext]_(Hub!hubVars)
<1> SUFFICES ASSUME IInv, [Next]_vars PROVE [Hub!HubNext]_(Hub!hubVars)
    OBVIOUS
<1>1. ASSUME NEW c \in Clients, StartNotify(c) PROVE Hub!HubNext
    <2>1. ChangedKey(batch[c]) \in Keys
        BY <1>1 DEF StartNotify, IInv, Changing
    <2>2. ChangedKey(batch[c])[1] \in Namespaces /\ <<c, ChangedKey(batch[c])>> \in Events
        BY <2>1 DEF Keys, Events
    <2> QED
        BY <1>1, <2>2 DEF StartNotify, Hub!HubNext
<1>2. ASSUME NEW c \in Clients, Tell(c) \/ GiveUp(c) \/ EndNotify(c) PROVE Hub!HubNext
    BY <1>2 DEF Tell, GiveUp, EndNotify, Hub!HubNext, Hub!NotifierStep
<1>3. ASSUME NEW w \in Watchers, Follow(w) PROVE Hub!HubNext
    BY <1>3 DEF Follow, Hub!HubNext
<1>4. ASSUME NEW c \in Clients, Call(c) \/ Commit(c) PROVE UNCHANGED Hub!hubVars
    BY <1>4 DEF Call, Commit, hubVars, Hub!hubVars
<1>5. CASE UNCHANGED vars
    BY <1>5 DEF vars, hubVars, Hub!hubVars
<1> QED
    BY <1>1, <1>2, <1>3, <1>4, <1>5 DEF Next

(***************************************************************************)
(* The composition implements WatchHub: the store tells the watchers of a  *)
(* namespace that exists of a resource that exists, from one transaction   *)
(* of a client at a time.                                                  *)
(***************************************************************************)
THEOREM ImplementsWatches == Spec => Hub!HubInit /\ [][Hub!HubNext]_(Hub!hubVars)
<1>1. Init => Hub!HubInit
    BY DEF Init
<1> QED
    BY <1>1, HubStep, Inductive, PTL DEF Spec

================================================================================
