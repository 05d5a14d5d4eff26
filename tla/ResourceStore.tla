------------------------------ MODULE ResourceStore ------------------------------
(***************************************************************************)
(* The resource store as its callers see it: the transactions of           *)
(* VersionedStore, each of which runs notifyWatchers of WatchHub to its    *)
(* end before it commits.  An event stands for the transaction that sends  *)
(* it and for the resource it is about.                                    *)
(***************************************************************************)
EXTENDS StoreKeys, Sequences

CONSTANTS Clients, Pruner, Watchers, Capacity, None

VARIABLES
    db, phase, batch, stale, result,          \* VersionedStore
    context, scope, registered, buffer, closed, todo, dropping, event, active, lost,
    open, panicked,                           \* WatchHub
    owed     \* the watchers registered when a client's call began that it has not told yet

dbVars == <<db, phase, batch, stale, result>>
hubVars == <<context, scope, registered, buffer, closed, todo, dropping, event, active, lost,
             open, panicked>>
vars == <<dbVars, hubVars, owed>>

Events == Clients \X Keys

Db == INSTANCE VersionedStore
Hub == INSTANCE WatchHub WITH Notifiers <- Clients, Scopes <- Namespaces

Init ==
    /\ Db!Init
    /\ Hub!HubInit
    /\ owed = [c \in Clients |-> {}]

\* Mutant: the event names a record instead of the resource.
ChangedCell(b) == CHOOSE cell \in b.put \cup b.drop : TRUE

\* The resource a batch changes: the one whose main record it writes.
ChangedKey(b) == CHOOSE k \in Keys : <<k, 0>> \in b.put \cup b.drop

--------------------------------------------------------------------------------
(* The closure of Create, Update or Delete, up to notifyWatchers.          *)
Call(c) ==
    /\ ~panicked
    /\ \E k \in Keys :
          /\ \/ \E v \in Values : Db!Create(c, k, v) \/ Db!Update(c, k, v)
             \/ Db!Delete(c, k)
          /\ owed' = [owed EXCEPT ![c] = IF phase'[c] = "idle" THEN {}
                                          ELSE {w \in registered : scope[w] = k[1]}]
    /\ UNCHANGED hubVars

\* Mutant: the watch key is made from some other namespace.
StartNotifyAnywhere(c) ==
    /\ phase[c] = "notify"
    /\ \E s \in Namespaces : Hub!StartNotify(c, s, <<c, ChangedKey(batch[c])>>)
    /\ UNCHANGED <<dbVars, owed>>

StartNotify(c) ==
    /\ phase[c] = "notify"
    /\ Hub!StartNotify(c, ChangedKey(batch[c])[1], <<c, ChangedKey(batch[c])>>)
    /\ UNCHANGED <<dbVars, owed>>

Tell(c) ==
    /\ \E w \in Watchers : Hub!Send(c, w) /\ owed' = [owed EXCEPT ![c] = @ \ {w}]
    /\ UNCHANGED dbVars

GiveUp(c) ==
    /\ \/ \E w \in Watchers : Hub!SendOnClosed(c, w) \/ Hub!Drop(c, w)
       \/ Hub!CloseDropped(c)
    /\ UNCHANGED <<dbVars, owed>>

\* Mutant: the transaction does not wait for its notification.
EndNotifyEarly(c) ==
    /\ c \in active
    /\ Db!Notify(c)
    /\ UNCHANGED <<hubVars, owed>>

EndNotify(c) ==
    /\ Hub!EndNotify(c)
    /\ Db!Notify(c)
    /\ UNCHANGED owed

Commit(c) ==
    /\ ~panicked
    /\ Db!Commit(c) \/ Db!Conflict(c)
    /\ owed' = [owed EXCEPT ![c] = {}]
    /\ UNCHANGED hubVars

Follow(w) ==
    /\ Hub!Watch(w) \/ Hub!Receive(w) \/ Hub!EndContext(w) \/ Hub!Cleanup(w)
    /\ UNCHANGED <<dbVars, owed>>

Next ==
    \/ \E c \in Clients :
          Call(c) \/ StartNotify(c) \/ Tell(c) \/ GiveUp(c) \/ EndNotify(c) \/ Commit(c)
    \/ \E w \in Watchers : Follow(w)

Spec == Init /\ [][Next]_vars

--------------------------------------------------------------------------------
TypeOK ==
    /\ Db!TypeOK
    /\ Hub!HubTypeOK
    /\ owed \in [Clients -> SUBSET Watchers]

(***************************************************************************)
(* No change becomes visible behind the back of a watcher: when a          *)
(* transaction is ready to commit, every watcher that its namespace had    *)
(* when the call began has its event, or has been cut off, or has itself   *)
(* ended its context.                                                      *)
(***************************************************************************)
NoSilentCommit ==
    \A c \in Clients : phase[c] = "commit" =>
        \A w \in owed[c] : w \in lost \/ context[w] # "live"

(***************************************************************************)
(* Watchers are told of their own namespace only.                          *)
(***************************************************************************)
OwnNamespaceOnly ==
    \A w \in Watchers : \A i \in DOMAIN buffer[w] : buffer[w][i][2][1] = scope[w]

================================================================================
