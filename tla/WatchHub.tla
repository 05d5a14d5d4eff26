-------------------------------- MODULE WatchHub --------------------------------
(***************************************************************************)
(* The watchers of the badger resource store: Watch registers a buffered   *)
(* channel under "Kind:namespace", notifyWatchers copies the channels of   *)
(* one key under the lock and sends to them after unlocking it, never      *)
(* blocking; a channel that is full is unregistered and closed.  A watcher *)
(* whose context ends is unregistered by a goroutine of its own, and Close *)
(* unregisters them all.  Sending on a closed channel panics; nothing      *)
(* recovers it in the Queen's goroutine, which notifies whenever it        *)
(* creates or deletes a drone: the process stops.                          *)
(***************************************************************************)
EXTENDS Integers, Sequences, FiniteSets

CONSTANTS
    Notifiers,   \* callers of Create, Update and Delete
    Watchers,    \* channels, each handed out by one call of Watch
    Scopes,      \* the watch keys, one for each namespace
    Events,      \* what is sent
    Capacity,    \* the channels' buffer, 100 in the code
    None         \* no channel, no event

ASSUME CapacityAssumption == Capacity \in Nat \ {0}
ASSUME NoneAssumption == None \notin Watchers \cup Events

VARIABLES
    context,     \* [Watchers -> ContextStates]: not called yet, live, ended, cleaned up
    scope,       \* the watch key each channel was registered under
    registered,  \* Store.watchers: the channels the map still holds
    buffer,      \* the events buffered in each channel
    closed,      \* the channels that are closed
    todo,        \* what each notifier's copy of the list still has to be sent to
    dropping,    \* the full channel a notifier has unregistered and is to close
    event,       \* the event each notifier is sending
    active,      \* the notifiers inside notifyWatchers
    lost,        \* the channels an event did not fit in
    open,        \* Close has not been called
    panicked     \* a send on a closed channel has stopped the process

hubVars == <<context, scope, registered, buffer, closed, todo, dropping, event,
          active, lost, open, panicked>>

ContextStates == {"none", "live", "ended", "cleaned"}

HubInit ==
    /\ context = [w \in Watchers |-> "none"]
    /\ scope \in [Watchers -> Scopes]
    /\ registered = {}
    /\ buffer = [w \in Watchers |-> <<>>]
    /\ closed = {}
    /\ todo = [n \in Notifiers |-> {}]
    /\ dropping = [n \in Notifiers |-> None]
    /\ event = [n \in Notifiers |-> None]
    /\ active = {}
    /\ lost = {}
    /\ open = TRUE
    /\ panicked = FALSE

--------------------------------------------------------------------------------
(* The watchers.                                                           *)

Watch(w) ==
    /\ ~panicked
    /\ context[w] = "none"
    /\ context' = [context EXCEPT ![w] = "live"]
    /\ registered' = registered \cup {w}
    /\ UNCHANGED <<scope, buffer, closed, todo, dropping, event, active, lost, open, panicked>>

Receive(w) ==
    /\ ~panicked
    /\ buffer[w] # <<>>
    /\ buffer' = [buffer EXCEPT ![w] = Tail(@)]
    /\ UNCHANGED <<context, scope, registered, closed, todo, dropping, event, active, lost,
                   open, panicked>>

EndContext(w) ==
    /\ ~panicked
    /\ context[w] = "live"
    /\ context' = [context EXCEPT ![w] = "ended"]
    /\ UNCHANGED <<scope, registered, buffer, closed, todo, dropping, event, active, lost,
                   open, panicked>>

(* "select { case <-ch: default: close(ch) }" on each channel of W: one    *)
(* that holds an event loses it and stays open.                            *)
CloseOrReceive(W) ==
    /\ closed' = closed \cup {w \in W : buffer[w] = <<>>}
    /\ buffer' = [w \in Watchers |-> IF w \in W /\ buffer[w] # <<>>
                                     THEN Tail(buffer[w]) ELSE buffer[w]]

\* Mutant: the cleanup closes the channel and leaves it in the map.
CleanupKeeps(w) ==
    /\ ~panicked
    /\ context[w] = "ended"
    /\ context' = [context EXCEPT ![w] = "cleaned"]
    /\ CloseOrReceive({w} \cap registered)
    /\ UNCHANGED <<scope, registered, todo, dropping, event, active, lost, open, panicked>>

(* The goroutine that Watch starts, once its context has ended.            *)
Cleanup(w) ==
    /\ ~panicked
    /\ context[w] = "ended"
    /\ context' = [context EXCEPT ![w] = "cleaned"]
    /\ CloseOrReceive({w} \cap registered)
    /\ registered' = registered \ {w}
    /\ UNCHANGED <<scope, todo, dropping, event, active, lost, open, panicked>>

Close ==
    /\ ~panicked /\ open
    /\ open' = FALSE
    /\ CloseOrReceive(registered)
    /\ registered' = {}
    /\ UNCHANGED <<context, scope, todo, dropping, event, active, lost, panicked>>

--------------------------------------------------------------------------------
(* notifyWatchers.                                                         *)

\* Mutant: the event is left empty.
StartNotifyEmpty(n, s, e) ==
    /\ ~panicked
    /\ n \notin active
    /\ active' = active \cup {n}
    /\ todo' = [todo EXCEPT ![n] = {w \in registered : scope[w] = s}]
    /\ UNCHANGED <<context, scope, registered, buffer, closed, dropping, event, lost, open,
                   panicked>>

StartNotify(n, s, e) ==
    /\ ~panicked
    /\ n \notin active
    /\ active' = active \cup {n}
    /\ event' = [event EXCEPT ![n] = e]
    /\ todo' = [todo EXCEPT ![n] = {w \in registered : scope[w] = s}]
    /\ UNCHANGED <<context, scope, registered, buffer, closed, dropping, lost, open, panicked>>

\* The channels are sent to one at a time, in the order of the copied list.
Sending(n, w) ==
    /\ ~panicked
    /\ dropping[n] = None
    /\ w \in todo[n]

Send(n, w) ==
    /\ Sending(n, w)
    /\ w \notin closed
    /\ Len(buffer[w]) < Capacity
    /\ buffer' = [buffer EXCEPT ![w] = Append(@, event[n])]
    /\ todo' = [todo EXCEPT ![n] = @ \ {w}]
    /\ UNCHANGED <<context, scope, registered, closed, dropping, event, active, lost, open,
                   panicked>>

SendOnClosed(n, w) ==
    /\ Sending(n, w)
    /\ w \in closed
    /\ panicked' = TRUE
    /\ UNCHANGED <<context, scope, registered, buffer, closed, todo, dropping, event, active,
                   lost, open>>

\* Mutant: the select has no default case, so that a full channel is waited for.
WaitForRoom(n, w) == FALSE

Drop(n, w) ==
    /\ Sending(n, w)
    /\ w \notin closed
    /\ Len(buffer[w]) >= Capacity
    /\ registered' = registered \ {w}
    /\ dropping' = [dropping EXCEPT ![n] = w]
    /\ todo' = [todo EXCEPT ![n] = @ \ {w}]
    /\ lost' = lost \cup {w}
    /\ UNCHANGED <<context, scope, buffer, closed, event, active, open, panicked>>

\* Mutant: a channel that is full is unregistered and left open.
ForgetDropped(n) ==
    /\ ~panicked
    /\ dropping[n] # None
    /\ dropping' = [dropping EXCEPT ![n] = None]
    /\ UNCHANGED <<context, scope, registered, buffer, closed, todo, event, active, lost, open,
                   panicked>>

\* close(ch) under recover: closing it twice does no harm.
CloseDropped(n) ==
    /\ ~panicked
    /\ dropping[n] # None
    /\ closed' = closed \cup {dropping[n]}
    /\ dropping' = [dropping EXCEPT ![n] = None]
    /\ UNCHANGED <<context, scope, registered, buffer, todo, event, active, lost, open, panicked>>

EndNotify(n) ==
    /\ ~panicked
    /\ n \in active
    /\ todo[n] = {} /\ dropping[n] = None
    /\ active' = active \ {n}
    /\ event' = [event EXCEPT ![n] = None]
    /\ UNCHANGED <<context, scope, registered, buffer, closed, todo, dropping, lost, open,
                   panicked>>

NotifierStep(n) ==
    \/ \E w \in Watchers : Send(n, w) \/ SendOnClosed(n, w) \/ Drop(n, w)
    \/ CloseDropped(n)
    \/ EndNotify(n)

HubNext ==
    \/ \E w \in Watchers : Watch(w) \/ Receive(w) \/ EndContext(w) \/ Cleanup(w)
    \/ Close
    \/ \E n \in Notifiers :
          \/ \E s \in Scopes, e \in Events : StartNotify(n, s, e)
          \/ NotifierStep(n)

(* A goroutine inside notifyWatchers is scheduled again and again; nobody   *)
(* has to read a channel, to end a context or to change a resource.        *)
Fairness == \A n \in Notifiers : WF_hubVars(NotifierStep(n))

HubSpec == HubInit /\ [][HubNext]_hubVars /\ Fairness

--------------------------------------------------------------------------------
HubTypeOK ==
    /\ context \in [Watchers -> ContextStates]
    /\ scope \in [Watchers -> Scopes]
    /\ registered \subseteq Watchers
    /\ buffer \in [Watchers -> Seq(Events)]
    /\ closed \subseteq Watchers
    /\ todo \in [Notifiers -> SUBSET Watchers]
    /\ dropping \in [Notifiers -> Watchers \cup {None}]
    /\ event \in [Notifiers -> Events \cup {None}]
    /\ active \subseteq Notifiers
    /\ lost \subseteq Watchers
    /\ open \in BOOLEAN
    /\ panicked \in BOOLEAN

BeingClosed(w) == \E n \in Notifiers : dropping[n] = w

(***************************************************************************)
(* A watcher that has missed an event is told: its channel is unregistered *)
(* for good, and it is closed or some notifier is about to close it,       *)
(* whatever Cleanup, Close and the other notifiers do meanwhile.           *)
(***************************************************************************)
LossIsSignalled ==
    \A w \in lost : w \notin registered /\ (w \in closed \/ BeingClosed(w))

(***************************************************************************)
(* No watcher delays a store operation: every notification ends although   *)
(* no watcher ever reads its channel, unless the process has panicked.     *)
(***************************************************************************)
NotifierNeverBlocks ==
    \A n \in Notifiers : n \in active ~> (n \notin active \/ panicked)

(***************************************************************************)
(* A channel that the map still holds is open and within its capacity: a   *)
(* registered watcher never waits on a channel nobody will send to.        *)
(***************************************************************************)
RegisteredIsOpen ==
    \A w \in registered : w \notin closed /\ Len(buffer[w]) <= Capacity

(***************************************************************************)
(* pkg/apiary/interfaces.go asks implementations "to be thread-safe and    *)
(* support concurrent access": no operation of the store may bring the     *)
(* process down by sending on a channel that another one has closed.       *)
(***************************************************************************)
NoPanic == ~panicked

================================================================================
