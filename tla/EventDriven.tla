------------------------------- MODULE EventDriven -------------------------------
(***************************************************************************)
(* The event-driven and the swarm pattern (internal/patterns): a topic     *)
(* that the orchestrator subscribes to, once for every Start.  The handler *)
(* of the event-driven pattern copies the map of subscribers and publishes *)
(* the event to those of them whose filter matches, one after the other,   *)
(* while subscribers come and go; the handler of a swarm does nothing.     *)
(***************************************************************************)
EXTENDS Integers, FiniteSets

CONSTANTS
    Agents,
    Events,
    Matching,          \* the pairs <<agent, event>> that a filter lets through
    StartBound,        \* bounds of the model: calls of Start,
    ChangeBound        \* and changes of the subscribers

VARIABLES
    routes,            \* the pattern routes what it hears: it is not a swarm
    starts, live,      \* calls of Start, subscriptions that are open
    tracked,           \* subscriptions that Stop knows
    subscribers,
    pending,           \* how many subscriptions have still to hear each event
    routing,           \* of each event, the agents it has still to go to
    received,          \* how often each agent got each event
    changes

vars == <<routes, starts, live, tracked, subscribers, pending, routing, received, changes>>

Init ==
    /\ routes \in BOOLEAN
    /\ starts = 0 /\ live = 0 /\ tracked = 0
    /\ subscribers = Agents
    /\ pending = [e \in Events |-> 0]
    /\ routing = [e \in Events |-> {}]
    /\ received = [p \in Agents \X Events |-> 0]
    /\ changes = 0

Subscribe(known) ==
    /\ starts < StartBound
    /\ starts' = starts + 1 /\ live' = live + 1 /\ tracked' = known
    /\ UNCHANGED <<routes, subscribers, pending, routing, received, changes>>

\* Nothing keeps Start from being called again; the event-driven pattern
\* then forgets its first subscription, the swarm keeps both.
Start == routes /\ Subscribe(1)

StartSwarm == ~routes /\ Subscribe(tracked + 1)

\* Every open subscription hears it.
Send(e) ==
    /\ pending[e] = 0 /\ routing[e] = {} /\ \A a \in Agents : received[<<a, e>>] = 0
    /\ live > 0
    /\ pending' = [pending EXCEPT ![e] = live]
    /\ UNCHANGED <<routes, starts, live, tracked, subscribers, routing, received, changes>>

PublishEvent(e) == routes /\ Send(e)

PublishToSwarm(e) == ~routes /\ Send(e)

MatchesFilter(a, e) == <<a, e>> \in Matching

HandleEvent(e) ==
    /\ routes /\ pending[e] > 0 /\ routing[e] = {}
    /\ pending' = [pending EXCEPT ![e] = @ - 1]
    /\ routing' = [routing EXCEPT ![e] = {a \in subscribers : MatchesFilter(a, e)}]
    /\ UNCHANGED <<routes, starts, live, tracked, subscribers, received, changes>>

\* It decodes the message and logs it: no agent gets it.
HandleSwarmMessage(e) ==
    /\ ~routes /\ pending[e] > 0
    /\ pending' = [pending EXCEPT ![e] = @ - 1]
    /\ UNCHANGED <<routes, starts, live, tracked, subscribers, routing, received, changes>>

\* Mutant: the handler looks at the map itself, and starts over when it grows.
RouteFromMap(a, e) ==
    /\ routing[e] # {} /\ a \in subscribers /\ MatchesFilter(a, e)
    /\ routing' = [routing EXCEPT ![e] = IF changes > 0 THEN subscribers ELSE @ \ {a}]
    /\ received' = [received EXCEPT ![<<a, e>>] = @ + 1]
    /\ received[<<a, e>>] < 3
    /\ UNCHANGED <<routes, starts, live, tracked, subscribers, pending, changes>>

\* A publication that fails is logged, and the next subscriber is served.
Route(a, e) ==
    /\ a \in routing[e]
    /\ routing' = [routing EXCEPT ![e] = @ \ {a}]
    /\ \/ received' = [received EXCEPT ![<<a, e>>] = @ + 1]
       \/ UNCHANGED received
    /\ UNCHANGED <<routes, starts, live, tracked, subscribers, pending, changes>>

AddSubscriber(a) ==
    /\ routes
    /\ changes < ChangeBound /\ changes' = changes + 1
    /\ subscribers' = subscribers \cup {a}
    /\ UNCHANGED <<routes, starts, live, tracked, pending, routing, received>>

RemoveSubscriber(a) ==
    /\ routes
    /\ changes < ChangeBound /\ changes' = changes + 1
    /\ subscribers' = subscribers \ {a}
    /\ UNCHANGED <<routes, starts, live, tracked, pending, routing, received>>

Unsubscribe ==
    /\ tracked > 0
    /\ live' = live - tracked /\ tracked' = 0
    /\ pending' = [e \in Events |-> IF pending[e] > live - tracked THEN live - tracked ELSE pending[e]]
    /\ UNCHANGED <<routes, starts, subscribers, routing, received, changes>>

Stop == routes /\ Unsubscribe

StopSwarm == ~routes /\ Unsubscribe

Next ==
    \/ Start \/ Stop \/ StartSwarm \/ StopSwarm
    \/ \E e \in Events :
          \/ PublishEvent(e) \/ HandleEvent(e)
          \/ PublishToSwarm(e) \/ HandleSwarmMessage(e)
          \/ \E a \in Agents : Route(a, e)
    \/ \E a \in Agents : AddSubscriber(a) \/ RemoveSubscriber(a)

--------------------------------------------------------------------------------
TypeOK ==
    /\ starts \in 0 .. StartBound /\ live \in 0 .. StartBound /\ tracked \in 0 .. StartBound
    /\ subscribers \subseteq Agents
    /\ pending \in [Events -> 0 .. StartBound]
    /\ routing \in [Events -> SUBSET Agents]
    /\ received \in [Agents \X Events -> Nat]

(***************************************************************************)
(* Whoever comes and goes while an event is being routed, an agent gets it *)
(* at most once for each call of Start, and only when its filter matches;  *)
(* started once and stopped, the pattern hears nothing more.               *)
(***************************************************************************)
EventOnce ==
    /\ \A p \in Agents \X Events :
          received[p] <= starts /\ (received[p] > 0 => p \in Matching)
    /\ starts <= 1 => live = tracked

================================================================================
