------------------------------- MODULE KeeperRelay -------------------------------
(***************************************************************************)
(* The message relay of a Keeper (internal/keeper/relay.go) with its       *)
(* guardrails and the webhooks it fires.  Messages come from the bus into  *)
(* a bounded queue, one goroutine writes them to the agent's stdin, what   *)
(* the agent answers goes into a second bounded queue, and another         *)
(* goroutine publishes it.  A write to the agent, a publication and a      *)
(* webhook may each fail and are tried again.                              *)
(***************************************************************************)
EXTENDS Guardrails, Sequences, FiniteSets, SequencesExt

CONSTANTS
    Requests,          \* messages for the agent, by ID
    Cost,              \* the tokens the answer to each reports
    Invalid,           \* those whose answer fails the output schema
    QueueSize,         \* 1000 in the code
    MaxRetries,        \* attempts of a delivery or a publication, 3 in the code
    MaxPosts,          \* Config.MaxRetries of the webhook client
    SessionHive,       \* the hive of the Keeper's session
    NoMessage, NoHive,
    Ticks, FailBound   \* bounds of the model: the clock, and failing calls

ASSUME RequestsAssumption ==
    /\ Invalid \subseteq Requests
    /\ Cost \in [Requests -> Nat]
    /\ NoMessage \notin Requests
ASSUME TimeAssumption == Ticks \in Nat
ASSUME LimitsAssumption == {QueueSize, MaxRetries, MaxPosts} \subseteq Nat \ {0}

VARIABLES
    wire,                   \* what the bus still has to hand to the subscription
    phase,                  \* of the relay: Stop cancels its context, then the agent
    alive,                  \* the agent process runs
    limiter, tracker,       \* the guardrails
    tracked,                \* timeoutTracker.activeRequests
    inbound, outbound,      \* the two queues
    deliverer, publisher,   \* the two goroutines
    answered,               \* requests the agent has answered
    hiveCache,              \* the hive the Keeper remembers for its session
    event,                  \* the webhook about each request
    clock, fails,
    \* History variables:
    accepted,               \* what has entered the inbound queue, in order
    handled,                \* what the deliverer is done with, and how it ended
    published,              \* what the bus has, once for every copy
    spent,                  \* the tokens reported by all of it
    early,                  \* answers published before the tracking began
    admitted                \* how often the limiter said yes

sent == <<published, spent>>
bus == <<wire, sent>>
guards == <<limiter, tracker, tracked>>
history == <<accepted, handled, early, admitted>>
hooks == <<hiveCache, event>>
time == <<clock, fails>>
vars == <<bus, phase, alive, guards, inbound, outbound, deliverer, publisher,
          answered, hooks, time, history>>

Idle == [step |-> "idle", msg |-> NoMessage, attempts |-> 0]
NoEvent == [step |-> "none", attempts |-> 0, heard |-> 0]

\* A budget that is 0 limits nothing, as no tracker would.
NewKeeper ==
    /\ limiter = NewRateLimiter
    /\ tracker = NewTokenBudgetTracker
    /\ tracked = {}
    /\ hiveCache = "unset"

Init ==
    /\ NewKeeper
    /\ wire = <<>> /\ published = <<>> /\ spent = 0
    /\ phase = "running" /\ alive = TRUE
    /\ inbound = <<>> /\ outbound = <<>>
    /\ deliverer = Idle /\ publisher = Idle
    /\ answered = {}
    /\ event = [r \in Requests |-> NoEvent]
    /\ clock = 0 /\ fails = 0
    /\ accepted = <<>> /\ handled = <<>> /\ early = {} /\ admitted = 0

Fail == fails < FailBound /\ fails' = fails + 1

--------------------------------------------------------------------------------
(* Webhooks.                                                               *)

\* getHiveNameFromSession: from the cache, or from the store and then into
\* the cache, an error of the store as "no hive".
HiveNames == IF hiveCache = "unset" THEN {SessionHive, NoHive} ELSE {hiveCache}

\* getHiveWebhookConfig: a hive that cannot be read has no webhook, and
\* neither has every hive that can.
WebhookConfigs(hive) == IF hive = NoHive THEN {FALSE} ELSE BOOLEAN

SendEvent(r) == event' = [event EXCEPT ![r].step = "sending"]

FireWebhook(r) ==
    \E hive \in HiveNames :
        /\ hiveCache' = hive
        /\ \E configured \in WebhookConfigs(hive) :
              IF configured THEN SendEvent(r) ELSE UNCHANGED event

\* Client.Send: an endpoint may have taken an event whose answer is lost.
Post(r, heard, ok) ==
    LET n == event[r].attempts + 1
    IN  /\ event[r].step = "sending"
        /\ ok => heard
        /\ event' = [event EXCEPT ![r] =
              [step |-> IF ok THEN "sent" ELSE IF n = MaxPosts THEN "failed" ELSE "sending",
               attempts |-> n,
               heard |-> IF heard THEN @.heard + 1 ELSE @.heard]]
        /\ IF ok THEN UNCHANGED fails ELSE Fail
        /\ UNCHANGED <<bus, phase, alive, guards, inbound, outbound, deliverer, publisher,
                       answered, hiveCache, clock, history>>

--------------------------------------------------------------------------------
(* From the bus to the agent.                                              *)

Arrive(r) ==
    /\ r \notin Range(wire)
    /\ r \notin Range(accepted) /\ event[r] = NoEvent
    /\ wire' = Append(wire, r)
    /\ UNCHANGED <<sent, phase, alive, guards, inbound, outbound, deliverer, publisher,
                   answered, hooks, time, history>>

\* Mutant: a full queue makes room by forgetting its oldest message.
EnqueueOverOldest(r) ==
    /\ inbound' = Append(IF Len(inbound) = QueueSize THEN Tail(inbound) ELSE inbound, r)
    /\ accepted' = Append(accepted, r)

Enqueue(r) ==
    IF Len(inbound) = QueueSize
    THEN UNCHANGED <<inbound, accepted>>
    ELSE inbound' = Append(inbound, r) /\ accepted' = Append(accepted, r)

\* A payload that does not decode is an error too.
Admit(r) ==
    /\ admitted' = admitted + 1
    /\ Enqueue(r) \/ UNCHANGED <<inbound, accepted>>

\* A message that is refused, does not decode or finds the queue full is
\* gone: the bus logs the error of its handler.
HandleInboundMessage ==
    LET r == Head(wire)
    IN  /\ phase = "running" /\ wire # <<>>
        /\ wire' = Tail(wire)
        /\ limiter' = Allow(limiter)
        /\ \/ Allows(limiter) /\ Admit(r) /\ UNCHANGED hooks
           \/ ~Allows(limiter) /\ FireWebhook(r) /\ UNCHANGED <<inbound, accepted, admitted>>
        /\ UNCHANGED <<sent, phase, alive, tracker, tracked, outbound, deliverer, publisher,
                       answered, time, handled, early>>

Dequeue ==
    /\ deliverer = Idle /\ inbound # <<>>
    /\ deliverer' = [Idle EXCEPT !.step = "holding", !.msg = Head(inbound)]
    /\ inbound' = Tail(inbound)
    /\ UNCHANGED <<bus, phase, alive, guards, outbound, publisher, answered, hooks, time, history>>

Done(fate) == handled' = Append(handled, [msg |-> deliverer.msg, fate |-> fate])

\* SendMessage writes to stdin.
SendMessage ==
    /\ deliverer.step = "holding" /\ alive
    /\ deliverer' = [deliverer EXCEPT !.step = "sent"]
    /\ Done("delivered")
    /\ UNCHANGED <<bus, phase, alive, guards, inbound, outbound, publisher, answered, hooks, time,
                   accepted, early, admitted>>

\* Mutant: the attempts are not counted.
SendFailsForever ==
    /\ deliverer.step = "holding"
    /\ IF alive THEN Fail ELSE UNCHANGED fails
    /\ UNCHANGED <<bus, phase, alive, guards, inbound, outbound, deliverer, publisher, answered,
                   hooks, clock, history>>

SendFails ==
    /\ deliverer.step = "holding"
    /\ IF alive THEN Fail ELSE UNCHANGED fails
    /\ \/ /\ deliverer.attempts + 1 < MaxRetries
          /\ deliverer' = [deliverer EXCEPT !.attempts = @ + 1]
          /\ UNCHANGED handled
       \/ /\ deliverer.attempts + 1 = MaxRetries
          /\ deliverer' = Idle /\ Done("dropped")
    /\ UNCHANGED <<bus, phase, alive, guards, inbound, outbound, publisher, answered, hooks, clock,
                   accepted, early, admitted>>

Tracking(requests, r) == requests \cup {r}

\* The tracking of the request begins after the agent has it.
StartRequest ==
    /\ deliverer.step = "sent"
    /\ tracked' = Tracking(tracked, deliverer.msg)
    /\ deliverer' = Idle
    /\ UNCHANGED <<bus, phase, alive, limiter, tracker, inbound, outbound, publisher, answered,
                   hooks, time, history>>

\* Cancelled, the goroutine ends with the message it holds or before it
\* takes one.
EndDelivery ==
    /\ phase # "running"
    /\ deliverer.step \in {"idle", "holding"}
    /\ deliverer' = [deliverer EXCEPT !.step = "ended"]
    /\ UNCHANGED <<bus, phase, alive, guards, inbound, outbound, publisher, answered, hooks, time,
                   history>>

--------------------------------------------------------------------------------
(* From the agent to the bus.                                              *)

Received == {h.msg : h \in {x \in Range(handled) : x.fate = "delivered"}}

\* PublishAgentMessage: an answer that names the request, or a message with
\* the request's ID and no correlation ID; a full queue is the agent's
\* problem, which may try again.
PublishAgentMessage(r, correlated) ==
    /\ alive /\ r \in Received \ answered
    /\ Len(outbound) < QueueSize
    /\ answered' = answered \cup {r}
    /\ outbound' = Append(outbound, [request |-> r, correlated |-> correlated])
    /\ UNCHANGED <<bus, phase, alive, guards, inbound, deliverer, publisher, hooks, time, history>>

\* determineTopic, for a message without a destination.
Topic(m) == IF m.correlated THEN "agent.response" ELSE "session"

TakeOutbound ==
    /\ publisher = Idle /\ outbound # <<>>
    /\ publisher' = [Idle EXCEPT !.step = "holding", !.msg = Head(outbound)]
    /\ outbound' = Tail(outbound)
    /\ UNCHANGED <<bus, phase, alive, guards, inbound, deliverer, answered, hooks, time, history>>

\* An output that is not valid or not paid for is not published.
Withhold ==
    /\ publisher' = Idle
    /\ FireWebhook(publisher.msg.request)

RejectOutput ==
    /\ publisher.step = "holding" /\ publisher.msg.request \in Invalid
    /\ Withhold
    /\ UNCHANGED <<bus, phase, alive, guards, inbound, outbound, deliverer, answered, time, history>>

\* What the answer's metadata report, 0 when they report nothing.
ExtractTokenCount(m) == Cost[m.request]

\* Mutant: a message that is tried again is not charged again.
ChargeOnce ==
    LET tokens == IF publisher.attempts = 0 THEN ExtractTokenCount(publisher.msg) ELSE 0
        usage == RecordUsage(tracker, tokens)
    IN  /\ publisher.step = "holding" /\ publisher.msg.request \notin Invalid
        /\ tracker' = usage.tracker
        /\ \/ usage.error = "none" /\ publisher' = [publisher EXCEPT !.step = "charged"] /\ UNCHANGED hooks
           \/ usage.error # "none" /\ Withhold
        /\ UNCHANGED <<bus, phase, alive, limiter, tracked, inbound, outbound, deliverer, answered,
                       time, history>>

Charge ==
    LET tokens == ExtractTokenCount(publisher.msg)
        usage == RecordUsage(tracker, tokens)
    IN  /\ publisher.step = "holding" /\ publisher.msg.request \notin Invalid
        /\ tracker' = IF tokens > 0 THEN usage.tracker ELSE tracker
        /\ \/ /\ tokens = 0 \/ usage.error = "none"
              /\ publisher' = [publisher EXCEPT !.step = "charged"]
              /\ UNCHANGED hooks
           \/ tokens > 0 /\ usage.error # "none" /\ Withhold
        /\ UNCHANGED <<bus, phase, alive, limiter, tracked, inbound, outbound, deliverer, answered,
                       time, history>>

\* Mutant: the request is looked for under the ID of the answer.
CompletedByID(requests, m) == IF m.correlated THEN requests ELSE requests \ {m.request}

\* CompleteRequest, with the correlation ID or the message's own ID.
Completed(requests, m) == requests \ {m.request}

OnBus(ok) ==
    /\ published' = Append(published, [msg |-> publisher.msg, topic |-> Topic(publisher.msg), ok |-> ok])
    /\ spent' = spent + Cost[publisher.msg.request]

Publish ==
    /\ publisher.step = "charged"
    /\ OnBus(TRUE)
    /\ publisher' = Idle
    /\ tracked' = Completed(tracked, publisher.msg)
    /\ early' = IF publisher.msg.request \in tracked THEN early ELSE early \cup {publisher.msg.request}
    /\ UNCHANGED <<wire, phase, alive, limiter, tracker, inbound, outbound, deliverer, answered,
                   hooks, time, accepted, handled, admitted>>

\* The bus answers with an error; it may have the message all the same.
PublishFails ==
    /\ publisher.step = "charged" /\ Fail
    /\ OnBus(FALSE) \/ UNCHANGED sent
    /\ publisher' = IF publisher.attempts + 1 = MaxRetries
                    THEN Idle
                    ELSE [publisher EXCEPT !.step = "holding", !.attempts = @ + 1]
    /\ UNCHANGED <<wire, phase, alive, guards, inbound, outbound, deliverer, answered, hooks, clock,
                   history>>

EndPublishing ==
    /\ phase # "running"
    /\ publisher.step \in {"idle", "holding"}
    /\ publisher' = [publisher EXCEPT !.step = "ended"]
    /\ UNCHANGED <<bus, phase, alive, guards, inbound, outbound, deliverer, answered, hooks, time,
                   history>>

--------------------------------------------------------------------------------
(* Stop cancels the relay, waits at most five seconds for it and ends the  *)
(* agent; when its own context ends first the agent is left running.       *)

Cancel ==
    /\ phase = "running" /\ phase' = "cancelled"
    /\ UNCHANGED <<bus, alive, guards, inbound, outbound, deliverer, publisher, answered, hooks,
                   time, history>>

Stop(stopped) ==
    /\ phase = "cancelled" /\ phase' = "stopped"
    /\ alive' = (alive /\ ~stopped)
    /\ UNCHANGED <<bus, guards, inbound, outbound, deliverer, publisher, answered, hooks, time,
                   history>>

AgentExits ==
    /\ alive /\ alive' = FALSE
    /\ UNCHANGED <<bus, phase, guards, inbound, outbound, deliverer, publisher, answered, hooks,
                   time, history>>

Tick(minute) ==
    /\ clock < Ticks /\ clock' = clock + 1
    /\ limiter' = [limiter EXCEPT !.since = @ + 1]
    /\ tracker' = [tracker EXCEPT !.turned = @ \/ minute]
    /\ UNCHANGED <<bus, phase, alive, tracked, inbound, outbound, deliverer, publisher, answered,
                   hooks, fails, history>>

Deliver == Dequeue \/ SendMessage \/ SendFails \/ StartRequest \/ EndDelivery

PublishLoop == TakeOutbound \/ RejectOutput \/ Charge \/ Publish \/ PublishFails \/ EndPublishing

Next ==
    \/ \E r \in Requests :
          \/ Arrive(r)
          \/ \E correlated \in BOOLEAN : PublishAgentMessage(r, correlated)
          \/ \E heard, ok \in BOOLEAN : Post(r, heard, ok)
    \/ HandleInboundMessage
    \/ Deliver
    \/ PublishLoop
    \/ Cancel
    \/ \E stopped \in BOOLEAN : Stop(stopped)
    \/ AgentExits
    \/ \E minute \in BOOLEAN : Tick(minute)

Spec == Init /\ [][Next]_vars

\* The two goroutines and the senders of webhooks keep running.
FairSpec ==
    /\ Spec
    /\ WF_vars(Deliver) /\ WF_vars(PublishLoop)
    /\ \A r \in Requests : WF_vars(\E heard, ok \in BOOLEAN : Post(r, heard, ok))

--------------------------------------------------------------------------------
Workers(steps, Held) == [step : steps, msg : Held \cup {NoMessage}, attempts : 0 .. MaxRetries - 1]
Answers == [request : Requests, correlated : BOOLEAN]

TypeOK ==
    /\ wire \in Seq(Requests)
    /\ phase \in {"running", "cancelled", "stopped"} /\ alive \in BOOLEAN
    /\ limiter \in [tokens : 0 .. BurstSize, since : 0 .. Ticks]
    /\ tracker.session \in Nat /\ tracker.minute \in Nat /\ tracker.turned \in BOOLEAN
    /\ tracked \subseteq Requests /\ answered \subseteq Requests
    /\ inbound \in Seq(Requests) /\ Len(inbound) <= QueueSize
    /\ outbound \in Seq(Answers) /\ Len(outbound) <= QueueSize
    /\ deliverer \in Workers({"idle", "holding", "sent", "ended"}, Requests)
    /\ publisher \in Workers({"idle", "holding", "charged", "ended"}, Answers)
    /\ hiveCache \in {"unset", SessionHive, NoHive}
    /\ event \in [Requests -> [step : {"none", "sending", "sent", "failed"},
                               attempts : 0 .. MaxPosts, heard : 0 .. MaxPosts]]

(***************************************************************************)
(* Nothing that the relay accepted is lost, doubled or overtaken: the      *)
(* messages delivered or given up after the last attempt, the one in the   *)
(* deliverer's hands and the queue are together what was accepted, in that *)
(* order, through retries and a shutdown in any place.                     *)
(***************************************************************************)
InHand == IF deliverer.msg = NoMessage \/ deliverer.step = "sent" THEN <<>> ELSE <<deliverer.msg>>

AcceptedInOrder ==
    accepted = [i \in DOMAIN handled |-> handled[i].msg] \o InHand \o inbound

(***************************************************************************)
(* What the bus has of this session, every copy of it, is within the       *)
(* session's budget, although a publication that seemed to fail may have   *)
(* reached the bus and is tried again.                                     *)
(***************************************************************************)
PublishedWithinBudget == PerSession > 0 => spent <= PerSession

(***************************************************************************)
(* A request is tracked after its answer is out only when the answer       *)
(* overtook the start of the tracking.                                     *)
(***************************************************************************)
Out == {p.msg.request : p \in {x \in Range(published) : x.ok}}

TrackedUntilAnswered == tracked \cap Out \subseteq early

(***************************************************************************)
(* However the calls fall into the seconds, the limiter has let no more    *)
(* through than a full bucket and one refill for every second that passed. *)
(***************************************************************************)
AdmittedWithinRate ==
    admitted <= BurstSize + TokensPerRefill * (clock \div TicksPerSecond)

(***************************************************************************)
(* A running relay gets every message it accepted to the agent, or gives   *)
(* it up.                                                                  *)
(***************************************************************************)
AcceptedIsHandled ==
    \A r \in Requests :
        r \in Range(accepted) ~> (\E h \in Range(handled) : h.msg = r) \/ phase # "running"

================================================================================
