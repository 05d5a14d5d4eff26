----------------------------- MODULE CircuitBreaker -----------------------------
(***************************************************************************)
(* The circuit breaker of a drone and the manager that hands it out        *)
(* (internal/circuitbreaker).  A request asks the breaker, goes to the     *)
(* drone when it may and reports how it went; the manager's methods look   *)
(* the breaker up under one lock and use it under another, and the Queen   *)
(* may remove it in between.  A breaker that has been removed lives on for *)
(* the calls that hold it.                                                 *)
(***************************************************************************)
EXTENDS Integers, FiniteSets

CONSTANTS
    Requests,          \* callers, each with a request ID of its own
    Breakers,          \* breaker objects
    NoBreaker, NoRequest,
    FailureThreshold, MaxFailures,
    Asking,            \* the callers that ask AllowRequest first
    ForgetBound,       \* bounds of the model: removals of the breaker
    LossBound,         \* requests whose outcome is never reported,
    RetryBound         \* requests tried again

ASSUME BreakerMarkersAssumption == NoBreaker \notin Breakers /\ NoRequest \notin Requests
ASSUME ConfigAssumption == FailureThreshold \in Nat \ {0} /\ MaxFailures \in Nat \ {0}
ASSUME AskingAssumption == Asking \subseteq Requests
ASSUME BreakerBoundsAssumption == {ForgetBound, LossBound, RetryBound} \subseteq Nat

VARIABLES
    current,    \* Manager.breakers of the drone
    state, failureCount, halfOpenRequestID,     \* of each breaker
    rested,     \* ResetTimeout has passed since the breaker's lastFailure
    step,       \* where each request is
    holds,      \* the breaker that GetOrCreate gave its call
    outcome,    \* what it has to report
    allowance

breaker == <<state, failureCount, halfOpenRequestID, rested>>
request == <<step, holds, outcome>>
breakerVars == <<current, breaker, request, allowance>>

States == {"closed", "open", "half-open"}
RequestSteps == {"idle", "asking", "flying", "reporting"}

BreakerInit ==
    /\ current = NoBreaker
    /\ state = [b \in Breakers |-> "closed"]
    /\ failureCount = [b \in Breakers |-> 0]
    /\ halfOpenRequestID = [b \in Breakers |-> NoRequest]
    /\ rested = [b \in Breakers |-> FALSE]
    /\ step = [r \in Requests |-> "idle"]
    /\ holds = [r \in Requests |-> NoBreaker]
    /\ outcome = [r \in Requests |-> "none"]
    /\ allowance = [remove |-> ForgetBound, loss |-> LossBound, retry |-> RetryBound]

--------------------------------------------------------------------------------
(* GetOrCreate: the breaker there is, or a new closed one.                 *)

InUse(b) == b = current \/ \E r \in Requests : holds[r] = b

GetOrCreate(r) ==
    \/ /\ current # NoBreaker
       /\ holds' = [holds EXCEPT ![r] = current]
       /\ UNCHANGED <<current, breaker>>
    \/ /\ current = NoBreaker
       /\ \E b \in Breakers :
             /\ ~InUse(b)
             /\ current' = b
             /\ holds' = [holds EXCEPT ![r] = b]
             /\ state' = [state EXCEPT ![b] = "closed"]
             /\ failureCount' = [failureCount EXCEPT ![b] = 0]
             /\ halfOpenRequestID' = [halfOpenRequestID EXCEPT ![b] = NoRequest]
             /\ rested' = [rested EXCEPT ![b] = FALSE]

\* Request IDs are unique: one is taken again only when no breaker knows it.
New(r) == step[r] = "idle" /\ \A b \in Breakers : InUse(b) => halfOpenRequestID[b] # r

Ask(r) ==
    /\ r \in Asking
    /\ New(r)
    /\ step' = [step EXCEPT ![r] = "asking"]
    /\ GetOrCreate(r)
    /\ UNCHANGED <<outcome, allowance>>

\* A caller that uses the drone without asking.
Barge(r) ==
    /\ r \notin Asking
    /\ New(r)
    /\ step' = [step EXCEPT ![r] = "flying"]
    /\ UNCHANGED <<current, breaker, holds, outcome, allowance>>

--------------------------------------------------------------------------------
(* AllowRequest.                                                           *)

Answer(r, allowed) ==
    /\ step' = [step EXCEPT ![r] = IF allowed THEN "flying" ELSE "idle"]
    /\ holds' = [holds EXCEPT ![r] = NoBreaker]
    /\ UNCHANGED <<current, failureCount, rested, outcome, allowance>>

AllowClosed(r) ==
    /\ state[holds[r]] = "closed"
    /\ Answer(r, TRUE)
    /\ UNCHANGED <<state, halfOpenRequestID>>

\* Mutant: the half-open breaker does not note which request it let through.
AllowProbeUnnoted(r, b) ==
    /\ state' = [state EXCEPT ![b] = "half-open"]
    /\ Answer(r, TRUE)
    /\ UNCHANGED halfOpenRequestID

AllowProbe(r, b) ==
    /\ state' = [state EXCEPT ![b] = "half-open"]
    /\ halfOpenRequestID' = [halfOpenRequestID EXCEPT ![b] = r]
    /\ Answer(r, TRUE)

\* Mutant: an open breaker does not look at the time.
AllowOpenNever(r) ==
    /\ state[holds[r]] = "open"
    /\ Answer(r, FALSE)
    /\ UNCHANGED <<state, halfOpenRequestID>>

AllowOpen(r) ==
    /\ state[holds[r]] = "open"
    /\ \/ rested[holds[r]] /\ AllowProbe(r, holds[r])
       \/ ~rested[holds[r]] /\ Answer(r, FALSE) /\ UNCHANGED <<state, halfOpenRequestID>>

AllowHalfOpen(r) ==
    /\ state[holds[r]] = "half-open"
    /\ \/ halfOpenRequestID[holds[r]] \in {NoRequest, r} /\ AllowProbe(r, holds[r])
       \/ /\ halfOpenRequestID[holds[r]] \notin {NoRequest, r}
          /\ Answer(r, FALSE)
          /\ UNCHANGED <<state, halfOpenRequestID>>

AllowRequest(r) ==
    /\ step[r] = "asking"
    /\ AllowClosed(r) \/ AllowOpen(r) \/ AllowHalfOpen(r)

--------------------------------------------------------------------------------
(* The request comes back and reports, or never does.                      *)

Respond(r, how) ==
    /\ step[r] = "flying"
    /\ step' = [step EXCEPT ![r] = "reporting"]
    /\ outcome' = [outcome EXCEPT ![r] = how]
    /\ GetOrCreate(r)
    /\ UNCHANGED allowance

\* The caller dies or gives the answer up.
Lose(r) ==
    /\ step[r] = "flying"
    /\ allowance.loss > 0
    /\ allowance' = [allowance EXCEPT !.loss = @ - 1]
    /\ step' = [step EXCEPT ![r] = "idle"]
    /\ UNCHANGED <<current, breaker, holds, outcome>>

\* The caller tries the same request again.
Retry(r) ==
    /\ r \in Asking
    /\ step[r] = "flying"
    /\ allowance.retry > 0
    /\ allowance' = [allowance EXCEPT !.retry = @ - 1]
    /\ step' = [step EXCEPT ![r] = "asking"]
    /\ GetOrCreate(r)
    /\ UNCHANGED outcome

Reported(r) ==
    /\ step' = [step EXCEPT ![r] = "idle"]
    /\ holds' = [holds EXCEPT ![r] = NoBreaker]
    /\ outcome' = [outcome EXCEPT ![r] = "none"]
    /\ UNCHANGED <<current, allowance>>

\* Mutant: the counter is not capped.
CountedOn(n) == n + 1

\* failureCount after one more, which the cap keeps at MaxFailures.
Counted(n) == IF n + 1 > MaxFailures THEN MaxFailures ELSE n + 1

\* Mutants: off by one, and a comparison with the wrong field of Config.
TrippedLate(n) == n > FailureThreshold
TrippedAtMax(n) == n > MaxFailures

Tripped(n) == n >= FailureThreshold

RecordFailure(r) ==
    LET b == holds[r]
        n == Counted(failureCount[b])
        opens == state[b] = "closed" /\ Tripped(n)
        reopens == state[b] = "half-open"
    IN  /\ step[r] = "reporting" /\ outcome[r] = "failure"
        /\ failureCount' = [failureCount EXCEPT ![b] = n]
        /\ rested' = [rested EXCEPT ![b] = FALSE]
        /\ state' = [state EXCEPT ![b] = IF opens \/ reopens THEN "open" ELSE @]
        /\ halfOpenRequestID' = [halfOpenRequestID EXCEPT ![b] = IF reopens THEN NoRequest ELSE @]
        /\ Reported(r)

RecordSuccess(r) ==
    LET b == holds[r]
    IN  /\ step[r] = "reporting" /\ outcome[r] = "success"
        /\ \/ /\ state[b] = "half-open"
              /\ state' = [state EXCEPT ![b] = "closed"]
              /\ failureCount' = [failureCount EXCEPT ![b] = 0]
              /\ halfOpenRequestID' = [halfOpenRequestID EXCEPT ![b] = NoRequest]
           \/ /\ state[b] = "closed"
              /\ failureCount' = [failureCount EXCEPT ![b] = 0]
              /\ UNCHANGED <<state, halfOpenRequestID>>
           \/ state[b] = "open" /\ UNCHANGED <<state, failureCount, halfOpenRequestID>>
        /\ UNCHANGED rested
        /\ Reported(r)

--------------------------------------------------------------------------------
(* The Queen deletes the drone: Manager.Remove.                            *)
Remove ==
    /\ current # NoBreaker
    /\ allowance.remove > 0
    /\ allowance' = [allowance EXCEPT !.remove = @ - 1]
    /\ current' = NoBreaker
    /\ UNCHANGED <<breaker, request>>

ResetTimeoutPasses(b) ==
    /\ state[b] = "open" /\ ~rested[b]
    /\ rested' = [rested EXCEPT ![b] = TRUE]
    /\ UNCHANGED <<current, state, failureCount, halfOpenRequestID, request, allowance>>

Work(r) ==
    \/ Ask(r)
    \/ Barge(r)
    \/ AllowRequest(r)
    \/ Respond(r, "success")
    \/ Respond(r, "failure")
    \/ RecordFailure(r)
    \/ RecordSuccess(r)

BreakerNext ==
    \/ \E r \in Requests : Work(r) \/ Lose(r) \/ Retry(r)
    \/ \E b \in Breakers : ResetTimeoutPasses(b)
    \/ Remove

BreakerSpec == BreakerInit /\ [][BreakerNext]_breakerVars

\* Callers keep calling, requests come back, and time passes.
FairBreakerSpec ==
    /\ BreakerSpec
    /\ \A r \in Requests : WF_breakerVars(Work(r))
    /\ \A b \in Breakers : WF_breakerVars(ResetTimeoutPasses(b))

--------------------------------------------------------------------------------
BreakerTypeOK ==
    /\ current \in Breakers \cup {NoBreaker}
    /\ state \in [Breakers -> States]
    /\ failureCount \in [Breakers -> 0 .. MaxFailures]
    /\ halfOpenRequestID \in [Breakers -> Requests \cup {NoRequest}]
    /\ rested \in [Breakers -> BOOLEAN]
    /\ step \in [Requests -> RequestSteps]
    /\ holds \in [Requests -> Breakers \cup {NoBreaker}]
    /\ outcome \in [Requests -> {"none", "success", "failure"}]
    /\ allowance \in [remove : 0 .. ForgetBound, loss : 0 .. LossBound, retry : 0 .. RetryBound]
    /\ \A r \in Requests : step[r] \in {"asking", "reporting"} => holds[r] # NoBreaker

(***************************************************************************)
(* The counter and the state agree: a closed breaker has counted fewer     *)
(* failures than the threshold, any other at least as many, whatever late  *)
(* results of earlier requests arrive in whatever state.                   *)
(***************************************************************************)
CountMatchesState ==
    \A b \in Breakers : state[b] = "closed" <=> failureCount[b] < FailureThreshold

(***************************************************************************)
(* A half-open breaker always knows its one request, so that the branch    *)
(* of AllowRequest for a half-open breaker without one is never taken, and *)
(* no breaker in another state remembers one.                              *)
(***************************************************************************)
ProbeTracked ==
    \A b \in Breakers : state[b] = "half-open" <=> halfOpenRequestID[b] # NoRequest

Serving == current # NoBreaker

(***************************************************************************)
(* When every request reports and from some point on none fails, the       *)
(* breaker closes for good, from whatever state the failures, the late     *)
(* results and a removal have left it in, as long as somebody asks.        *)
(***************************************************************************)
NoFailures == <>[][\A r \in Requests : ~RecordFailure(r)]_breakerVars
Closes == <>[](Serving => state[current] = "closed")

Recovers == [](allowance.loss = LossBound) /\ NoFailures => Closes

(***************************************************************************)
(* Config.FailureThreshold: "Number of failures before opening circuit".   *)
(* When all that is recorded are failures, the breaker opens time and      *)
(* again.                                                                  *)
(***************************************************************************)
OpensUnderFailure ==
    <>[][\A r \in Requests : ~RecordSuccess(r) /\ ~Lose(r)]_breakerVars
    => []<>(Serving => state[current] # "closed")

================================================================================
