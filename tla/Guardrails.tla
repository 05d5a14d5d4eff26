------------------------------- MODULE Guardrails -------------------------------
(***************************************************************************)
(* The guardrails of an agent (internal/guardrails) as functions of their  *)
(* state: the token bucket of the rate limiter and the budgets of the      *)
(* token tracker.  Each call runs under the mutex of its object, so a call *)
(* is one application.                                                     *)
(***************************************************************************)
EXTENDS Integers

CONSTANTS
    RequestsPerMinute,                    \* RateLimitPerMinute
    TicksPerSecond,                       \* how fine the clock of the model is
    PerRequest, PerSession, PerMinute     \* token budgets, 0 for no limit

ASSUME RateAssumption == RequestsPerMinute \in Nat \ {0} /\ TicksPerSecond \in Nat \ {0}
ASSUME BudgetAssumption == {PerRequest, PerSession, PerMinute} \subseteq Nat

Least(a, b) == IF a < b THEN a ELSE b

--------------------------------------------------------------------------------
(* The rate limiter: tokens in the bucket, ticks since lastRefill.         *)

BurstSize == RequestsPerMinute

TokensPerRefill == IF RequestsPerMinute \div 60 < 1 THEN 1 ELSE RequestsPerMinute \div 60

NewRateLimiter == [tokens |-> BurstSize, since |-> 0]

\* Mutant: lastRefill stays where it was, so the same seconds count again.
RefilledTwice(l) ==
    [l EXCEPT !.tokens = Least(BurstSize, @ + (l.since \div TicksPerSecond) * TokensPerRefill)]

\* lastRefill = now: what is left of the last second is forgotten.
Refilled(l) ==
    IF l.since < TicksPerSecond
    THEN l
    ELSE [tokens |-> Least(BurstSize, l.tokens + (l.since \div TicksPerSecond) * TokensPerRefill),
          since |-> 0]

Allows(l) == Refilled(l).tokens > 0

Allow(l) == [Refilled(l) EXCEPT !.tokens = IF @ > 0 THEN @ - 1 ELSE @]

--------------------------------------------------------------------------------
(* The token tracker: what the session and the minute have used, and       *)
(* whether a minute has begun that the tracker has not seen yet.           *)

NewTokenBudgetTracker == [session |-> 0, minute |-> 0, turned |-> FALSE]

ThisMinute(b) == [b EXCEPT !.minute = IF b.turned THEN 0 ELSE @, !.turned = FALSE]

ChargeMinute(b, tokens) == [b EXCEPT !.minute = IF PerMinute > 0 THEN @ + tokens ELSE @]

ChargeSession(b, tokens) == [b EXCEPT !.session = IF PerSession > 0 THEN @ + tokens ELSE @]

Exceeds(limit, used) == limit > 0 /\ used > limit

\* The error, or "none", and the tracker afterwards.  The minute is charged
\* before the session is looked at.
RecordUsage(b, tokens) ==
    LET now == ThisMinute(b)
        charged == ChargeMinute(now, tokens)
    IN  IF Exceeds(PerRequest, tokens) THEN [error |-> "per-request", tracker |-> b]
        ELSE IF Exceeds(PerMinute, now.minute + tokens) THEN [error |-> "per-minute", tracker |-> now]
        ELSE IF Exceeds(PerSession, b.session + tokens) THEN [error |-> "per-session", tracker |-> charged]
        ELSE [error |-> "none", tracker |-> ChargeSession(charged, tokens)]

================================================================================
