----------------------------- MODULE KeeperProofs ------------------------------
(***************************************************************************)
(* The Keeper.  Of KeeperRelay: the rate of the limiter, the order of the  *)
(* messages and the tracking of the requests, for any number of messages,  *)
(* any size of the queues, any limits and any bounds on time and failures. *)
(* Of KeeperCache: the order of insertion and the staleness of the cache,  *)
(* for any number of concurrent requests, keys and values and any size.    *)
(***************************************************************************)
EXTENDS KeeperRelay, KeeperCache, SequenceTheorems, FiniteSetTheorems, TLAPS

--------------------------------------------------------------------------------
(* The rate.  `since' forgets what is left of a second whenever it is      *)
(* reset, so there are n whole seconds that the refills came from, and     *)
(* they do not overlap with `since'.                                       *)

Buckets == [tokens : 0 .. BurstSize, since : Nat]

Earned(l, passed, total) ==
    \E n \in Nat : /\ n * TicksPerSecond + l.since <= passed
                   /\ total + l.tokens <= BurstSize + TokensPerRefill * n

RateIInv ==
    /\ clock \in Nat /\ admitted \in Nat
    /\ limiter \in Buckets
    /\ Earned(limiter, clock, admitted)

LEMMA RefillType == TokensPerRefill \in Nat \ {0} /\ BurstSize \in Nat \ {0}
BY RateAssumption DEF TokensPerRefill, BurstSize

LEMMA WholeSeconds ==
    ASSUME NEW t \in Nat
    PROVE  /\ t \div TicksPerSecond \in Nat
           /\ (t \div TicksPerSecond) * TicksPerSecond <= t
           /\ \A n \in Nat : n * TicksPerSecond <= t => n <= t \div TicksPerSecond
BY RateAssumption

LEMMA RefilledKeeps ==
    ASSUME NEW l \in Buckets, NEW passed \in Nat, NEW total \in Nat, Earned(l, passed, total)
    PROVE  Refilled(l) \in Buckets /\ Earned(Refilled(l), passed, total)
<1>1. CASE l.since < TicksPerSecond
    BY <1>1 DEF Refilled
<1>2. CASE ~(l.since < TicksPerSecond)
    <2> DEFINE seconds == l.since \div TicksPerSecond
               refill == seconds * TokensPerRefill
    <2>1. l.since \in Nat /\ l.tokens \in 0 .. BurstSize
        BY DEF Buckets
    <2>2. seconds \in Nat /\ seconds * TicksPerSecond <= l.since
        BY <2>1, WholeSeconds
    <2>3. refill \in Nat /\ refill = TokensPerRefill * seconds
        BY <2>2, RefillType
    <2>4. Refilled(l) = [tokens |-> Least(BurstSize, l.tokens + refill), since |-> 0]
        BY <1>2 DEF Refilled
    <2>5. PICK n \in Nat : /\ n * TicksPerSecond + l.since <= passed
                           /\ total + l.tokens <= BurstSize + TokensPerRefill * n
        BY DEF Earned
    <2>6. (n + seconds) * TicksPerSecond <= passed
        <3>1. (n + seconds) * TicksPerSecond = n * TicksPerSecond + seconds * TicksPerSecond
            BY <2>2, RateAssumption
        <3>2. n * TicksPerSecond \in Nat /\ seconds * TicksPerSecond \in Nat
            BY <2>2, RateAssumption
        <3> HIDE DEF seconds
        <3> QED
            BY <2>1, <2>2, <2>5, <3>1, <3>2
    <2>7. TokensPerRefill * (n + seconds) = TokensPerRefill * n + refill
        BY <2>2, <2>3, RefillType
    <2> HIDE DEF seconds, refill
    <2>8. /\ Least(BurstSize, l.tokens + refill) \in 0 .. BurstSize
          /\ Least(BurstSize, l.tokens + refill) <= l.tokens + refill
        BY <2>1, <2>3, RefillType DEF Least
    <2>9. total + Least(BurstSize, l.tokens + refill) <= BurstSize + TokensPerRefill * (n + seconds)
        <3>1. TokensPerRefill * n \in Nat
            BY RefillType
        <3> QED
            BY <2>1, <2>3, <2>5, <2>7, <2>8, <3>1, RefillType
    <2>10. /\ Refilled(l).since = 0
           /\ Refilled(l).tokens = Least(BurstSize, l.tokens + refill)
        BY <2>4
    <2>11. n + seconds \in Nat /\ (n + seconds) * TicksPerSecond \in Nat
        BY <2>2, RateAssumption
    <2>12. (n + seconds) * TicksPerSecond + 0 <= passed
        BY <2>6, <2>11
    <2>13. Earned(Refilled(l), passed, total)
        BY <2>9, <2>10, <2>11, <2>12 DEF Earned
    <2> QED
        BY <2>4, <2>8, <2>13 DEF Buckets
<1> QED
    BY <1>1, <1>2

\* A yes costs a token, a no costs nothing.
LEMMA AllowKeeps ==
    ASSUME NEW l \in Buckets, NEW passed \in Nat, NEW total \in Nat, Earned(l, passed, total)
    PROVE  /\ Allow(l) \in Buckets
           /\ Allows(l) => Earned(Allow(l), passed, total + 1)
           /\ ~Allows(l) => Earned(Allow(l), passed, total)
<1> DEFINE r == Refilled(l)
<1>1. r \in Buckets /\ Earned(r, passed, total)
    BY RefilledKeeps
<1>2. Allows(l) <=> r.tokens > 0
    BY DEF Allows
<1>3. Allow(l) = [r EXCEPT !.tokens = IF @ > 0 THEN @ - 1 ELSE @]
    BY DEF Allow
<1> HIDE DEF r
<1>4. /\ r.tokens \in 0 .. BurstSize /\ r.since \in Nat
      /\ Allow(l) = [tokens |-> IF r.tokens > 0 THEN r.tokens - 1 ELSE r.tokens, since |-> r.since]
    BY <1>1, <1>3 DEF Buckets
<1>5. /\ Allow(l).tokens = IF r.tokens > 0 THEN r.tokens - 1 ELSE r.tokens
      /\ Allow(l).since = r.since
    BY <1>4
<1>6. Allow(l) \in Buckets
    BY <1>4, RefillType DEF Buckets
<1>7. ASSUME Allows(l) PROVE Earned(Allow(l), passed, total + 1)
    <2>1. total + 1 + Allow(l).tokens = total + r.tokens
        BY <1>2, <1>4, <1>5, <1>7, RefillType
    <2> QED
        BY <1>1, <1>5, <2>1 DEF Earned
<1>8. ASSUME ~Allows(l) PROVE Earned(Allow(l), passed, total)
    BY <1>1, <1>2, <1>4, <1>5, <1>8 DEF Earned
<1> QED
    BY <1>6, <1>7, <1>8

LEMMA RateInit == Init => RateIInv
<1> SUFFICES ASSUME Init PROVE RateIInv
    OBVIOUS
<1>1. /\ clock = 0 /\ admitted = 0
      /\ limiter = [tokens |-> BurstSize, since |-> 0]
    BY DEF Init, NewKeeper, NewRateLimiter
<1>2. limiter \in Buckets
    BY <1>1, RefillType DEF Buckets
<1>3. 0 * TicksPerSecond + 0 <= 0 /\ 0 + BurstSize <= BurstSize + TokensPerRefill * 0
    BY RefillType, RateAssumption
<1>4. Earned(limiter, clock, admitted)
    BY <1>1, <1>3 DEF Earned
<1> QED
    BY <1>1, <1>2, <1>4 DEF RateIInv

LEMMA RateStep == RateIInv /\ [Next]_vars => RateIInv'
<1> SUFFICES ASSUME RateIInv, [Next]_vars PROVE RateIInv'
    OBVIOUS
<1>1. CASE HandleInboundMessage
    <2>1. /\ limiter' = Allow(limiter) /\ clock' = clock
          /\ \/ Allows(limiter) /\ admitted' = admitted + 1
             \/ ~Allows(limiter) /\ admitted' = admitted
        BY <1>1 DEF HandleInboundMessage, Admit, time
    <2> QED
        BY <2>1, AllowKeeps DEF RateIInv
<1>2. ASSUME NEW minute \in BOOLEAN, Tick(minute) PROVE RateIInv'
    <2>1. /\ limiter' = [limiter EXCEPT !.since = @ + 1]
          /\ clock' = clock + 1 /\ admitted' = admitted
        BY <1>2 DEF Tick, history
    <2>2. /\ limiter.tokens \in 0 .. BurstSize /\ limiter.since \in Nat
          /\ limiter' = [tokens |-> limiter.tokens, since |-> limiter.since + 1]
        BY <2>1 DEF RateIInv, Buckets
    <2>3. PICK n \in Nat : /\ n * TicksPerSecond + limiter.since <= clock
                           /\ admitted + limiter.tokens <= BurstSize + TokensPerRefill * n
        BY DEF RateIInv, Earned
    <2>4. n * TicksPerSecond \in Nat
        BY RateAssumption
    <2>5. n * TicksPerSecond + (limiter.since + 1) <= clock + 1
        BY <2>2, <2>3, <2>4 DEF RateIInv
    <2>6. Earned(limiter', clock', admitted')
        BY <2>1, <2>2, <2>3, <2>5 DEF Earned
    <2> QED
        BY <2>1, <2>2, <2>6 DEF RateIInv, Buckets
<1>3. ASSUME UNCHANGED <<limiter, clock, admitted>> PROVE RateIInv'
    BY <1>3 DEF RateIInv, Earned
<1>4. \/ HandleInboundMessage
      \/ \E minute \in BOOLEAN : Tick(minute)
      \/ UNCHANGED <<limiter, clock, admitted>>
    <2> USE DEF guards, time, history, Fail
    <2>1. CASE Deliver
        BY <2>1 DEF Deliver, Dequeue, SendMessage, SendFails, StartRequest, EndDelivery, Done
    <2>2. CASE PublishLoop
        BY <2>2 DEF PublishLoop, TakeOutbound, RejectOutput, Charge, Publish, PublishFails,
                    EndPublishing
    <2>3. CASE UNCHANGED vars
        BY <2>3 DEF vars
    <2> QED
        BY <2>1, <2>2, <2>3 DEF Next, Arrive, PublishAgentMessage, Post, Cancel, Stop, AgentExits
<1> QED
    BY <1>1, <1>2, <1>3, <1>4

(***************************************************************************)
(* The limiter lets no more through than a full bucket and one refill for  *)
(* every second that passed, for any rate and any clock.                   *)
(***************************************************************************)
THEOREM RateHolds == Spec => []AdmittedWithinRate
<1>1. RateIInv => AdmittedWithinRate
    <2> SUFFICES ASSUME RateIInv PROVE AdmittedWithinRate
        OBVIOUS
    <2> DEFINE seconds == clock \div TicksPerSecond
    <2>1. PICK n \in Nat : /\ n * TicksPerSecond + limiter.since <= clock
                           /\ admitted + limiter.tokens <= BurstSize + TokensPerRefill * n
        BY DEF RateIInv, Earned
    <2>2. /\ limiter.since \in Nat /\ limiter.tokens \in Nat
          /\ clock \in Nat /\ admitted \in Nat
        BY RefillType DEF RateIInv, Buckets
    <2>3. n * TicksPerSecond \in Nat
        BY RateAssumption
    <2>4. n * TicksPerSecond <= clock
        BY <2>1, <2>2, <2>3
    <2>5. n <= seconds /\ seconds \in Nat
        BY <2>2, <2>4, WholeSeconds
    <2> HIDE DEF seconds
    <2>6. TokensPerRefill * n <= TokensPerRefill * seconds
        BY <2>5, RefillType
    <2>7. TokensPerRefill * n \in Nat /\ TokensPerRefill * seconds \in Nat
        BY <2>5, RefillType
    <2>8. admitted <= BurstSize + TokensPerRefill * seconds
        BY <2>1, <2>2, <2>6, <2>7, RefillType
    <2> QED
        BY <2>8 DEF AdmittedWithinRate, seconds
<1> QED
    BY <1>1, RateInit, RateStep, PTL DEF Spec

--------------------------------------------------------------------------------
(* Sequences.                                                              *)

Ends == [msg : Requests, fate : {"delivered", "dropped"}]
Messages(h) == [i \in DOMAIN h |-> h[i].msg]

LEMMA MessagesType ==
    ASSUME NEW h \in Seq(Ends)
    PROVE  /\ Messages(h) \in Seq(Requests) /\ Len(Messages(h)) = Len(h)
           /\ \A i \in 1 .. Len(h) : Messages(h)[i] = h[i].msg
<1>1. DOMAIN h = 1 .. Len(h) /\ Len(h) \in Nat /\ \A i \in 1 .. Len(h) : h[i] \in Ends
    BY LenProperties, ElementOfSeq
<1>2. \A i \in 1 .. Len(h) : h[i].msg \in Requests
    BY <1>1 DEF Ends
<1>3. Messages(h) \in [1 .. Len(h) -> Requests]
    BY <1>1, <1>2 DEF Messages
<1> QED
    BY <1>1, <1>3 DEF Messages

LEMMA MessagesAppend ==
    ASSUME NEW h \in Seq(Ends), NEW e \in Ends
    PROVE  Messages(Append(h, e)) = Messages(h) \o <<e.msg>>
<1> DEFINE longer == Append(h, e)
<1>1. /\ longer \in Seq(Ends) /\ Len(longer) = Len(h) + 1 /\ Len(h) \in Nat
      /\ \A i \in 1 .. Len(h) : longer[i] = h[i]
      /\ longer[Len(h) + 1] = e
    BY AppendProperties, LenProperties
<1>2. e.msg \in Requests
    BY DEF Ends
<1> HIDE DEF longer
<1>3. /\ Messages(longer) \in Seq(Requests) /\ Len(Messages(longer)) = Len(h) + 1
      /\ \A i \in 1 .. Len(h) + 1 : Messages(longer)[i] = longer[i].msg
    BY <1>1, MessagesType
<1>4. /\ Messages(h) \in Seq(Requests) /\ Len(Messages(h)) = Len(h)
      /\ \A i \in 1 .. Len(h) : Messages(h)[i] = h[i].msg
    BY MessagesType
<1>5. /\ Append(Messages(h), e.msg) \in Seq(Requests)
      /\ Len(Append(Messages(h), e.msg)) = Len(h) + 1
      /\ \A i \in 1 .. Len(h) : Append(Messages(h), e.msg)[i] = h[i].msg
      /\ Append(Messages(h), e.msg)[Len(h) + 1] = e.msg
    BY <1>2, <1>4, AppendProperties
<1>6. Messages(longer) = Append(Messages(h), e.msg)
    <2>1. \A i \in 1 .. Len(h) + 1 : Messages(longer)[i] = Append(Messages(h), e.msg)[i]
        BY <1>1, <1>3, <1>5
    <2> QED
        BY <1>3, <1>5, <2>1, SeqEqual
<1>7. Append(Messages(h), e.msg) = Messages(h) \o <<e.msg>>
    BY <1>2, <1>4, AppendIsConcat
<1> QED
    BY <1>6, <1>7 DEF longer

LEMMA AppendRange ==
    ASSUME NEW S, NEW s \in Seq(S), NEW e \in S
    PROVE  /\ Range(Append(s, e)) = Range(s) \cup {e}
           /\ IsInjective(s) /\ e \notin Range(s) => IsInjective(Append(s, e))
<1> DEFINE t == Append(s, e)
<1>1. /\ DOMAIN s = 1 .. Len(s) /\ Len(s) \in Nat
      /\ DOMAIN t = 1 .. Len(s) + 1
      /\ \A i \in 1 .. Len(s) : t[i] = s[i]
      /\ t[Len(s) + 1] = e
    BY AppendProperties, LenProperties
<1> HIDE DEF t
<1>2. Range(t) \subseteq Range(s) \cup {e}
    BY <1>1 DEF Range
<1>3. Range(s) \subseteq Range(t)
    BY <1>1 DEF Range
<1>4. e \in Range(t)
    <2>1. Len(s) + 1 \in DOMAIN t
        BY <1>1
    <2> QED
        BY <1>1, <2>1 DEF Range
<1>5. IsInjective(s) /\ e \notin Range(s) => IsInjective(t)
    BY <1>1 DEF IsInjective, Range
<1> QED
    BY <1>2, <1>3, <1>4, <1>5 DEF t

LEMMA HeadTail ==
    ASSUME NEW S, NEW s \in Seq(S), s # <<>>
    PROVE  /\ Head(s) \in S /\ Tail(s) \in Seq(S)
           /\ s = <<Head(s)>> \o Tail(s)
           /\ Range(s) = Range(Tail(s)) \cup {Head(s)}
           /\ IsInjective(s) => IsInjective(Tail(s)) /\ Head(s) \notin Range(Tail(s))
<1> DEFINE t == Tail(s)
<1>1. /\ DOMAIN s = 1 .. Len(s) /\ Len(s) \in Nat \ {0}
      /\ Head(s) = s[1] /\ Head(s) \in S
      /\ t \in Seq(S) /\ Len(t) = Len(s) - 1 /\ DOMAIN t = 1 .. Len(s) - 1
      /\ \A i \in 1 .. Len(s) - 1 : t[i] = s[i + 1]
    BY LenProperties, EmptySeq, HeadTailProperties
<1> HIDE DEF t
<1>2. /\ <<Head(s)>> \in Seq(S) /\ Len(<<Head(s)>>) = 1 /\ <<Head(s)>>[1] = Head(s)
    BY <1>1
<1>3. s = <<Head(s)>> \o t
    <2> DEFINE u == <<Head(s)>> \o t
           one == <<Head(s)>>
    <2>1. one \in Seq(S) /\ Len(one) = 1 /\ one[1] = Head(s)
        BY <1>2
    <2> HIDE DEF one
    <2>2. /\ one \o t \in Seq(S) /\ Len(one \o t) = Len(one) + Len(t)
          /\ \A i \in 1 .. Len(one) + Len(t) :
                (one \o t)[i] = IF i <= Len(one) THEN one[i] ELSE t[i - Len(one)]
        BY <1>1, <2>1, ConcatProperties
    <2>3. u = one \o t
        BY DEF one
    <2> HIDE DEF u
    <2>4. u \in Seq(S) /\ Len(u) = Len(s)
        <3>1. u \in Seq(S) /\ Len(u) = Len(one) + Len(t)
            BY <2>2, <2>3, Zenon
        <3> QED
            BY <1>1, <2>1, <3>1
    <2>5. \A i \in 1 .. Len(s) : u[i] = s[i]
        <3> SUFFICES ASSUME NEW i \in 1 .. Len(s) PROVE u[i] = s[i]
            OBVIOUS
        <3>1. i \in 1 .. Len(one) + Len(t)
            BY <1>1, <2>1
        <3>2. u[i] = IF i <= Len(one) THEN one[i] ELSE t[i - Len(one)]
            BY <2>2, <2>3, <3>1
        <3>3. CASE i = 1
            BY <1>1, <2>1, <3>2, <3>3
        <3>4. CASE i > 1
            <4>1. i - 1 \in 1 .. Len(s) - 1 /\ t[i - 1] = s[i]
                BY <1>1, <3>4
            <4> QED
                BY <2>1, <3>2, <3>4, <4>1
        <3> QED
            BY <3>3, <3>4
    <2>6. u = s
        BY <2>4, <2>5, SeqEqual
    <2> QED
        BY <2>6 DEF u
<1>4. Head(s) \in Range(s)
    BY <1>1 DEF Range
<1>5. Range(t) \subseteq Range(s)
    BY <1>1 DEF Range
<1>6. Range(s) \subseteq Range(t) \cup {Head(s)}
    <2> SUFFICES ASSUME NEW i \in 1 .. Len(s), i # 1 PROVE s[i] \in Range(t)
        BY <1>1 DEF Range
    <2>1. i - 1 \in 1 .. Len(s) - 1 /\ t[i - 1] = s[i]
        BY <1>1
    <2> QED
        BY <1>1, <2>1 DEF Range
<1>7. ASSUME IsInjective(s) PROVE IsInjective(t) /\ Head(s) \notin Range(t)
    <2>1. \A i, j \in 1 .. Len(s) : s[i] = s[j] => i = j
        BY <1>1, <1>7 DEF IsInjective
    <2>2. IsInjective(t)
        <3> SUFFICES ASSUME NEW i \in 1 .. Len(s) - 1, NEW j \in 1 .. Len(s) - 1, t[i] = t[j]
                     PROVE  i = j
            BY <1>1 DEF IsInjective
        <3>1. s[i + 1] = s[j + 1] /\ i + 1 \in 1 .. Len(s) /\ j + 1 \in 1 .. Len(s)
            BY <1>1
        <3> QED
            BY <2>1, <3>1
    <2>3. \A i \in 1 .. Len(s) - 1 : t[i] # s[1]
        <3> SUFFICES ASSUME NEW i \in 1 .. Len(s) - 1, s[i + 1] = s[1] PROVE FALSE
            BY <1>1
        <3>1. i + 1 \in 1 .. Len(s) /\ 1 \in 1 .. Len(s) /\ i + 1 # 1
            BY <1>1
        <3> QED
            BY <2>1, <3>1
    <2> QED
        BY <1>1, <2>2, <2>3 DEF Range
<1> QED
    BY <1>1, <1>3, <1>4, <1>5, <1>6, <1>7 DEF t

\* What stands between two parts of an injective sequence is in neither.
LEMMA Between ==
    ASSUME NEW S, NEW s \in Seq(S), NEW e \in S, NEW t \in Seq(S),
           IsInjective((s \o <<e>>) \o t)
    PROVE  e \notin Range(s)
<1> DEFINE u == s \o <<e>>
           w == u \o t
<1>1. DOMAIN s = 1 .. Len(s) /\ Len(s) \in Nat /\ Len(t) \in Nat
    BY LenProperties
<1>2. <<e>> \in Seq(S) /\ Len(<<e>>) = 1 /\ <<e>>[1] = e
    OBVIOUS
<1>3. /\ u \in Seq(S) /\ Len(u) = Len(s) + 1
      /\ \A i \in 1 .. Len(s) + 1 : u[i] = IF i <= Len(s) THEN s[i] ELSE <<e>>[i - Len(s)]
    BY <1>2, ConcatProperties
<1>4. (\A i \in 1 .. Len(s) : u[i] = s[i]) /\ u[Len(s) + 1] = e
    BY <1>1, <1>2, <1>3
<1> HIDE DEF u
<1>5. /\ w \in Seq(S) /\ Len(w) = Len(u) + Len(t)
      /\ \A i \in 1 .. Len(u) + Len(t) : w[i] = IF i <= Len(u) THEN u[i] ELSE t[i - Len(u)]
    <2>1. u \in Seq(S)
        BY <1>3
    <2> QED
        BY <2>1, ConcatProperties
<1>6. \A i \in 1 .. Len(s) + 1 : i \in 1 .. Len(w) /\ w[i] = u[i]
    <2> SUFFICES ASSUME NEW i \in 1 .. Len(s) + 1 PROVE i \in 1 .. Len(w) /\ w[i] = u[i]
        OBVIOUS
    <2>1. i \in 1 .. Len(u) + Len(t) /\ i <= Len(u)
        BY <1>1, <1>3
    <2> QED
        BY <1>5, <2>1
<1>7. DOMAIN w = 1 .. Len(w) /\ IsInjective(w)
    <2>1. IsInjective(w)
        BY DEF u
    <2> QED
        BY <1>5, <2>1, LenProperties
<1> HIDE DEF w
<1>8. \A i, j \in 1 .. Len(w) : w[i] = w[j] => i = j
    BY <1>7 DEF IsInjective
<1>9. \A i \in 1 .. Len(s) : s[i] # e
    <2> SUFFICES ASSUME NEW i \in 1 .. Len(s), s[i] = e PROVE FALSE
        OBVIOUS
    <2>1. w[i] = w[Len(s) + 1] /\ i \in 1 .. Len(w) /\ Len(s) + 1 \in 1 .. Len(w)
        BY <1>1, <1>4, <1>6
    <2> QED
        BY <1>1, <1>8, <2>1
<1> QED
    BY <1>1, <1>9 DEF Range

--------------------------------------------------------------------------------
(* The order of the messages, and that each passes once.                   *)

Fates == {"delivered", "dropped"}
Steps == {"idle", "holding", "sent", "ended"}

MessageTypes ==
    /\ wire \in Seq(Requests) /\ accepted \in Seq(Requests) /\ inbound \in Seq(Requests)
    /\ handled \in Seq(Ends)
    /\ deliverer \in [step : Steps, msg : Requests \cup {NoMessage}, attempts : Nat]
    /\ deliverer.step = "idle" => deliverer.msg = NoMessage
    /\ deliverer.step \in {"holding", "sent"} => deliverer.msg \in Requests

Once ==
    /\ IsInjective(wire) /\ IsInjective(accepted)
    /\ Range(wire) \cap Range(accepted) = {}

OrderIInv == MessageTypes /\ Once /\ AcceptedInOrder

LEMMA OrderInit == Init => OrderIInv
<1> SUFFICES ASSUME Init PROVE OrderIInv
    OBVIOUS
<1>1. /\ wire = <<>> /\ accepted = <<>> /\ inbound = <<>> /\ handled = <<>>
      /\ deliverer = [step |-> "idle", msg |-> NoMessage, attempts |-> 0]
    BY DEF Init, Idle
<1>2. MessageTypes
    BY <1>1, EmptySeq DEF MessageTypes, Steps
<1>3. Once
    BY <1>1 DEF Once, IsInjective, Range
<1>4. Messages(<<>>) = <<>>
    BY DEF Messages
<1>5. InHand = <<>>
    BY <1>1 DEF InHand
<1>6. AcceptedInOrder
    BY <1>1, <1>4, <1>5, EmptySeq, ConcatEmptySeq DEF AcceptedInOrder, Messages
<1> QED
    BY <1>2, <1>3, <1>6 DEF OrderIInv

\* AcceptedInOrder for what the prover sees of it.
LEMMA InOrder == AcceptedInOrder <=> accepted = (Messages(handled) \o InHand) \o inbound
BY DEF AcceptedInOrder, Messages

LEMMA InHandType ==
    ASSUME MessageTypes
    PROVE  /\ InHand \in Seq(Requests)
           /\ Messages(handled) \in Seq(Requests)
           /\ deliverer.step = "holding" => InHand = <<deliverer.msg>>
           /\ deliverer.step \in {"idle", "sent"} => InHand = <<>>
<1>1. Messages(handled) \in Seq(Requests)
    BY MessagesType DEF MessageTypes
<1>2. InHand = <<>> \/ (deliverer.msg \in Requests /\ InHand = <<deliverer.msg>>)
    BY DEF MessageTypes, InHand
<1>3. InHand \in Seq(Requests)
    <2>1. CASE InHand = <<>>
        BY <2>1
    <2>2. CASE deliverer.msg \in Requests /\ InHand = <<deliverer.msg>>
        BY <2>2
    <2> QED
        BY <1>2, <2>1, <2>2
<1>4. deliverer.step = "holding" => InHand = <<deliverer.msg>>
    BY RequestsAssumption DEF MessageTypes, InHand
<1>5. deliverer.step \in {"idle", "sent"} => InHand = <<>>
    BY DEF MessageTypes, InHand
<1> QED
    BY <1>1, <1>3, <1>4, <1>5

LEMMA ArriveOrder ==
    ASSUME OrderIInv, NEW r \in Requests, Arrive(r)
    PROVE  OrderIInv'
<1>1. /\ wire' = Append(wire, r) /\ r \notin Range(wire) /\ r \notin Range(accepted)
      /\ UNCHANGED <<inbound, deliverer, accepted, handled>>
    BY DEF Arrive, history
<1>2. wire \in Seq(Requests)
    BY DEF OrderIInv, MessageTypes
<1>3. /\ wire' \in Seq(Requests)
      /\ Range(wire') = Range(wire) \cup {r}
      /\ IsInjective(wire')
    BY <1>1, <1>2, AppendProperties, AppendRange DEF OrderIInv, Once
<1>4. MessageTypes'
    BY <1>1, <1>3 DEF OrderIInv, MessageTypes
<1>5. Once'
    BY <1>1, <1>3 DEF OrderIInv, Once
<1>6. AcceptedInOrder'
    BY <1>1 DEF OrderIInv, AcceptedInOrder, InHand
<1> QED
    BY <1>4, <1>5, <1>6 DEF OrderIInv

LEMMA InboundOrder ==
    ASSUME OrderIInv, HandleInboundMessage
    PROVE  OrderIInv'
<1> DEFINE r == Head(wire)
<1>1. /\ wire # <<>> /\ wire' = Tail(wire)
      /\ UNCHANGED <<deliverer, handled>>
      /\ \/ UNCHANGED <<inbound, accepted>>
         \/ inbound' = Append(inbound, r) /\ accepted' = Append(accepted, r)
    BY DEF HandleInboundMessage, Admit, Enqueue
<1>2. /\ wire \in Seq(Requests) /\ inbound \in Seq(Requests) /\ accepted \in Seq(Requests)
    BY DEF OrderIInv, MessageTypes
<1>3. /\ r \in Requests /\ wire' \in Seq(Requests)
      /\ Range(wire) = Range(wire') \cup {r}
      /\ IsInjective(wire') /\ r \notin Range(wire')
    BY <1>1, <1>2, HeadTail DEF OrderIInv, Once
<1> HIDE DEF r
<1>4. CASE UNCHANGED <<inbound, accepted>>
    <2>1. MessageTypes'
        BY <1>1, <1>3, <1>4 DEF OrderIInv, MessageTypes
    <2>2. Once'
        BY <1>3, <1>4 DEF OrderIInv, Once
    <2>3. AcceptedInOrder'
        BY <1>1, <1>4 DEF OrderIInv, AcceptedInOrder, InHand
    <2> QED
        BY <2>1, <2>2, <2>3 DEF OrderIInv
<1>5. CASE inbound' = Append(inbound, r) /\ accepted' = Append(accepted, r)
    <2>1. /\ inbound' \in Seq(Requests) /\ accepted' \in Seq(Requests)
          /\ inbound' = inbound \o <<r>> /\ accepted' = accepted \o <<r>>
        BY <1>2, <1>3, <1>5, AppendProperties, AppendIsConcat
    <2>2. /\ Range(accepted') = Range(accepted) \cup {r}
          /\ IsInjective(accepted')
        BY <1>2, <1>3, <1>5, AppendRange DEF OrderIInv, Once
    <2>3. MessageTypes'
        BY <1>1, <1>3, <2>1 DEF OrderIInv, MessageTypes
    <2>4. Once'
        BY <1>3, <2>2 DEF OrderIInv, Once
    <2>5. AcceptedInOrder'
        <3> DEFINE done == Messages(handled) \o InHand
        <3>1. Messages(handled) \in Seq(Requests) /\ InHand \in Seq(Requests)
            BY InHandType DEF OrderIInv
        <3>2. done \in Seq(Requests) /\ <<r>> \in Seq(Requests)
            BY <1>3, <3>1, ConcatProperties
        <3>3. accepted = done \o inbound
            BY InOrder DEF OrderIInv
        <3> HIDE DEF done
        <3>4. (done \o inbound) \o <<r>> = done \o (inbound \o <<r>>)
            BY <1>2, <3>2, ConcatAssociative
        <3>5. accepted' = done \o inbound'
            BY <2>1, <3>3, <3>4
        <3>6. Messages(handled') = Messages(handled) /\ InHand' = InHand
            BY <1>1 DEF InHand
        <3> QED
            BY <3>5, <3>6 DEF AcceptedInOrder, Messages, done
    <2> QED
        BY <2>3, <2>4, <2>5 DEF OrderIInv
<1> QED
    BY <1>1, <1>4, <1>5

LEMMA DequeueOrder ==
    ASSUME OrderIInv, Dequeue
    PROVE  OrderIInv'
<1>1. /\ deliverer.step = "idle" /\ inbound # <<>>
      /\ deliverer' = [step |-> "holding", msg |-> Head(inbound), attempts |-> 0]
      /\ inbound' = Tail(inbound)
      /\ UNCHANGED <<wire, accepted, handled>>
    BY DEF Dequeue, Idle, bus, sent, history
<1>2. inbound \in Seq(Requests)
    BY DEF OrderIInv, MessageTypes
<1>3. /\ Head(inbound) \in Requests /\ inbound' \in Seq(Requests)
      /\ inbound = <<Head(inbound)>> \o inbound'
    BY <1>1, <1>2, HeadTail
<1>4. MessageTypes'
    BY <1>1, <1>3 DEF OrderIInv, MessageTypes, Steps
<1>5. Once'
    BY <1>1 DEF OrderIInv, Once
<1>6. AcceptedInOrder'
    <2> DEFINE done == Messages(handled)
               one == <<Head(inbound)>>
    <2>1. done \in Seq(Requests) /\ InHand = <<>>
        BY <1>1, InHandType DEF OrderIInv
    <2>2. one \in Seq(Requests)
        BY <1>3
    <2>3. InHand' = one
        BY <1>1, <1>3, RequestsAssumption DEF InHand
    <2>4. accepted = (done \o <<>>) \o inbound
        BY <2>1, InOrder DEF OrderIInv
    <2>5. inbound = one \o inbound'
        BY <1>3
    <2>6. done = Messages(handled')
        BY <1>1
    <2> HIDE DEF done, one
    <2>7. accepted = done \o (one \o inbound')
        BY <2>1, <2>4, <2>5, ConcatEmptySeq
    <2>8. accepted = (done \o one) \o inbound'
        BY <1>3, <2>1, <2>2, <2>7, ConcatAssociative
    <2> QED
        BY <1>1, <2>3, <2>6, <2>8 DEF AcceptedInOrder, Messages
<1> QED
    BY <1>4, <1>5, <1>6 DEF OrderIInv

\* The deliverer is done with its message, one way or the other.
LEMMA DoneOrder ==
    ASSUME OrderIInv, deliverer.step = "holding", NEW fate \in Fates, Done(fate),
           deliverer' \in [step : Steps, msg : Requests \cup {NoMessage}, attempts : Nat],
           \/ deliverer'.step = "idle" /\ deliverer'.msg = NoMessage
           \/ deliverer'.step = "sent" /\ deliverer'.msg \in Requests,
           UNCHANGED <<wire, inbound, accepted>>
    PROVE  OrderIInv'
<1> DEFINE e == [msg |-> deliverer.msg, fate |-> fate]
<1>1. deliverer.msg \in Requests /\ handled \in Seq(Ends)
    BY DEF OrderIInv, MessageTypes
<1>2. e \in Ends /\ e.msg = deliverer.msg
    BY <1>1 DEF Ends, Fates
<1>3. handled' = Append(handled, e)
    BY DEF Done
<1> HIDE DEF e
<1>4. /\ handled' \in Seq(Ends)
      /\ Messages(handled') = Messages(handled) \o <<deliverer.msg>>
    BY <1>1, <1>2, <1>3, AppendProperties, MessagesAppend
<1>5. MessageTypes'
    BY <1>4 DEF OrderIInv, MessageTypes
<1>6. Once'
    BY DEF OrderIInv, Once
<1>7. InHand' = <<>> /\ InHand = <<deliverer.msg>>
    BY InHandType DEF OrderIInv, InHand
<1>8. Messages(handled') \o <<>> = Messages(handled) \o InHand
    <2>1. Messages(handled') \in Seq(Requests)
        BY <1>4, MessagesType
    <2> QED
        BY <1>4, <1>7, <2>1, ConcatEmptySeq
<1>9. accepted' = (Messages(handled') \o InHand') \o inbound'
    BY <1>7, <1>8, InOrder DEF OrderIInv
<1> QED
    BY <1>5, <1>6, <1>9 DEF OrderIInv, AcceptedInOrder, Messages

LEMMA OrderStep == OrderIInv /\ [Next]_vars => OrderIInv'
<1> SUFFICES ASSUME OrderIInv, [Next]_vars PROVE OrderIInv'
    OBVIOUS
<1>0. deliverer \in [step : Steps, msg : Requests \cup {NoMessage}, attempts : Nat]
    BY DEF OrderIInv, MessageTypes
<1>1. ASSUME UNCHANGED <<wire, inbound, deliverer, accepted, handled>> PROVE OrderIInv'
    <2>1. MessageTypes'
        BY <1>1 DEF OrderIInv, MessageTypes
    <2>2. Once' /\ AcceptedInOrder'
        BY <1>1 DEF OrderIInv, Once, AcceptedInOrder, InHand
    <2> QED
        BY <2>1, <2>2 DEF OrderIInv
<1>2. CASE SendMessage
    <2>1. /\ deliverer.step = "holding" /\ deliverer' = [deliverer EXCEPT !.step = "sent"]
          /\ Done("delivered") /\ UNCHANGED <<wire, inbound, accepted>>
        BY <1>2 DEF SendMessage, bus, sent
    <2>2. deliverer.msg \in Requests
        BY <2>1 DEF OrderIInv, MessageTypes
    <2>3. /\ deliverer'.step = "sent" /\ deliverer'.msg \in Requests
          /\ deliverer' \in [step : Steps, msg : Requests \cup {NoMessage}, attempts : Nat]
        BY <1>0, <2>1, <2>2 DEF Steps
    <2> QED
        BY <2>1, <2>3, DoneOrder DEF Fates
<1>3. CASE SendFails
    <2>1. /\ deliverer.step = "holding" /\ UNCHANGED <<wire, inbound, accepted>>
          /\ \/ deliverer' = [deliverer EXCEPT !.attempts = @ + 1] /\ UNCHANGED handled
             \/ deliverer' = Idle /\ Done("dropped")
        BY <1>3 DEF SendFails, bus, sent
    <2>2. CASE deliverer' = Idle /\ Done("dropped")
        <3>1. /\ deliverer'.step = "idle" /\ deliverer'.msg = NoMessage
              /\ deliverer' \in [step : Steps, msg : Requests \cup {NoMessage}, attempts : Nat]
            BY <2>2 DEF Idle, Steps
        <3> QED
            BY <2>1, <2>2, <3>1, DoneOrder DEF Fates
    <2>3. CASE deliverer' = [deliverer EXCEPT !.attempts = @ + 1] /\ UNCHANGED handled
        <3>1. /\ deliverer'.step = deliverer.step /\ deliverer'.msg = deliverer.msg
              /\ deliverer' \in [step : Steps, msg : Requests \cup {NoMessage}, attempts : Nat]
            BY <1>0, <2>3
        <3>2. MessageTypes'
            BY <2>1, <2>3, <3>1 DEF OrderIInv, MessageTypes
        <3>3. Once' /\ AcceptedInOrder'
            BY <2>1, <2>3, <3>1 DEF OrderIInv, Once, AcceptedInOrder, InHand
        <3> QED
            BY <3>2, <3>3 DEF OrderIInv
    <2> QED
        BY <2>1, <2>2, <2>3
<1>4. CASE StartRequest
    <2>1. /\ deliverer.step = "sent" /\ UNCHANGED <<wire, inbound, accepted, handled>>
          /\ deliverer' = [step |-> "idle", msg |-> NoMessage, attempts |-> 0]
        BY <1>4 DEF StartRequest, Idle, bus, sent, history
    <2>2. MessageTypes'
        BY <2>1 DEF OrderIInv, MessageTypes, Steps
    <2>3. InHand = <<>> /\ InHand' = <<>>
        BY <2>1 DEF InHand
    <2>4. Once' /\ AcceptedInOrder'
        BY <2>1, <2>3 DEF OrderIInv, Once, AcceptedInOrder
    <2> QED
        BY <2>2, <2>4 DEF OrderIInv
<1>5. CASE EndDelivery
    <2>1. /\ deliverer.step \in {"idle", "holding"}
          /\ deliverer' = [deliverer EXCEPT !.step = "ended"]
          /\ UNCHANGED <<wire, inbound, accepted, handled>>
        BY <1>5 DEF EndDelivery, bus, sent, history
    <2>2. /\ deliverer'.step = "ended" /\ deliverer'.msg = deliverer.msg
          /\ deliverer' \in [step : Steps, msg : Requests \cup {NoMessage}, attempts : Nat]
        BY <1>0, <2>1 DEF Steps
    <2>3. MessageTypes'
        BY <2>1, <2>2 DEF OrderIInv, MessageTypes
    <2>4. InHand' = InHand
        BY <2>1, <2>2 DEF InHand
    <2>5. Once' /\ AcceptedInOrder'
        BY <2>1, <2>4 DEF OrderIInv, Once, AcceptedInOrder
    <2> QED
        BY <2>3, <2>5 DEF OrderIInv
<1>6. \/ \E r \in Requests : Arrive(r)
      \/ HandleInboundMessage \/ Dequeue \/ SendMessage \/ SendFails \/ StartRequest \/ EndDelivery
      \/ UNCHANGED <<wire, inbound, deliverer, accepted, handled>>
    <2> USE DEF bus, sent, history
    <2>1. CASE PublishLoop
        BY <2>1 DEF PublishLoop, TakeOutbound, RejectOutput, Charge, Publish, PublishFails,
                    EndPublishing
    <2>2. CASE UNCHANGED vars
        BY <2>2 DEF vars
    <2> QED
        BY <2>1, <2>2
           DEF Next, Deliver, PublishAgentMessage, Post, Cancel, Stop, AgentExits, Tick
<1> QED
    BY <1>1, <1>2, <1>3, <1>4, <1>5, <1>6, ArriveOrder, InboundOrder, DequeueOrder

(***************************************************************************)
(* Nothing that the relay accepted is lost, doubled or overtaken, whatever *)
(* fails, for any number of messages and any size of the queue.            *)
(***************************************************************************)
THEOREM OrderKept == Spec => []AcceptedInOrder
<1>1. OrderIInv => AcceptedInOrder
    BY DEF OrderIInv
<1> QED
    BY <1>1, OrderInit, OrderStep, PTL DEF Spec

--------------------------------------------------------------------------------
(* The tracking.  Whatever is tracked or on its way back was received, and *)
(* what was received is not delivered again, so a request is tracked after *)
(* its answer only when the deliverer still had it in hand.                *)

Publications == [msg : Answers, topic : {"agent.response", "session"}, ok : BOOLEAN]

Publisher == [step : {"idle", "holding", "charged", "ended"},
              msg : Answers \cup {NoMessage}, attempts : Nat]

AnswerTypes ==
    /\ outbound \in Seq(Answers) /\ published \in Seq(Publications)
    /\ publisher \in Publisher
    /\ publisher.step \in {"holding", "charged"} => publisher.msg \in Answers

AnswersReceived ==
    /\ \A m \in Range(outbound) : m.request \in Received
    /\ publisher.step \in {"holding", "charged"} => publisher.msg.request \in Received
    /\ Out \subseteq Received

TrackedReceived ==
    /\ tracked \subseteq Received
    /\ deliverer.step = "sent" => deliverer.msg \in Received \ tracked

OutIsSettled ==
    \A r \in Out : \/ r \in early
                   \/ r \notin tracked /\ ~(deliverer.step = "sent" /\ deliverer.msg = r)

TrackIInv ==
    /\ OrderIInv /\ AnswerTypes
    /\ AnswersReceived /\ TrackedReceived /\ OutIsSettled

LEMMA TrackInit == Init => TrackIInv
<1> SUFFICES ASSUME Init PROVE TrackIInv
    OBVIOUS
<1>1. /\ outbound = <<>> /\ published = <<>> /\ handled = <<>> /\ tracked = {}
      /\ deliverer = [step |-> "idle", msg |-> NoMessage, attempts |-> 0]
      /\ publisher = [step |-> "idle", msg |-> NoMessage, attempts |-> 0]
    BY DEF Init, Idle, NewKeeper
<1>2. OrderIInv
    BY OrderInit
<1>3. AnswerTypes
    BY <1>1, EmptySeq DEF AnswerTypes, Publisher
<1>4. Range(outbound) = {} /\ Range(published) = {}
    BY <1>1 DEF Range
<1>5. Out = {}
    BY <1>4 DEF Out
<1>6. AnswersReceived /\ TrackedReceived /\ OutIsSettled
    BY <1>1, <1>4, <1>5 DEF AnswersReceived, TrackedReceived, OutIsSettled
<1> QED
    BY <1>2, <1>3, <1>6 DEF TrackIInv

LEMMA DoneReceived ==
    ASSUME OrderIInv, deliverer.step = "holding", NEW fate \in Fates, Done(fate)
    PROVE  Received' = IF fate = "delivered" THEN Received \cup {deliverer.msg} ELSE Received
<1> DEFINE e == [msg |-> deliverer.msg, fate |-> fate]
<1>1. handled \in Seq(Ends) /\ e \in Ends
    BY DEF OrderIInv, MessageTypes, Ends, Fates
<1>2. e.msg = deliverer.msg /\ e.fate = fate
    OBVIOUS
<1>3. handled' = Append(handled, e)
    BY DEF Done
<1> HIDE DEF e
<1>4. Range(handled') = Range(handled) \cup {e}
    BY <1>1, <1>3, AppendRange
<1> QED
    BY <1>2, <1>4 DEF Received

\* What the deliverer holds has not been delivered before.
LEMMA HeldIsNew ==
    ASSUME OrderIInv, deliverer.step = "holding"
    PROVE  deliverer.msg \notin Received
<1>1. /\ deliverer.msg \in Requests /\ inbound \in Seq(Requests) /\ handled \in Seq(Ends)
      /\ IsInjective(accepted)
    BY DEF OrderIInv, MessageTypes, Once
<1>2. /\ Messages(handled) \in Seq(Requests) /\ InHand = <<deliverer.msg>>
    BY InHandType DEF OrderIInv
<1>3. accepted = (Messages(handled) \o <<deliverer.msg>>) \o inbound
    BY <1>2, InOrder DEF OrderIInv
<1>4. IsInjective((Messages(handled) \o <<deliverer.msg>>) \o inbound)
    BY <1>1, <1>3
<1>5. deliverer.msg \notin Range(Messages(handled))
    BY <1>1, <1>2, <1>4, Between
<1>6. Received \subseteq Range(Messages(handled))
    BY DEF Received, Range, Messages
<1> QED
    BY <1>5, <1>6

LEMMA PublishedOut ==
    ASSUME AnswerTypes, publisher.step = "charged", NEW ok \in BOOLEAN, OnBus(ok)
    PROVE  /\ published' \in Seq(Publications)
           /\ Out' = IF ok THEN Out \cup {publisher.msg.request} ELSE Out
<1> DEFINE p == [msg |-> publisher.msg, topic |-> Topic(publisher.msg), ok |-> ok]
<1>1. published \in Seq(Publications) /\ p \in Publications
    BY DEF AnswerTypes, Publications, Topic
<1>2. p.msg = publisher.msg /\ p.ok = ok
    OBVIOUS
<1>3. published' = Append(published, p)
    BY DEF OnBus
<1> HIDE DEF p
<1>4. published' \in Seq(Publications) /\ Range(published') = Range(published) \cup {p}
    BY <1>1, <1>3, AppendProperties, AppendRange
<1>5. \A r : /\ r \in Out <=> \E y \in Range(published) : y.ok /\ y.msg.request = r
             /\ r \in Out' <=> \E y \in Range(published) \cup {p} : y.ok /\ y.msg.request = r
    BY <1>4 DEF Out
<1>6. \A r : r \in Out' <=> r \in Out \/ (ok /\ r = publisher.msg.request)
    BY <1>2, <1>5
<1>7. Out' = IF ok THEN Out \cup {publisher.msg.request} ELSE Out
    <2>1. CASE ok
        BY <1>6, <2>1
    <2>2. CASE ~ok
        BY <1>6, <2>2
    <2> QED
        BY <2>1, <2>2
<1> QED
    BY <1>4, <1>7

\* The deliverer's steps.
LEMMA DeliverTrack ==
    ASSUME TrackIInv, OrderIInv', Deliver
    PROVE  TrackIInv'
<1>1. /\ UNCHANGED <<outbound, published, publisher, early>>
    BY DEF Deliver, Dequeue, SendMessage, SendFails, StartRequest, EndDelivery, bus, sent, history
<1>2. Out' = Out
    BY <1>1 DEF Out
<1>3. AnswerTypes'
    BY <1>1 DEF TrackIInv, AnswerTypes
<1>4. ASSUME Received \subseteq Received'
      PROVE  AnswersReceived'
    BY <1>1, <1>2, <1>4 DEF TrackIInv, AnswersReceived
<1>5. deliverer \in [step : Steps, msg : Requests \cup {NoMessage}, attempts : Nat]
    BY DEF TrackIInv, OrderIInv, MessageTypes
<1>6. ASSUME UNCHANGED <<handled, tracked>>, deliverer'.step # "sent"
      PROVE  TrackIInv'
    <2>1. Received' = Received
        BY <1>6 DEF Received
    <2>2. TrackedReceived' /\ OutIsSettled'
        BY <1>1, <1>2, <1>6, <2>1 DEF TrackIInv, TrackedReceived, OutIsSettled
    <2> QED
        BY <1>3, <1>4, <2>1, <2>2 DEF TrackIInv
<1>7. CASE Dequeue
    <2>1. deliverer'.step = "holding" /\ UNCHANGED <<handled, tracked>>
        BY <1>7 DEF Dequeue, Idle, guards, history
    <2> QED
        BY <1>6, <2>1
<1>8. CASE SendMessage
    <2>1. /\ deliverer.step = "holding" /\ deliverer' = [deliverer EXCEPT !.step = "sent"]
          /\ Done("delivered") /\ UNCHANGED tracked
        BY <1>8 DEF SendMessage, guards
    <2>2. deliverer'.msg = deliverer.msg
        BY <1>5, <2>1
    <2>3. Received' = Received \cup {deliverer.msg}
        BY <2>1, DoneReceived DEF TrackIInv, Fates
    <2>4. deliverer.msg \notin Received
        BY <2>1, HeldIsNew DEF TrackIInv
    <2>5. TrackedReceived'
        BY <2>1, <2>2, <2>3, <2>4 DEF TrackIInv, TrackedReceived
    <2>6. OutIsSettled'
        <3> SUFFICES ASSUME NEW r \in Out
                     PROVE  \/ r \in early
                            \/ r \notin tracked /\ deliverer'.msg # r
            BY <1>1, <1>2, <2>1 DEF OutIsSettled
        <3>1. r \in Received
            BY DEF TrackIInv, AnswersReceived
        <3>2. r \in early \/ r \notin tracked
            BY DEF TrackIInv, OutIsSettled
        <3> QED
            BY <2>2, <2>4, <3>1, <3>2
    <2> QED
        BY <1>3, <1>4, <2>3, <2>5, <2>6 DEF TrackIInv
<1>9. CASE SendFails
    <2>1. /\ deliverer.step = "holding" /\ UNCHANGED tracked
          /\ \/ deliverer' = [deliverer EXCEPT !.attempts = @ + 1] /\ UNCHANGED handled
             \/ deliverer' = Idle /\ Done("dropped")
        BY <1>9 DEF SendFails, guards
    <2>2. CASE deliverer' = [deliverer EXCEPT !.attempts = @ + 1] /\ UNCHANGED handled
        <3>1. deliverer'.step # "sent"
            BY <1>5, <2>1, <2>2
        <3> QED
            BY <1>6, <2>1, <2>2, <3>1
    <2>3. CASE deliverer' = Idle /\ Done("dropped")
        <3>1. Received' = Received
            BY <2>1, <2>3, DoneReceived DEF TrackIInv, Fates
        <3>2. deliverer'.step = "idle"
            BY <2>3 DEF Idle
        <3>3. TrackedReceived' /\ OutIsSettled'
            BY <1>1, <1>2, <2>1, <3>1, <3>2 DEF TrackIInv, TrackedReceived, OutIsSettled
        <3> QED
            BY <1>3, <1>4, <3>1, <3>3 DEF TrackIInv
    <2> QED
        BY <2>1, <2>2, <2>3
<1>10. CASE StartRequest
    <2>1. /\ deliverer.step = "sent" /\ deliverer'.step = "idle" /\ UNCHANGED handled
          /\ tracked' = tracked \cup {deliverer.msg}
        BY <1>10 DEF StartRequest, Tracking, Idle, history
    <2>2. Received' = Received
        BY <2>1 DEF Received
    <2>3. TrackedReceived'
        BY <2>1, <2>2 DEF TrackIInv, TrackedReceived
    <2>4. OutIsSettled'
        BY <1>1, <1>2, <2>1 DEF TrackIInv, OutIsSettled
    <2> QED
        BY <1>3, <1>4, <2>2, <2>3, <2>4 DEF TrackIInv
<1>11. CASE EndDelivery
    <2>1. deliverer' = [deliverer EXCEPT !.step = "ended"] /\ UNCHANGED <<handled, tracked>>
        BY <1>11 DEF EndDelivery, guards, history
    <2>2. deliverer'.step # "sent"
        BY <1>5, <2>1
    <2> QED
        BY <1>6, <2>1, <2>2
<1> QED
    BY <1>7, <1>8, <1>9, <1>10, <1>11 DEF Deliver

LEMMA AnswerTrack ==
    ASSUME TrackIInv, OrderIInv', NEW r \in Requests, NEW correlated \in BOOLEAN,
           PublishAgentMessage(r, correlated)
    PROVE  TrackIInv'
<1> DEFINE m == [request |-> r, correlated |-> correlated]
<1>1. /\ r \in Received /\ outbound' = Append(outbound, m)
      /\ UNCHANGED <<published, publisher, early, tracked, deliverer, handled>>
    BY DEF PublishAgentMessage, bus, sent, guards, history
<1>2. m \in Answers /\ m.request = r
    BY DEF Answers
<1> HIDE DEF m
<1>3. Received' = Received /\ Out' = Out
    BY <1>1 DEF Received, Out
<1>4. outbound \in Seq(Answers)
    BY DEF TrackIInv, AnswerTypes
<1>5. outbound' \in Seq(Answers) /\ Range(outbound') = Range(outbound) \cup {m}
    BY <1>1, <1>2, <1>4, AppendProperties, AppendRange
<1>6. AnswerTypes'
    BY <1>1, <1>5 DEF TrackIInv, AnswerTypes
<1>7. AnswersReceived'
    BY <1>1, <1>2, <1>3, <1>5 DEF TrackIInv, AnswersReceived
<1>8. TrackedReceived' /\ OutIsSettled'
    BY <1>1, <1>3 DEF TrackIInv, TrackedReceived, OutIsSettled
<1> QED
    BY <1>6, <1>7, <1>8 DEF TrackIInv

\* The publisher's steps.
LEMMA PublishTrack ==
    ASSUME TrackIInv, OrderIInv', PublishLoop
    PROVE  TrackIInv'
<1>1. UNCHANGED <<handled, deliverer>>
    BY DEF PublishLoop, TakeOutbound, RejectOutput, Charge, Publish, PublishFails, EndPublishing,
           history
<1>2. Received' = Received
    BY <1>1 DEF Received
<1>3. /\ publisher \in Publisher
      /\ publisher.step \in {"holding", "charged"} => publisher.msg \in Answers
      /\ outbound \in Seq(Answers)
    BY DEF TrackIInv, AnswerTypes
<1>4. ASSUME UNCHANGED <<outbound, tracked, early>>, Out' = Out, published' \in Seq(Publications),
             publisher' \in Publisher,
             \/ publisher'.step \notin {"holding", "charged"}
             \/ publisher.step \in {"holding", "charged"} /\ publisher'.msg = publisher.msg
      PROVE  TrackIInv'
    <2>1. AnswerTypes'
        BY <1>3, <1>4 DEF TrackIInv, AnswerTypes
    <2>2. AnswersReceived'
        BY <1>2, <1>4 DEF TrackIInv, AnswersReceived
    <2>3. TrackedReceived' /\ OutIsSettled'
        BY <1>1, <1>2, <1>4 DEF TrackIInv, TrackedReceived, OutIsSettled
    <2> QED
        BY <2>1, <2>2, <2>3 DEF TrackIInv
<1>5. Idle \in Publisher /\ Idle.step = "idle"
    BY DEF Idle, Publisher
<1>6. CASE TakeOutbound
    <2>1. /\ outbound # <<>> /\ outbound' = Tail(outbound)
          /\ publisher' = [step |-> "holding", msg |-> Head(outbound), attempts |-> 0]
          /\ UNCHANGED <<published, early, tracked>>
        BY <1>6 DEF TakeOutbound, Idle, bus, sent, guards, history
    <2>2. /\ Head(outbound) \in Answers /\ outbound' \in Seq(Answers)
          /\ Range(outbound) = Range(outbound') \cup {Head(outbound)}
        BY <1>3, <2>1, HeadTail
    <2>3. Out' = Out
        BY <2>1 DEF Out
    <2>4. AnswerTypes'
        BY <2>1, <2>2 DEF TrackIInv, AnswerTypes, Publisher
    <2>5. AnswersReceived'
        BY <1>2, <2>1, <2>2, <2>3 DEF TrackIInv, AnswersReceived
    <2>6. TrackedReceived' /\ OutIsSettled'
        BY <1>1, <1>2, <2>1, <2>3 DEF TrackIInv, TrackedReceived, OutIsSettled
    <2> QED
        BY <2>4, <2>5, <2>6 DEF TrackIInv
<1>7. CASE RejectOutput
    <2>1. publisher' = Idle /\ UNCHANGED <<outbound, tracked, early, published>>
        BY <1>7 DEF RejectOutput, Withhold, bus, sent, guards, history
    <2>2. Out' = Out /\ published' \in Seq(Publications)
        BY <2>1 DEF Out, TrackIInv, AnswerTypes
    <2> QED
        BY <1>4, <1>5, <2>1, <2>2
<1>8. CASE Charge
    <2>1. /\ publisher.step = "holding"
          /\ UNCHANGED <<outbound, tracked, early, published>>
          /\ publisher' = Idle \/ publisher' = [publisher EXCEPT !.step = "charged"]
        BY <1>8 DEF Charge, Withhold, bus, sent, guards, history
    <2>2. Out' = Out /\ published' \in Seq(Publications)
        BY <2>1 DEF Out, TrackIInv, AnswerTypes
    <2>3. CASE publisher' = Idle
        BY <1>4, <1>5, <2>1, <2>2, <2>3
    <2>4. CASE publisher' = [publisher EXCEPT !.step = "charged"]
        <3>1. publisher' \in Publisher /\ publisher'.msg = publisher.msg
            BY <1>3, <2>4 DEF Publisher
        <3> QED
            BY <1>4, <2>1, <2>2, <3>1
    <2> QED
        BY <2>1, <2>3, <2>4
<1>9. CASE Publish
    <2> DEFINE r == publisher.msg.request
    <2>1. /\ publisher.step = "charged" /\ OnBus(TRUE) /\ publisher' = Idle
          /\ tracked' = tracked \ {r}
          /\ early' = IF r \in tracked THEN early ELSE early \cup {r}
          /\ UNCHANGED outbound
        BY <1>9 DEF Publish, Completed
    <2>2. published' \in Seq(Publications) /\ Out' = Out \cup {r}
        BY <2>1, PublishedOut DEF TrackIInv
    <2>3. r \in Received
        BY <2>1 DEF TrackIInv, AnswersReceived
    <2>4. r \in tracked => ~(deliverer.step = "sent" /\ deliverer.msg = r)
        BY DEF TrackIInv, TrackedReceived
    <2> HIDE DEF r
    <2>5. AnswerTypes'
        BY <1>5, <2>1, <2>2 DEF TrackIInv, AnswerTypes
    <2>6. AnswersReceived'
        BY <1>2, <1>5, <2>1, <2>2, <2>3 DEF TrackIInv, AnswersReceived
    <2>7. TrackedReceived'
        BY <1>1, <1>2, <2>1 DEF TrackIInv, TrackedReceived
    <2>8. OutIsSettled'
        BY <1>1, <2>1, <2>2, <2>4 DEF TrackIInv, OutIsSettled
    <2> QED
        BY <2>5, <2>6, <2>7, <2>8 DEF TrackIInv
<1>10. CASE PublishFails
    <2>1. /\ publisher.step = "charged"
          /\ UNCHANGED <<outbound, tracked, early>>
          /\ OnBus(FALSE) \/ UNCHANGED sent
          /\ \/ publisher' = Idle
             \/ publisher' = [publisher EXCEPT !.step = "holding", !.attempts = @ + 1]
        BY <1>10 DEF PublishFails, guards, history
    <2>2. Out' = Out /\ published' \in Seq(Publications)
        <3>1. CASE OnBus(FALSE)
            BY <2>1, <3>1, PublishedOut DEF TrackIInv
        <3>2. CASE UNCHANGED sent
            <4>1. published' = published
                BY <3>2 DEF sent
            <4> QED
                BY <4>1 DEF Out, TrackIInv, AnswerTypes
        <3> QED
            BY <2>1, <3>1, <3>2
    <2>3. CASE publisher' = Idle
        BY <1>4, <1>5, <2>1, <2>2, <2>3
    <2>4. CASE publisher' = [publisher EXCEPT !.step = "holding", !.attempts = @ + 1]
        <3>1. publisher' \in Publisher /\ publisher'.msg = publisher.msg
            <4>1. publisher' = [step |-> "holding", msg |-> publisher.msg,
                                attempts |-> publisher.attempts + 1]
                BY <1>3, <2>4 DEF Publisher
            <4>2. publisher.msg \in Answers \cup {NoMessage} /\ publisher.attempts + 1 \in Nat
                BY <1>3 DEF Publisher
            <4> QED
                BY <4>1, <4>2 DEF Publisher
        <3> QED
            BY <1>4, <2>1, <2>2, <3>1
    <2> QED
        BY <2>1, <2>3, <2>4
<1>11. CASE EndPublishing
    <2>1. /\ publisher' = [publisher EXCEPT !.step = "ended"]
          /\ UNCHANGED <<outbound, tracked, early, published>>
        BY <1>11 DEF EndPublishing, bus, sent, guards, history
    <2>2. Out' = Out /\ published' \in Seq(Publications)
        BY <2>1 DEF Out, TrackIInv, AnswerTypes
    <2>3. publisher' \in Publisher /\ publisher'.step = "ended"
        BY <1>3, <2>1 DEF Publisher
    <2> QED
        BY <1>4, <2>1, <2>2, <2>3
<1> QED
    BY <1>6, <1>7, <1>8, <1>9, <1>10, <1>11 DEF PublishLoop

LEMMA TrackStep == TrackIInv /\ [Next]_vars => TrackIInv'
<1> SUFFICES ASSUME TrackIInv, [Next]_vars PROVE TrackIInv'
    OBVIOUS
<1>1. OrderIInv'
    BY OrderStep DEF TrackIInv
<1>2. ASSUME UNCHANGED <<outbound, published, publisher, early, tracked, deliverer, handled>>
      PROVE  TrackIInv'
    <2>1. Received' = Received /\ Out' = Out
        BY <1>2 DEF Received, Out
    <2>2. AnswerTypes'
        BY <1>2 DEF TrackIInv, AnswerTypes
    <2>3. AnswersReceived'
        BY <1>2, <2>1 DEF TrackIInv, AnswersReceived
    <2>4. TrackedReceived' /\ OutIsSettled'
        BY <1>2, <2>1 DEF TrackIInv, TrackedReceived, OutIsSettled
    <2> QED
        BY <1>1, <2>2, <2>3, <2>4 DEF TrackIInv
<1>3. \/ Deliver \/ PublishLoop
      \/ \E r \in Requests, correlated \in BOOLEAN : PublishAgentMessage(r, correlated)
      \/ UNCHANGED <<outbound, published, publisher, early, tracked, deliverer, handled>>
    <2> USE DEF bus, sent, guards, history
    <2>1. CASE UNCHANGED vars
        BY <2>1 DEF vars
    <2> QED
        BY <2>1 DEF Next, Arrive, HandleInboundMessage, Post, Cancel, Stop, AgentExits, Tick
<1> QED
    BY <1>1, <1>2, <1>3, DeliverTrack, AnswerTrack, PublishTrack

(***************************************************************************)
(* A request stays tracked after its answer is out only when the answer    *)
(* overtook StartRequest, for any number of requests and any retries.      *)
(***************************************************************************)
THEOREM TrackingEnds == Spec => []TrackedUntilAnswered
<1>1. TrackIInv => TrackedUntilAnswered
    BY DEF TrackIInv, OutIsSettled, TrackedUntilAnswered
<1> QED
    BY <1>1, TrackInit, TrackStep, PTL DEF Spec

--------------------------------------------------------------------------------
(* The budget.  What the tracker has counted for the session covers all    *)
(* that is on the bus and the copy the publisher is about to put there:    *)
(* every copy is charged before it goes out.                               *)

Trackers == [session : Nat, minute : Nat, turned : BOOLEAN]

Paid == IF publisher.step = "charged" THEN Cost[publisher.msg.request] ELSE 0

BudgetIInv ==
    /\ tracker \in Trackers /\ spent \in Nat
    /\ PerSession > 0 => spent + Paid <= tracker.session /\ tracker.session <= PerSession

LEMMA BudgetInit == Init => BudgetIInv
<1> SUFFICES ASSUME Init PROVE BudgetIInv
    OBVIOUS
<1>1. /\ tracker = [session |-> 0, minute |-> 0, turned |-> FALSE] /\ spent = 0
      /\ publisher.step = "idle"
    BY DEF Init, NewKeeper, NewTokenBudgetTracker, Idle
<1> QED
    BY <1>1, BudgetAssumption DEF BudgetIInv, Trackers, Paid

\* RecordUsage charges the session when it charges at all, and then in full.
LEMMA UsageRecorded ==
    ASSUME NEW b \in Trackers, NEW tokens \in Nat
    PROVE  LET usage == RecordUsage(b, tokens)
           IN  /\ usage.tracker \in Trackers
               /\ usage.error # "none" => usage.tracker.session = b.session
               /\ PerSession > 0 /\ usage.error = "none" =>
                     /\ usage.tracker.session = b.session + tokens
                     /\ b.session + tokens <= PerSession
<1> DEFINE now == ThisMinute(b)
           charged == ChargeMinute(now, tokens)
           paid == ChargeSession(charged, tokens)
<1>1. now \in Trackers /\ now.session = b.session
    BY DEF ThisMinute, Trackers
<1> HIDE DEF now
<1>2. charged \in Trackers /\ charged.session = b.session
    BY <1>1 DEF ChargeMinute, Trackers
<1> HIDE DEF charged
<1>3. paid \in Trackers /\ (PerSession > 0 => paid.session = b.session + tokens)
    BY <1>2 DEF ChargeSession, Trackers
<1> HIDE DEF paid
<1>4. RecordUsage(b, tokens) =
         IF Exceeds(PerRequest, tokens) THEN [error |-> "per-request", tracker |-> b]
         ELSE IF Exceeds(PerMinute, now.minute + tokens) THEN [error |-> "per-minute", tracker |-> now]
         ELSE IF Exceeds(PerSession, b.session + tokens)
              THEN [error |-> "per-session", tracker |-> charged]
              ELSE [error |-> "none", tracker |-> paid]
    BY DEF RecordUsage, now, charged, paid
<1>5. PerSession > 0 /\ ~Exceeds(PerSession, b.session + tokens) => b.session + tokens <= PerSession
    BY BudgetAssumption DEF Exceeds, Trackers
<1> QED
    BY <1>1, <1>2, <1>3, <1>4, <1>5

LEMMA PaidType == AnswerTypes => Paid \in Nat
BY RequestsAssumption DEF AnswerTypes, Paid, Answers, Publisher

\* A step that leaves the bus and the session's count alone, and brings no
\* answer to the point of being published.
LEMMA BudgetKept ==
    ASSUME BudgetIInv, Paid \in Nat, spent' = spent,
           tracker' \in Trackers, tracker'.session = tracker.session,
           publisher' = publisher \/ publisher'.step # "charged"
    PROVE  BudgetIInv'
<1>1. Paid' = Paid \/ Paid' = 0
    BY DEF Paid
<1>2. spent + Paid' <= spent + Paid
    BY <1>1 DEF BudgetIInv
<1>3. PerSession > 0 => spent + Paid' <= tracker.session
    BY <1>1 DEF BudgetIInv, Trackers
<1> QED
    BY <1>3 DEF BudgetIInv

LEMMA ChargeBudget ==
    ASSUME BudgetIInv, AnswerTypes, Charge
    PROVE  BudgetIInv'
<1> DEFINE tokens == Cost[publisher.msg.request]
           usage == RecordUsage(tracker, tokens)
<1>1. /\ publisher.step = "holding" /\ spent' = spent /\ publisher \in Publisher
      /\ tracker' = IF tokens > 0 THEN usage.tracker ELSE tracker
      /\ \/ tokens = 0 \/ usage.error = "none"
         \/ tokens > 0 /\ usage.error # "none" /\ publisher' = Idle
      /\ publisher' = Idle \/ publisher' = [publisher EXCEPT !.step = "charged"]
    BY DEF Charge, ExtractTokenCount, Withhold, bus, sent, AnswerTypes
<1>2. tokens \in Nat /\ tracker \in Trackers /\ spent \in Nat
    BY <1>1, RequestsAssumption DEF AnswerTypes, Answers, BudgetIInv
<1>3. /\ usage.tracker \in Trackers
      /\ usage.error # "none" => usage.tracker.session = tracker.session
      /\ PerSession > 0 /\ usage.error = "none" =>
            usage.tracker.session = tracker.session + tokens /\ tracker.session + tokens <= PerSession
    BY <1>2, UsageRecorded
<1>4. publisher.step = "holding" => Paid = 0
    BY DEF Paid
<1>5. Paid' \in {0, tokens}
    BY <1>1 DEF Paid, Publisher, Idle
<1> HIDE DEF tokens, usage
<1>6. tracker' \in Trackers
    BY <1>1, <1>2, <1>3
<1>7. ASSUME PerSession > 0
      PROVE  spent' + Paid' <= tracker'.session /\ tracker'.session <= PerSession
    <2>1. spent <= tracker.session /\ tracker.session <= PerSession
        BY <1>1, <1>2, <1>4, <1>7 DEF BudgetIInv
    <2>2. CASE tokens = 0
        BY <1>1, <1>2, <1>5, <2>1, <2>2
    <2>3. CASE tokens > 0 /\ usage.error = "none"
        BY <1>1, <1>2, <1>3, <1>5, <1>7, <2>1, <2>3, BudgetAssumption DEF Trackers
    <2>4. CASE tokens > 0 /\ usage.error # "none"
        <3>1. publisher' = Idle /\ Paid' = 0
            BY <1>1, <2>4 DEF Paid, Idle
        <3> QED
            BY <1>1, <1>2, <1>3, <2>1, <2>4, <3>1
    <2> QED
        BY <1>2, <2>2, <2>3, <2>4
<1> QED
    BY <1>1, <1>2, <1>6, <1>7 DEF BudgetIInv

LEMMA BudgetStep ==
    ASSUME BudgetIInv, AnswerTypes, [Next]_vars
    PROVE  BudgetIInv'
<1>1. Paid \in Nat
    BY PaidType
<1>2. tracker \in Trackers
    BY DEF BudgetIInv
<1>3. ASSUME spent' = spent, tracker' = tracker, publisher' = publisher \/ publisher'.step # "charged"
      PROVE  BudgetIInv'
    BY <1>1, <1>2, <1>3, BudgetKept
<1>4. CASE UNCHANGED vars
    BY <1>3, <1>4 DEF vars, bus, sent, guards
<1>5. ASSUME NEW r \in Requests,
             \/ Arrive(r)
             \/ \E correlated \in BOOLEAN : PublishAgentMessage(r, correlated)
             \/ \E heard, ok \in BOOLEAN : Post(r, heard, ok)
      PROVE  BudgetIInv'
    BY <1>3, <1>5 DEF Arrive, PublishAgentMessage, Post, bus, sent, guards
<1>6. CASE HandleInboundMessage
    BY <1>3, <1>6 DEF HandleInboundMessage, sent
<1>7. CASE Deliver
    BY <1>3, <1>7 DEF Deliver, Dequeue, SendMessage, SendFails, StartRequest, EndDelivery, bus, sent,
                      guards
<1>8. CASE TakeOutbound
    BY <1>3, <1>8 DEF TakeOutbound, Idle, bus, sent, guards
<1>9. CASE RejectOutput
    BY <1>3, <1>9 DEF RejectOutput, Withhold, Idle, bus, sent, guards
<1>10. CASE Charge
    BY <1>10, ChargeBudget
\* What was paid for goes out, or perhaps out, and has to be paid for again.
<1>11. CASE Publish \/ PublishFails
    <2>1. /\ publisher.step = "charged" /\ tracker' = tracker /\ publisher \in Publisher
          /\ spent' = spent \/ spent' = spent + Cost[publisher.msg.request]
          /\ publisher' = Idle \/ publisher' = [publisher EXCEPT !.step = "holding", !.attempts = @ + 1]
        BY <1>11 DEF Publish, PublishFails, OnBus, sent, guards, AnswerTypes
    <2>2. Paid = Cost[publisher.msg.request]
        BY <2>1 DEF Paid
    <2>3. Paid' = 0
        <3>1. publisher'.step \in {"idle", "holding"}
            <4>1. Idle.step = "idle"
                BY DEF Idle
            <4>2. [publisher EXCEPT !.step = "holding", !.attempts = @ + 1].step = "holding"
                BY <2>1 DEF Publisher
            <4> QED
                BY <2>1, <4>1, <4>2
        <3> QED
            BY <3>1 DEF Paid
    <2>4. spent \in Nat
        BY DEF BudgetIInv
    <2>5. spent' \in Nat /\ spent' + Paid' <= spent + Paid
        BY <1>1, <2>1, <2>2, <2>3, <2>4
    <2>6. ASSUME PerSession > 0
          PROVE  spent' + Paid' <= tracker'.session /\ tracker'.session <= PerSession
        <3>1. spent + Paid <= tracker.session /\ tracker.session <= PerSession
            BY <2>6 DEF BudgetIInv
        <3> QED
            BY <1>1, <1>2, <2>1, <2>3, <2>4, <2>5, <3>1 DEF Trackers
    <2> QED
        BY <1>2, <2>1, <2>5, <2>6 DEF BudgetIInv
<1>12. CASE EndPublishing
    <2>1. publisher'.step # "charged" /\ UNCHANGED <<spent, tracker>>
        BY <1>12 DEF EndPublishing, bus, sent, guards, AnswerTypes, Publisher
    <2> QED
        BY <1>3, <2>1
<1>13. CASE Cancel \/ AgentExits \/ \E stopped \in BOOLEAN : Stop(stopped)
    BY <1>3, <1>13 DEF Cancel, AgentExits, Stop, bus, sent, guards
<1>14. CASE \E minute \in BOOLEAN : Tick(minute)
    <2>1. PICK minute \in BOOLEAN : Tick(minute)
        BY <1>14
    <2>2. /\ tracker' = [tracker EXCEPT !.turned = @ \/ minute]
          /\ UNCHANGED <<spent, publisher>>
        BY <2>1 DEF Tick, bus, sent
    <2>3. tracker' \in Trackers /\ tracker'.session = tracker.session
        BY <1>2, <2>2 DEF Trackers
    <2> QED
        BY <1>1, <2>2, <2>3, BudgetKept
<1> QED
    BY <1>4, <1>5, <1>6, <1>7, <1>8, <1>9, <1>10, <1>11, <1>12, <1>13, <1>14 DEF Next, PublishLoop

(***************************************************************************)
(* All the copies on the bus together stay within the session's budget,    *)
(* however often a publication is tried again (relay.go:                   *)
(* publishMessageWithRetry; tokenbudget.go: RecordUsage).                  *)
(***************************************************************************)
THEOREM BudgetHolds == Spec => []PublishedWithinBudget
<1>1. TrackIInv => AnswerTypes
    BY DEF TrackIInv
<1>2. BudgetIInv => PublishedWithinBudget \/ ~(Paid \in Nat)
    BY BudgetAssumption DEF BudgetIInv, PublishedWithinBudget, Trackers
<1>3. BudgetIInv /\ TrackIInv => PublishedWithinBudget
    BY <1>1, <1>2, PaidType
<1>4. BudgetIInv /\ TrackIInv /\ [Next]_vars => BudgetIInv' /\ TrackIInv'
    BY <1>1, BudgetStep, TrackStep
<1> QED
    BY <1>3, <1>4, BudgetInit, TrackInit, PTL DEF Spec

--------------------------------------------------------------------------------
(* The types.  A queue takes a message only while it has room, an attempt  *)
(* is counted while another is allowed, and a webhook is fired once about  *)
(* each request: while the message waits on either side, or the answer is  *)
(* on its way back, nothing has been sent about it.                        *)

Posts == [step : {"none", "sending", "sent", "failed"},
          attempts : 0 .. MaxPosts, heard : 0 .. MaxPosts]

PostCounted(e) == e.heard <= e.attempts /\ (e.step = "sending" => e.attempts < MaxPosts)

Unheard(r) == event[r] = NoEvent

BoundsInv ==
    /\ phase \in {"running", "cancelled", "stopped"} /\ alive \in BOOLEAN
    /\ clock <= Ticks
    /\ Len(inbound) <= QueueSize /\ Len(outbound) <= QueueSize
    /\ deliverer.attempts \in 0 .. MaxRetries - 1
    /\ publisher.attempts \in 0 .. MaxRetries - 1

ReturningInv ==
    /\ answered \subseteq Requests
    /\ \A m \in Range(outbound) : m.request \in answered
    /\ \A i, j \in DOMAIN outbound : outbound[i].request = outbound[j].request => i = j
    /\ publisher.step \in {"holding", "charged"} =>
          /\ publisher.msg.request \in answered
          /\ \A m \in Range(outbound) : m.request # publisher.msg.request

WebhookInv ==
    /\ hiveCache \in {"unset", SessionHive, NoHive}
    /\ event \in [Requests -> Posts] /\ \A r \in Requests : PostCounted(event[r])
    /\ \A r \in Range(wire) : Unheard(r)
    /\ \A r \in Range(accepted) \ answered : Unheard(r)
    /\ \A m \in Range(outbound) : Unheard(m.request)
    /\ publisher.step \in {"holding", "charged"} => Unheard(publisher.msg.request)

TypeIInv ==
    /\ RateIInv /\ TrackIInv /\ BudgetIInv
    /\ BoundsInv /\ ReturningInv /\ WebhookInv

LEMMA LimitsType ==
    /\ QueueSize \in Nat \ {0} /\ MaxRetries \in Nat \ {0} /\ MaxPosts \in Nat \ {0}
    /\ Ticks \in Nat
BY LimitsAssumption, TimeAssumption

LEMMA TypeInit == Init => TypeIInv
<1> SUFFICES ASSUME Init PROVE TypeIInv
    OBVIOUS
<1>1. RateIInv /\ TrackIInv /\ BudgetIInv
    BY RateInit, TrackInit, BudgetInit
<1>2. /\ wire = <<>> /\ inbound = <<>> /\ outbound = <<>> /\ accepted = <<>> /\ answered = {}
      /\ deliverer = [step |-> "idle", msg |-> NoMessage, attempts |-> 0]
      /\ publisher = [step |-> "idle", msg |-> NoMessage, attempts |-> 0]
      /\ event = [r \in Requests |-> [step |-> "none", attempts |-> 0, heard |-> 0]]
      /\ phase = "running" /\ alive = TRUE /\ clock = 0 /\ hiveCache = "unset"
    BY DEF Init, NewKeeper, Idle, NoEvent
<1>3. Len(<<>>) = 0 /\ DOMAIN <<>> = {} /\ Range(wire) = {} /\ Range(outbound) = {} /\ Range(accepted) = {}
    BY <1>2 DEF Range
<1>4. BoundsInv
    BY <1>2, <1>3, LimitsType DEF BoundsInv
<1>5. ReturningInv
    BY <1>2, <1>3 DEF ReturningInv
<1>6. \A r \in Requests : event[r] \in Posts /\ PostCounted(event[r])
    BY <1>2, LimitsType DEF Posts, PostCounted
<1>7. WebhookInv
    BY <1>2, <1>3, <1>6 DEF WebhookInv
<1> QED
    BY <1>1, <1>4, <1>5, <1>7 DEF TypeIInv

\* What was received has been accepted.
LEMMA ReceivedAccepted ==
    ASSUME OrderIInv
    PROVE  Received \subseteq Range(accepted)
<1>1. /\ Messages(handled) \in Seq(Requests) /\ InHand \in Seq(Requests) /\ inbound \in Seq(Requests)
    BY InHandType DEF OrderIInv, MessageTypes
<1>2. accepted = (Messages(handled) \o InHand) \o inbound
    BY InOrder DEF OrderIInv
<1>3. Range(Messages(handled)) \subseteq Range(Messages(handled) \o InHand)
    BY <1>1, RangeConcatenation
<1>4. Range(Messages(handled) \o InHand) \subseteq Range(accepted)
    <2> DEFINE u == Messages(handled) \o InHand
    <2>1. u \in Seq(Requests) /\ accepted = u \o inbound
        BY <1>1, <1>2, ConcatProperties
    <2> HIDE DEF u
    <2>2. Range(u) \subseteq Range(accepted)
        BY <1>1, <2>1, RangeConcatenation
    <2> QED
        BY <2>2 DEF u
<1>5. Received \subseteq Range(Messages(handled))
    BY DEF Received, Range, Messages
<1> QED
    BY <1>2, <1>3, <1>4, <1>5

\* What the queues hold, and the one message at the front of the outbound queue.
LEMMA InboundBounds ==
    ASSUME OrderIInv, BoundsInv, HandleInboundMessage
    PROVE  BoundsInv'
<1>1. /\ inbound' = inbound \/ (Len(inbound) # QueueSize /\ inbound' = Append(inbound, Head(wire)))
      /\ UNCHANGED <<phase, alive, clock, outbound, deliverer, publisher>>
    BY DEF HandleInboundMessage, Admit, Enqueue, time
<1>2. wire # <<>> /\ wire \in Seq(Requests) /\ inbound \in Seq(Requests)
    BY DEF HandleInboundMessage, OrderIInv, MessageTypes
<1>3. Head(wire) \in Requests
    BY <1>2, HeadTail
<1>4. Len(Append(inbound, Head(wire))) = Len(inbound) + 1 /\ Len(inbound) \in Nat
    BY <1>2, <1>3, AppendProperties, LenProperties
<1>5. Len(inbound') <= QueueSize
    BY <1>1, <1>4, LimitsType DEF BoundsInv
<1> QED
    BY <1>1, <1>5 DEF BoundsInv

LEMMA DeliverBounds ==
    ASSUME OrderIInv, BoundsInv, Deliver
    PROVE  BoundsInv'
<1>1. UNCHANGED <<phase, alive, clock, outbound, publisher>>
    BY DEF Deliver, Dequeue, SendMessage, SendFails, StartRequest, EndDelivery, time
<1>2. /\ inbound \in Seq(Requests) /\ MaxRetries \in Nat \ {0}
      /\ deliverer \in [step : Steps, msg : Requests \cup {NoMessage}, attempts : Nat]
    BY LimitsType DEF OrderIInv, MessageTypes
<1>3. Len(inbound') <= QueueSize
    <2>1. CASE Dequeue
        <3>1. inbound # <<>> /\ inbound' = Tail(inbound)
            BY <2>1 DEF Dequeue
        <3>2. Len(Tail(inbound)) = Len(inbound) - 1 /\ Len(inbound) \in Nat
            BY <1>2, <3>1, HeadTailProperties, LenProperties
        <3> QED
            BY <3>1, <3>2, LimitsType DEF BoundsInv
    <2>2. CASE SendMessage \/ SendFails \/ StartRequest \/ EndDelivery
        BY <2>2 DEF SendMessage, SendFails, StartRequest, EndDelivery, BoundsInv
    <2> QED
        BY <2>1, <2>2 DEF Deliver
<1>4. /\ deliverer.attempts \in 0 .. MaxRetries - 1
      /\ Idle.attempts = 0
    BY DEF BoundsInv, Idle
<1>5. deliverer'.attempts \in {0, deliverer.attempts, deliverer.attempts + 1}
      /\ (deliverer'.attempts = deliverer.attempts + 1 => deliverer.attempts + 1 < MaxRetries)
    <2>1. CASE Dequeue
        BY <1>2, <1>4, <2>1 DEF Dequeue, Idle
    <2>2. CASE SendMessage \/ EndDelivery
        BY <1>2, <1>4, <2>2 DEF SendMessage, EndDelivery
    <2>3. CASE SendFails
        BY <1>2, <1>4, <2>3 DEF SendFails
    <2>4. CASE StartRequest
        BY <1>2, <1>4, <2>4 DEF StartRequest
    <2> QED
        BY <2>1, <2>2, <2>3, <2>4 DEF Deliver
<1>6. deliverer'.attempts \in 0 .. MaxRetries - 1
    BY <1>2, <1>4, <1>5
<1> QED
    BY <1>1, <1>3, <1>6 DEF BoundsInv

LEMMA PublishBounds ==
    ASSUME AnswerTypes, BoundsInv, PublishLoop
    PROVE  BoundsInv'
<1>1. UNCHANGED <<phase, alive, clock, inbound, deliverer>>
    BY DEF PublishLoop, TakeOutbound, RejectOutput, Charge, Publish, PublishFails, EndPublishing, time
<1>2. outbound \in Seq(Answers) /\ publisher \in Publisher /\ MaxRetries \in Nat \ {0}
    BY LimitsType DEF AnswerTypes
<1>3. Len(outbound') <= QueueSize
    <2>1. CASE TakeOutbound
        <3>1. outbound # <<>> /\ outbound' = Tail(outbound)
            BY <2>1 DEF TakeOutbound
        <3>2. Len(Tail(outbound)) = Len(outbound) - 1 /\ Len(outbound) \in Nat
            BY <1>2, <3>1, HeadTailProperties, LenProperties
        <3> QED
            BY <3>1, <3>2, LimitsType DEF BoundsInv
    <2>2. CASE RejectOutput \/ Charge \/ Publish \/ PublishFails \/ EndPublishing
        BY <2>2 DEF RejectOutput, Charge, Publish, PublishFails, EndPublishing, BoundsInv
    <2> QED
        BY <2>1, <2>2 DEF PublishLoop
<1>4. publisher.attempts \in 0 .. MaxRetries - 1 /\ Idle.attempts = 0
    BY DEF BoundsInv, Idle
<1>5. /\ publisher'.attempts \in {0, publisher.attempts, publisher.attempts + 1}
      /\ publisher'.attempts = publisher.attempts + 1 => publisher.attempts + 1 # MaxRetries
    <2>1. CASE TakeOutbound
        BY <1>2, <1>4, <2>1 DEF TakeOutbound, Idle
    <2>2. CASE RejectOutput \/ Publish
        BY <1>2, <1>4, <2>2 DEF RejectOutput, Publish, Withhold
    <2>3. CASE Charge
        BY <1>2, <1>4, <2>3 DEF Charge, Withhold, Publisher
    <2>4. CASE PublishFails
        BY <1>2, <1>4, <2>4 DEF PublishFails, Publisher
    <2>5. CASE EndPublishing
        BY <1>2, <1>4, <2>5 DEF EndPublishing, Publisher
    <2> QED
        BY <2>1, <2>2, <2>3, <2>4, <2>5 DEF PublishLoop
<1>6. publisher'.attempts \in 0 .. MaxRetries - 1
    BY <1>2, <1>4, <1>5
<1> QED
    BY <1>1, <1>3, <1>6 DEF BoundsInv

LEMMA BoundsStep ==
    ASSUME OrderIInv, AnswerTypes, BoundsInv, clock \in Nat, [Next]_vars
    PROVE  BoundsInv'
<1>1. CASE UNCHANGED vars
    BY <1>1 DEF vars, time, BoundsInv
<1>2. CASE HandleInboundMessage
    BY <1>2, InboundBounds
<1>3. CASE Deliver
    BY <1>3, DeliverBounds
<1>4. CASE PublishLoop
    BY <1>4, PublishBounds
<1>5. ASSUME NEW r \in Requests, NEW correlated \in BOOLEAN, PublishAgentMessage(r, correlated)
      PROVE  BoundsInv'
    <2> DEFINE m == [request |-> r, correlated |-> correlated]
    <2>1. /\ outbound' = Append(outbound, m) /\ Len(outbound) < QueueSize
          /\ UNCHANGED <<phase, alive, clock, inbound, deliverer, publisher>>
        BY <1>5 DEF PublishAgentMessage, time
    <2>2. m \in Answers /\ outbound \in Seq(Answers)
        BY DEF Answers, AnswerTypes
    <2> HIDE DEF m
    <2>3. Len(outbound') = Len(outbound) + 1 /\ Len(outbound) \in Nat
        BY <2>1, <2>2, AppendProperties, LenProperties
    <2> QED
        BY <2>1, <2>3, LimitsType DEF BoundsInv
<1>6. ASSUME NEW r \in Requests, Arrive(r) \/ \E heard, ok \in BOOLEAN : Post(r, heard, ok)
      PROVE  BoundsInv'
    BY <1>6 DEF Arrive, Post, time, BoundsInv
<1>7. CASE Cancel \/ AgentExits \/ \E stopped \in BOOLEAN : Stop(stopped)
    BY <1>7 DEF Cancel, AgentExits, Stop, time, BoundsInv
<1>8. CASE \E minute \in BOOLEAN : Tick(minute)
    BY <1>8, LimitsType DEF Tick, BoundsInv
<1> QED
    BY <1>1, <1>2, <1>3, <1>4, <1>5, <1>6, <1>7, <1>8 DEF Next

\* The publisher goes on with the answer it holds or is rid of it.
PublisherGoesOn ==
    /\ UNCHANGED <<answered, outbound>>
    /\ \/ publisher'.step \notin {"holding", "charged"}
       \/ publisher.step \in {"holding", "charged"} /\ publisher'.msg = publisher.msg

LEMMA GoesOn ==
    ASSUME AnswerTypes, RejectOutput \/ Charge \/ Publish \/ PublishFails \/ EndPublishing
    PROVE  PublisherGoesOn
<1>1. UNCHANGED <<answered, outbound>>
    BY DEF RejectOutput, Charge, Publish, PublishFails, EndPublishing
<1>2. publisher \in Publisher
    BY DEF AnswerTypes
<1>3. CASE RejectOutput \/ Publish
    <2>1. publisher' = Idle
        BY <1>3 DEF RejectOutput, Publish, Withhold
    <2>2. publisher'.step = "idle"
        BY <2>1 DEF Idle
    <2> QED
        BY <1>1, <2>2 DEF PublisherGoesOn
<1>4. CASE Charge
    BY <1>1, <1>2, <1>4 DEF Charge, Withhold, Idle, Publisher, PublisherGoesOn
<1>5. CASE PublishFails
    BY <1>1, <1>2, <1>5 DEF PublishFails, Idle, Publisher, PublisherGoesOn
<1>6. CASE EndPublishing
    BY <1>1, <1>2, <1>6 DEF EndPublishing, Publisher, PublisherGoesOn
<1> QED
    BY <1>3, <1>4, <1>5, <1>6

\* TakeOutbound: the answer that is taken is no longer among those that wait.
LEMMA Taken ==
    ASSUME AnswerTypes, ReturningInv, TakeOutbound
    PROVE  /\ publisher'.step = "holding" /\ publisher'.msg \in Range(outbound)
           /\ Range(outbound') \subseteq Range(outbound)
           /\ \A m \in Range(outbound') : m.request # publisher'.msg.request
           /\ \A i, j \in DOMAIN outbound' : outbound'[i].request = outbound'[j].request => i = j
           /\ answered' = answered
<1>1. /\ outbound # <<>> /\ outbound' = Tail(outbound)
      /\ publisher'.step = "holding" /\ publisher'.msg = Head(outbound)
      /\ answered' = answered
    BY DEF TakeOutbound, Idle
<1>2. outbound \in Seq(Answers)
    BY DEF AnswerTypes
<1>3. /\ Len(outbound) \in Nat \ {0} /\ DOMAIN outbound = 1 .. Len(outbound)
      /\ Head(outbound) = outbound[1]
      /\ DOMAIN outbound' = 1 .. Len(outbound) - 1
      /\ \A i \in 1 .. Len(outbound) - 1 : outbound'[i] = outbound[i + 1]
    BY <1>1, <1>2, EmptySeq, HeadTailProperties, LenProperties
<1>4. publisher'.msg \in Range(outbound)
    BY <1>1, <1>3 DEF Range
<1>5. \A i \in DOMAIN outbound' : i + 1 \in DOMAIN outbound /\ i + 1 # 1 /\ outbound'[i] = outbound[i + 1]
    BY <1>3
<1>6. Range(outbound') \subseteq Range(outbound)
    BY <1>5 DEF Range
<1>7. \A i \in DOMAIN outbound' : outbound'[i].request # publisher'.msg.request
    BY <1>1, <1>3, <1>5 DEF ReturningInv
<1>8. \A i, j \in DOMAIN outbound' : outbound'[i].request = outbound'[j].request => i = j
    <2> SUFFICES ASSUME NEW i \in DOMAIN outbound', NEW j \in DOMAIN outbound',
                        outbound'[i].request = outbound'[j].request
                 PROVE  i = j
        OBVIOUS
    <2>1. i + 1 = j + 1
        BY <1>5 DEF ReturningInv
    <2> QED
        BY <1>3, <2>1
<1> QED
    BY <1>1, <1>4, <1>6, <1>7, <1>8 DEF Range

LEMMA AnswerReturning ==
    ASSUME OrderIInv, AnswerTypes, ReturningInv, NEW r \in Requests, NEW correlated \in BOOLEAN,
           PublishAgentMessage(r, correlated)
    PROVE  ReturningInv'
<1> DEFINE m == [request |-> r, correlated |-> correlated]
<1>1. /\ r \notin answered /\ answered' = answered \cup {r}
      /\ outbound' = Append(outbound, m) /\ publisher' = publisher
    BY DEF PublishAgentMessage
<1>2. m \in Answers /\ m.request = r /\ outbound \in Seq(Answers)
    BY DEF Answers, AnswerTypes
<1> HIDE DEF m
<1>3. Range(outbound') = Range(outbound) \cup {m}
    BY <1>1, <1>2, AppendRange
<1>4. /\ DOMAIN outbound = 1 .. Len(outbound) /\ Len(outbound) \in Nat
      /\ DOMAIN outbound' = 1 .. Len(outbound) + 1
      /\ \A i \in 1 .. Len(outbound) : outbound'[i] = outbound[i]
      /\ outbound'[Len(outbound) + 1] = m
    BY <1>1, <1>2, AppendProperties, LenProperties
<1>5. \A i \in DOMAIN outbound : outbound[i].request \in answered
    BY DEF ReturningInv, Range
<1>6. \A i, j \in DOMAIN outbound' : outbound'[i].request = outbound'[j].request => i = j
    <2> SUFFICES ASSUME NEW i \in 1 .. Len(outbound) + 1, NEW j \in 1 .. Len(outbound) + 1,
                        outbound'[i].request = outbound'[j].request
                 PROVE  i = j
        BY <1>4
    <2>1. CASE i \in 1 .. Len(outbound) /\ j \in 1 .. Len(outbound)
        BY <1>4, <2>1 DEF ReturningInv
    <2>2. CASE i = Len(outbound) + 1 /\ j \in 1 .. Len(outbound)
        BY <1>1, <1>2, <1>4, <1>5, <2>2
    <2>3. CASE j = Len(outbound) + 1 /\ i \in 1 .. Len(outbound)
        BY <1>1, <1>2, <1>4, <1>5, <2>3
    <2> QED
        BY <1>4, <2>1, <2>2, <2>3
<1> QED
    BY <1>1, <1>2, <1>3, <1>6 DEF ReturningInv

LEMMA ReturningStep ==
    ASSUME OrderIInv, AnswerTypes, ReturningInv, [Next]_vars
    PROVE  ReturningInv'
<1>1. ASSUME UNCHANGED <<answered, outbound, publisher>> PROVE ReturningInv'
    BY <1>1 DEF ReturningInv
<1>2. CASE TakeOutbound
    BY <1>2, Taken DEF ReturningInv
<1>3. CASE RejectOutput \/ Charge \/ Publish \/ PublishFails \/ EndPublishing
    BY <1>3, GoesOn DEF PublisherGoesOn, ReturningInv
<1>4. ASSUME NEW r \in Requests, NEW correlated \in BOOLEAN, PublishAgentMessage(r, correlated)
      PROVE  ReturningInv'
    BY <1>4, AnswerReturning
<1>5. CASE UNCHANGED vars
    BY <1>1, <1>5 DEF vars
<1>6. CASE HandleInboundMessage
    BY <1>1, <1>6 DEF HandleInboundMessage
<1>7. CASE Deliver
    BY <1>1, <1>7 DEF Deliver, Dequeue, SendMessage, SendFails, StartRequest, EndDelivery
<1>8. ASSUME NEW r \in Requests, Arrive(r) \/ \E heard, ok \in BOOLEAN : Post(r, heard, ok)
      PROVE  ReturningInv'
    BY <1>1, <1>8 DEF Arrive, Post
<1>9. CASE \/ Cancel \/ AgentExits \/ \E stopped \in BOOLEAN : Stop(stopped)
           \/ \E minute \in BOOLEAN : Tick(minute)
    BY <1>1, <1>9 DEF Cancel, AgentExits, Stop, Tick
<1> QED
    BY <1>2, <1>3, <1>4, <1>5, <1>6, <1>7, <1>8, <1>9 DEF Next, PublishLoop

--------------------------------------------------------------------------------
(* What a step does to the events.                                         *)

PostsOK ==
    /\ hiveCache \in {"unset", SessionHive, NoHive}
    /\ event \in [Requests -> Posts] /\ \A r \in Requests : PostCounted(event[r])

\* A webhook is fired about r only.
LEMMA Fired ==
    ASSUME PostsOK, NEW r \in Requests, Unheard(r), FireWebhook(r)
    PROVE  /\ PostsOK'
           /\ \A q \in Requests : q # r => event'[q] = event[q]
<1>1. hiveCache' \in {"unset", SessionHive, NoHive}
    BY DEF FireWebhook, HiveNames, PostsOK
<1>2. event' = event \/ event' = [event EXCEPT ![r].step = "sending"]
    BY DEF FireWebhook, SendEvent
<1>3. event[r] = [step |-> "none", attempts |-> 0, heard |-> 0]
    BY DEF Unheard, NoEvent
<1>4. CASE event' = event
    BY <1>1, <1>4 DEF PostsOK
<1>5. CASE event' = [event EXCEPT ![r].step = "sending"]
    <2> DEFINE e == [step |-> "sending", attempts |-> 0, heard |-> 0]
    <2>1. event' = [event EXCEPT ![r] = e]
        <3>1. [event[r] EXCEPT !.step = "sending"] = e
            BY <1>3
        <3>2. event' = [event EXCEPT ![r] = [event[r] EXCEPT !.step = "sending"]]
            BY <1>5
        <3> HIDE DEF e
        <3> QED
            BY <3>1, <3>2
    <2>2. e \in Posts /\ PostCounted(e)
        BY LimitsType DEF Posts, PostCounted
    <2> HIDE DEF e
    <2>3. event' \in [Requests -> Posts] /\ event'[r] = e /\ \A q \in Requests : q # r => event'[q] = event[q]
        BY <2>1, <2>2 DEF PostsOK
    <2>4. \A q \in Requests : PostCounted(event'[q])
        BY <2>2, <2>3 DEF PostsOK
    <2> QED
        BY <1>1, <2>3, <2>4 DEF PostsOK
<1> QED
    BY <1>2, <1>4, <1>5

LEMMA Posted ==
    ASSUME PostsOK, NEW r \in Requests, NEW heard \in BOOLEAN, NEW ok \in BOOLEAN, Post(r, heard, ok)
    PROVE  /\ PostsOK' /\ ~Unheard(r)
           /\ \A q \in Requests : q # r => event'[q] = event[q]
<1> DEFINE old == event[r]
           n == old.attempts + 1
           new == [step |-> IF ok THEN "sent" ELSE IF n = MaxPosts THEN "failed" ELSE "sending",
                   attempts |-> n,
                   heard |-> IF heard THEN old.heard + 1 ELSE old.heard]
<1>1. /\ old.step = "sending" /\ hiveCache' = hiveCache
      /\ event' = [event EXCEPT ![r] = new]
    BY DEF Post, PostsOK
<1>2. /\ old.attempts \in Nat /\ old.heard \in Nat
      /\ old.heard <= old.attempts /\ old.attempts < MaxPosts
    BY <1>1 DEF PostsOK, Posts, PostCounted
<1>3. new \in Posts /\ PostCounted(new)
    BY <1>2, LimitsType DEF Posts, PostCounted
<1>4. ~Unheard(r)
    BY <1>1 DEF Unheard, NoEvent
<1> HIDE DEF new
<1>5. event' \in [Requests -> Posts] /\ event'[r] = new /\ \A q \in Requests : q # r => event'[q] = event[q]
    BY <1>1, <1>3 DEF PostsOK
<1>6. \A q \in Requests : PostCounted(event'[q])
    BY <1>3, <1>5 DEF PostsOK
<1> QED
    BY <1>1, <1>4, <1>5, <1>6 DEF PostsOK

LEMMA InboundWebhook ==
    ASSUME TrackIInv, ReturningInv, WebhookInv, HandleInboundMessage
    PROVE  WebhookInv'
<1> DEFINE r == Head(wire)
<1>1. /\ wire # <<>> /\ wire' = Tail(wire) /\ wire \in Seq(Requests) /\ accepted \in Seq(Requests)
      /\ IsInjective(wire) /\ Range(wire) \cap Range(accepted) = {}
      /\ UNCHANGED <<answered, outbound, publisher>>
    BY DEF HandleInboundMessage, TrackIInv, OrderIInv, MessageTypes, Once
<1>2. /\ r \in Requests /\ r \in Range(wire) /\ r \notin Range(wire')
      /\ Range(wire') \subseteq Range(wire)
    <2>1. /\ Head(wire) \in Requests /\ Range(wire) = Range(Tail(wire)) \cup {Head(wire)}
          /\ Head(wire) \notin Range(Tail(wire))
        BY <1>1, HeadTail
    <2> HIDE DEF r
    <2>2. r = Head(wire) /\ wire' = Tail(wire)
        BY <1>1 DEF r
    <2> QED
        BY <2>1, <2>2
<1>3. Unheard(r) /\ r \notin Range(accepted)
    BY <1>1, <1>2 DEF WebhookInv
<1>4. PostsOK
    BY DEF WebhookInv, PostsOK
<1> HIDE DEF r
<1>5. CASE UNCHANGED hooks /\ accepted' \in {accepted, Append(accepted, r)}
    <2>1. Range(accepted') \subseteq Range(accepted) \cup {r}
        <3>1. Range(Append(accepted, r)) = Range(accepted) \cup {r}
            BY <1>1, <1>2, AppendRange
        <3> QED
            BY <1>5, <3>1
    <2>2. UNCHANGED <<hiveCache, event>>
        BY <1>5 DEF hooks
    <2> QED
        BY <1>1, <1>2, <1>3, <2>1, <2>2 DEF WebhookInv, Unheard
<1>6. CASE FireWebhook(r) /\ accepted' = accepted
    <2>1. PostsOK' /\ \A q \in Requests : q # r => event'[q] = event[q]
        BY <1>2, <1>3, <1>4, <1>6, Fired
    <2>2. Range(wire) \subseteq Requests /\ Range(accepted) \subseteq Requests
        BY <1>1, RangeOfSeq
    <2>3. Received \subseteq Range(accepted)
        BY ReceivedAccepted DEF TrackIInv
    <2>4. /\ \A m \in Range(outbound) : m.request \in Range(accepted)
          /\ publisher.step \in {"holding", "charged"} => publisher.msg.request \in Range(accepted)
        BY <2>3 DEF TrackIInv, AnswersReceived
    <2>5. \A q \in Range(accepted) \cup Range(wire') : event'[q] = event[q]
        BY <1>2, <1>3, <2>1, <2>2
    <2> QED
        BY <1>1, <1>2, <1>6, <2>1, <2>4, <2>5 DEF WebhookInv, PostsOK, Unheard
<1>7. \/ UNCHANGED hooks /\ accepted' \in {accepted, Append(accepted, r)}
      \/ FireWebhook(r) /\ accepted' = accepted
    BY DEF HandleInboundMessage, Admit, Enqueue, r
<1> QED
    BY <1>5, <1>6, <1>7

LEMMA PublishWebhook ==
    ASSUME TrackIInv, ReturningInv, WebhookInv, PublishLoop
    PROVE  WebhookInv'
<1>1. UNCHANGED <<wire, accepted>> /\ AnswerTypes
    BY DEF PublishLoop, TakeOutbound, RejectOutput, Charge, Publish, PublishFails, EndPublishing, bus,
           history, TrackIInv
<1>2. PostsOK
    BY DEF WebhookInv, PostsOK
<1>3. CASE TakeOutbound
    <2>1. UNCHANGED <<hiveCache, event>>
        BY <1>3 DEF TakeOutbound, hooks
    <2> QED
        BY <1>1, <1>3, <2>1, Taken DEF WebhookInv, Unheard
<1>4. ASSUME UNCHANGED hooks, PublisherGoesOn PROVE WebhookInv'
    BY <1>1, <1>4 DEF hooks, PublisherGoesOn, WebhookInv, Unheard
<1>5. ASSUME PublisherGoesOn, publisher.step = "holding", Withhold PROVE WebhookInv'
    <2> DEFINE r == publisher.msg.request
    <2>1. r \in Requests /\ r \in answered /\ Unheard(r) /\ \A m \in Range(outbound) : m.request # r
        BY <1>1, <1>5 DEF AnswerTypes, Answers, ReturningInv, WebhookInv
    <2>2. publisher' = Idle /\ FireWebhook(r)
        BY <1>5 DEF Withhold
    <2> HIDE DEF r
    <2>3. PostsOK' /\ \A q \in Requests : q # r => event'[q] = event[q]
        BY <1>2, <2>1, <2>2, Fired
    <2>4. /\ Range(wire) \subseteq Requests /\ Range(accepted) \subseteq Requests
          /\ Range(outbound) \subseteq Answers
        BY <1>1, RangeOfSeq DEF TrackIInv, OrderIInv, MessageTypes, AnswerTypes
    <2>5. r \in Range(accepted) /\ Range(wire) \cap Range(accepted) = {}
        <3>1. r \in Received
            BY <1>5 DEF TrackIInv, AnswersReceived, r
        <3> QED
            BY <3>1, ReceivedAccepted DEF TrackIInv, OrderIInv, Once
    <2>6. \A q \in Range(wire) \cup (Range(accepted) \ answered) : q # r /\ q \in Requests
        BY <2>1, <2>4, <2>5
    <2>7. \A m \in Range(outbound) : m.request # r /\ m.request \in Requests
        BY <2>1, <2>4 DEF Answers
    <2>8. publisher'.step = "idle"
        BY <2>2 DEF Idle
    <2>9. UNCHANGED <<answered, outbound>>
        BY <1>5 DEF PublisherGoesOn
    <2> QED
        BY <1>1, <2>3, <2>6, <2>7, <2>8, <2>9 DEF WebhookInv, PostsOK, Unheard
<1>6. CASE RejectOutput \/ Charge \/ Publish \/ PublishFails \/ EndPublishing
    <2>1. PublisherGoesOn
        BY <1>1, <1>6, GoesOn
    <2>2. UNCHANGED hooks \/ (publisher.step = "holding" /\ Withhold)
        BY <1>6 DEF RejectOutput, Charge, Publish, PublishFails, EndPublishing
    <2> QED
        BY <1>4, <1>5, <2>1, <2>2
<1> QED
    BY <1>3, <1>6 DEF PublishLoop

LEMMA WebhookStep ==
    ASSUME TrackIInv, ReturningInv, WebhookInv, [Next]_vars
    PROVE  WebhookInv'
<1>1. PostsOK
    BY DEF WebhookInv, PostsOK
<1>2. ASSUME UNCHANGED <<hooks, wire, accepted, answered, outbound, publisher>> PROVE WebhookInv'
    BY <1>2 DEF hooks, WebhookInv, Unheard
<1>3. CASE HandleInboundMessage
    BY <1>3, InboundWebhook
<1>4. CASE PublishLoop
    BY <1>4, PublishWebhook
<1>5. ASSUME NEW r \in Requests, Arrive(r) PROVE WebhookInv'
    <2>1. /\ event[r] = NoEvent /\ wire' = Append(wire, r) /\ wire \in Seq(Requests)
          /\ UNCHANGED <<hooks, accepted, answered, outbound, publisher>>
        BY <1>5 DEF Arrive, history, TrackIInv, OrderIInv, MessageTypes
    <2>2. Range(wire') = Range(wire) \cup {r}
        BY <2>1, AppendRange
    <2> QED
        BY <2>1, <2>2 DEF hooks, WebhookInv, Unheard
<1>6. ASSUME NEW r \in Requests, NEW correlated \in BOOLEAN, PublishAgentMessage(r, correlated)
      PROVE  WebhookInv'
    <2> DEFINE m == [request |-> r, correlated |-> correlated]
    <2>1. /\ r \in Received \ answered /\ answered' = answered \cup {r}
          /\ outbound' = Append(outbound, m)
          /\ UNCHANGED <<hooks, wire, accepted, publisher>>
        BY <1>6 DEF PublishAgentMessage, bus, history
    <2>2. m \in Answers /\ m.request = r /\ outbound \in Seq(Answers)
        BY DEF Answers, AnswerTypes, TrackIInv
    <2> HIDE DEF m
    <2>3. Range(outbound') = Range(outbound) \cup {m}
        BY <2>1, <2>2, AppendRange
    <2>4. Unheard(r)
        BY <2>1, ReceivedAccepted DEF TrackIInv, WebhookInv
    <2> QED
        BY <2>1, <2>2, <2>3, <2>4 DEF hooks, WebhookInv, Unheard
<1>7. ASSUME NEW r \in Requests, NEW heard \in BOOLEAN, NEW ok \in BOOLEAN, Post(r, heard, ok)
      PROVE  WebhookInv'
    <2>1. /\ PostsOK' /\ ~Unheard(r)
          /\ \A q \in Requests : q # r => event'[q] = event[q]
        BY <1>1, <1>7, Posted
    <2>2. UNCHANGED <<wire, accepted, answered, outbound, publisher>>
        BY <1>7 DEF Post, bus, history
    <2>3. \A q \in Requests : Unheard(q) => event'[q] = NoEvent
        BY <2>1 DEF Unheard
    <2>4. /\ Range(wire) \subseteq Requests /\ Range(accepted) \subseteq Requests
          /\ Range(outbound) \subseteq Answers
        BY RangeOfSeq DEF TrackIInv, OrderIInv, MessageTypes, AnswerTypes
    <2>5. \A q \in Range(wire) \cup (Range(accepted) \ answered) : event'[q] = NoEvent
        BY <2>3, <2>4 DEF WebhookInv
    <2>6. \A m \in Range(outbound) : event'[m.request] = NoEvent
        BY <2>3, <2>4 DEF WebhookInv, Answers
    <2>7. publisher.step \in {"holding", "charged"} => event'[publisher.msg.request] = NoEvent
        BY <2>3 DEF WebhookInv, TrackIInv, AnswerTypes, Answers
    <2> QED
        BY <2>1, <2>2, <2>5, <2>6, <2>7 DEF WebhookInv, PostsOK, Unheard
<1>8. CASE UNCHANGED vars
    BY <1>2, <1>8 DEF vars, bus, history
<1>9. CASE Deliver
    BY <1>2, <1>9 DEF Deliver, Dequeue, SendMessage, SendFails, StartRequest, EndDelivery, bus, history
<1>10. CASE \/ Cancel \/ AgentExits \/ \E stopped \in BOOLEAN : Stop(stopped)
            \/ \E minute \in BOOLEAN : Tick(minute)
    BY <1>2, <1>10 DEF Cancel, AgentExits, Stop, Tick, bus, history
<1> QED
    BY <1>3, <1>4, <1>5, <1>6, <1>7, <1>8, <1>9, <1>10 DEF Next

LEMMA TypeStep == TypeIInv /\ [Next]_vars => TypeIInv'
<1> SUFFICES ASSUME TypeIInv, [Next]_vars PROVE TypeIInv'
    OBVIOUS
<1>1. /\ RateIInv /\ TrackIInv /\ BudgetIInv /\ BoundsInv /\ ReturningInv /\ WebhookInv
      /\ OrderIInv /\ AnswerTypes /\ clock \in Nat
    BY DEF TypeIInv, TrackIInv, RateIInv
<1>2. RateIInv' /\ TrackIInv' /\ BudgetIInv'
    BY <1>1, RateStep, TrackStep, BudgetStep
<1>3. BoundsInv' /\ ReturningInv' /\ WebhookInv'
    BY <1>1, BoundsStep, ReturningStep, WebhookStep
<1> QED
    BY <1>2, <1>3 DEF TypeIInv

(***************************************************************************)
(* The variables of the relay keep their types: neither queue outgrows its *)
(* capacity, no message is tried more often than it may be, and no webhook *)
(* is posted more often than MaxRetries of its client, whatever fails and  *)
(* whenever the relay is stopped (relay.go; webhooks.go: Send).            *)
(***************************************************************************)
THEOREM RelayTypeCorrect == Spec => []TypeOK
<1>1. TypeIInv => TypeOK
    <2> SUFFICES ASSUME TypeIInv PROVE TypeOK
        OBVIOUS
    <2>1. /\ wire \in Seq(Requests) /\ inbound \in Seq(Requests) /\ outbound \in Seq(Answers)
          /\ accepted \in Seq(Requests) /\ tracked \subseteq Received
          /\ deliverer \in [step : Steps, msg : Requests \cup {NoMessage}, attempts : Nat]
          /\ publisher \in Publisher
        BY DEF TypeIInv, TrackIInv, OrderIInv, MessageTypes, AnswerTypes, TrackedReceived
    <2>2. tracked \subseteq Requests
        <3>1. Received \subseteq Range(accepted) /\ Range(accepted) \subseteq Requests
            BY <2>1, ReceivedAccepted, RangeOfSeq DEF TypeIInv, TrackIInv
        <3> QED
            BY <2>1, <3>1
    <2>3. limiter \in [tokens : 0 .. BurstSize, since : 0 .. Ticks]
        <3>1. /\ limiter \in Buckets /\ clock \in Nat /\ clock <= Ticks
              /\ Earned(limiter, clock, admitted)
            BY DEF TypeIInv, RateIInv, BoundsInv
        <3>2. PICK n \in Nat : n * TicksPerSecond + limiter.since <= clock
            BY <3>1 DEF Earned
        <3>3. n * TicksPerSecond \in Nat
            BY RateAssumption
        <3>4. limiter.since \in Nat /\ limiter.tokens \in 0 .. BurstSize
              /\ limiter = [tokens |-> limiter.tokens, since |-> limiter.since]
            BY <3>1 DEF Buckets
        <3>5. limiter.since \in 0 .. Ticks
            BY <3>1, <3>2, <3>3, <3>4, LimitsType
        <3> QED
            BY <3>4, <3>5
    <2>4. tracker.session \in Nat /\ tracker.minute \in Nat /\ tracker.turned \in BOOLEAN
        BY DEF TypeIInv, BudgetIInv, Trackers
    <2>5. deliverer \in Workers({"idle", "holding", "sent", "ended"}, Requests)
        BY <2>1 DEF TypeIInv, BoundsInv, Workers, Steps
    <2>6. publisher \in Workers({"idle", "holding", "charged", "ended"}, Answers)
        BY <2>1 DEF TypeIInv, BoundsInv, Workers, Publisher
    <2>7. /\ phase \in {"running", "cancelled", "stopped"} /\ alive \in BOOLEAN
          /\ Len(inbound) <= QueueSize /\ Len(outbound) <= QueueSize
          /\ answered \subseteq Requests
          /\ hiveCache \in {"unset", SessionHive, NoHive}
        BY DEF TypeIInv, BoundsInv, ReturningInv, WebhookInv
    <2>8. event \in [Requests -> Posts]
        BY DEF TypeIInv, WebhookInv
    <2> QED
        BY <2>1, <2>2, <2>3, <2>4, <2>5, <2>6, <2>7, <2>8 DEF TypeOK, Posts
<1> QED
    BY <1>1, TypeInit, TypeStep, PTL DEF Spec

--------------------------------------------------------------------------------
(***************************************************************************)
(* KeeperCache. First, what taking an element out of a sequence without    *)
(* repetition leaves of it.                                                *)
(***************************************************************************)

\* The first place of an element that has one place is that place.
LEMMA OnlyPlace ==
    ASSUME NEW S, NEW s \in Seq(S), IsInjective(s), NEW e, NEW i \in 1 .. Len(s), s[i] = e
    PROVE  RemoveFirst(s, e) = RemoveAt(s, i)
<1>1. {j \in 1 .. Len(s) : s[j] = e} = {i}
    BY DEF IsInjective
<1>2. Min({i}) = i
    BY DEF Min
<1>3. \E j \in 1 .. Len(s) : s[j] = e
    OBVIOUS
<1> QED
    BY <1>1, <1>2, <1>3 DEF RemoveFirst, SelectInSeq

LEMMA RemoveAtProperties ==
    ASSUME NEW S, NEW s \in Seq(S), NEW i \in 1 .. Len(s)
    PROVE  /\ RemoveAt(s, i) \in Seq(S)
           /\ Len(RemoveAt(s, i)) = Len(s) - 1
           /\ \A j \in 1 .. Len(s) - 1 :
                 RemoveAt(s, i)[j] = IF j < i THEN s[j] ELSE s[j + 1]
<1> DEFINE front == SubSeq(s, 1, i - 1)
           back == SubSeq(s, i + 1, Len(s))
<1>1. /\ front \in Seq(S) /\ Len(front) = i - 1
      /\ \A j \in 1 .. i - 1 : front[j] = s[j]
    BY SubSeqProperties
<1>2. /\ back \in Seq(S) /\ Len(back) = Len(s) - i
      /\ \A j \in 1 .. Len(s) - i : back[j] = s[i + j]
    BY SubSeqProperties
<1> HIDE DEF front, back
<1>3. /\ front \o back \in Seq(S)
      /\ Len(front \o back) = Len(front) + Len(back)
      /\ \A j \in 1 .. Len(front) + Len(back) :
            (front \o back)[j] = IF j <= Len(front) THEN front[j] ELSE back[j - Len(front)]
    BY <1>1, <1>2, ConcatProperties
<1>4. RemoveAt(s, i) = front \o back
    BY DEF RemoveAt, front, back
<1>5. \A j \in 1 .. Len(s) - 1 : (front \o back)[j] = IF j < i THEN s[j] ELSE s[j + 1]
    <2> SUFFICES ASSUME NEW j \in 1 .. Len(s) - 1
                 PROVE  (front \o back)[j] = IF j < i THEN s[j] ELSE s[j + 1]
        OBVIOUS
    <2>1. CASE j < i
        BY <1>1, <1>2, <1>3, <2>1
    <2>2. CASE j >= i
        <3>1. (front \o back)[j] = back[j - (i - 1)]
            BY <1>1, <1>2, <1>3, <2>2
        <3>2. j - (i - 1) \in 1 .. Len(s) - i
            BY <2>2
        <3> QED
            BY <1>2, <2>2, <3>1, <3>2
    <2>3. j < i \/ j >= i
        <3>1. Len(s) \in Nat
            BY LenProperties
        <3> QED
            BY <3>1
    <2> QED
        BY <2>1, <2>2, <2>3, Zenon
<1>6. front \o back \in Seq(S) /\ Len(front \o back) = Len(s) - 1
    BY <1>1, <1>2, <1>3, LenProperties
<1> QED
    BY <1>4, <1>5, <1>6

\* What a sequence looks like that lacks the i-th element of another.
LEMMA OneLess ==
    ASSUME NEW S, NEW s \in Seq(S), NEW t \in Seq(S), IsInjective(s), NEW i \in 1 .. Len(s),
           Len(t) = Len(s) - 1,
           \A j \in 1 .. Len(s) - 1 : t[j] = IF j < i THEN s[j] ELSE s[j + 1]
    PROVE  IsInjective(t) /\ Range(t) = Range(s) \ {s[i]}
<1>1. /\ DOMAIN s = 1 .. Len(s) /\ DOMAIN t = 1 .. Len(s) - 1
      /\ Len(s) \in Nat
    BY LenProperties
<1>2. \A j, k \in 1 .. Len(s) : s[j] = s[k] => j = k
    BY <1>1 DEF IsInjective
<1> DEFINE place(j) == IF j < i THEN j ELSE j + 1
<1>3. \A j \in 1 .. Len(s) - 1 : place(j) \in 1 .. Len(s) /\ place(j) # i /\ t[j] = s[place(j)]
    BY <1>1
<1>4. \A j, k \in 1 .. Len(s) - 1 : place(j) = place(k) => j = k
    BY <1>1
<1> HIDE DEF place
<1>5. ASSUME NEW j \in 1 .. Len(s) - 1, NEW k \in 1 .. Len(s) - 1, t[j] = t[k]
      PROVE  j = k
    <2>1. place(j) = place(k)
        BY <1>2, <1>5, <1>3
    <2> QED
        BY <1>4, <2>1
<1>6. ASSUME NEW j \in 1 .. Len(s) - 1
      PROVE  t[j] \in Range(s) \ {s[i]}
    <2>1. s[place(j)] \in Range(s) /\ s[place(j)] # s[i]
        BY <1>1, <1>2, <1>3 DEF Range
    <2> QED
        BY <1>3, <2>1
<1>7. ASSUME NEW j \in 1 .. Len(s), j # i
      PROVE  s[j] \in Range(t)
    <2>1. CASE j < i
        BY <1>1, <2>1 DEF Range
    <2>2. CASE j > i
        <3>1. j - 1 \in 1 .. Len(s) - 1 /\ t[j - 1] = s[j]
            BY <2>2
        <3> QED
            BY <1>1, <3>1 DEF Range
    <2> QED
        BY <1>7, <2>1, <2>2
<1>8. IsInjective(t)
    BY <1>1, <1>5 DEF IsInjective
<1>9. Range(t) \subseteq Range(s) \ {s[i]}
    BY <1>1, <1>6 DEF Range
<1>10. Range(s) \ {s[i]} \subseteq Range(t)
    BY <1>1, <1>7 DEF Range
<1> QED
    BY <1>8, <1>9, <1>10

LEMMA RemoveFirstProperties ==
    ASSUME NEW S, NEW s \in Seq(S), IsInjective(s), NEW e
    PROVE  /\ RemoveFirst(s, e) \in Seq(S)
           /\ IsInjective(RemoveFirst(s, e))
           /\ Range(RemoveFirst(s, e)) = Range(s) \ {e}
           /\ Len(RemoveFirst(s, e)) <= Len(s)
<1>1. CASE \A i \in 1 .. Len(s) : s[i] # e
    <2>1. RemoveFirst(s, e) = s
        BY <1>1 DEF RemoveFirst
    <2>2. e \notin Range(s)
        BY <1>1, LenProperties DEF Range
    <2> QED
        BY <2>1, <2>2
<1>2. ASSUME NEW i \in 1 .. Len(s), s[i] = e
      PROVE  /\ RemoveFirst(s, e) \in Seq(S)
             /\ IsInjective(RemoveFirst(s, e))
             /\ Range(RemoveFirst(s, e)) = Range(s) \ {e}
             /\ Len(RemoveFirst(s, e)) <= Len(s)
    <2>1. RemoveFirst(s, e) = RemoveAt(s, i)
        BY <1>2, OnlyPlace
    <2>2. RemoveAt(s, i) \in Seq(S) /\ Len(RemoveAt(s, i)) = Len(s) - 1
        BY RemoveAtProperties
    <2>3. IsInjective(RemoveAt(s, i)) /\ Range(RemoveAt(s, i)) = Range(s) \ {s[i]}
        BY RemoveAtProperties, OneLess
    <2> QED
        BY <1>2, <2>1, <2>2, <2>3
<1> QED
    BY <1>1, <1>2

--------------------------------------------------------------------------------
(* What the requests hold, and that no session means no values: Comb's     *)
(* "session not found" leaves nothing that a cached value could miss.      *)
Holding ==
    \A c \in Clients :
        /\ ~At(c, "none") => request[c].key \in Keys
        /\ At(c, "writing") \/ At(c, "filling") => request[c].value \in Values

EmptySession == ~session => \A k \in Keys : stored[k] = Absent

IInv ==
    /\ CacheTypeOK
    /\ Holding
    /\ EmptySession
    /\ IsFiniteSet(Cached)
    /\ EvictionFrees
    /\ StaleForAReason

\* What EvictionFrees and the types say of the cache alone.
CacheOK ==
    /\ data \in [Keys -> Values \cup {Absent}]
    /\ insertOrder \in Seq(Keys)
    /\ expired \subseteq Cached
    /\ IsFiniteSet(Cached)
    /\ EvictionFrees

--------------------------------------------------------------------------------
(* combCache.                                                              *)

LEMMA ForgottenKeeps ==
    ASSUME CacheOK, NEW k \in Keys, Forgotten(k)
    PROVE  /\ CacheOK'
           /\ Cached' = Cached \ {k}
           /\ \A x \in Cached' : data'[x] = data[x]
<1>1. /\ data' \in [Keys -> Values \cup {Absent}]
      /\ \A x \in Keys : data'[x] = IF x = k THEN Absent ELSE data[x]
    BY DEF CacheOK, Forgotten
<1>2. Cached' = Cached \ {k}
    BY <1>1 DEF Cached
<1>3. expired' \subseteq Cached'
    BY <1>2 DEF CacheOK, Forgotten
<1>4. IsFiniteSet(Cached') /\ Cardinality(Cached') <= Cardinality(Cached)
    <2>1. IsFiniteSet(Cached)
        BY DEF CacheOK
    <2>2. Cardinality(Cached) \in Nat
        BY <2>1, FS_CardinalityType
    <2>3. /\ IsFiniteSet(Cached \ {k})
          /\ Cardinality(Cached \ {k}) \in {Cardinality(Cached), Cardinality(Cached) - 1}
        BY <2>1, FS_RemoveElement
    <2> QED
        BY <1>2, <2>2, <2>3
<1>5. /\ insertOrder' \in Seq(Keys) /\ IsInjective(insertOrder')
      /\ Range(insertOrder') = Range(insertOrder) \ {k}
      /\ Len(insertOrder') <= Len(insertOrder)
    BY RemoveFirstProperties DEF CacheOK, EvictionFrees, Forgotten
<1>6. Range(insertOrder') \subseteq Cached'
    BY <1>2, <1>5 DEF CacheOK, EvictionFrees
<1>7. Cardinality(Cached') > MaxSize => Len(insertOrder') <= 1
    BY <1>4, <1>5, FS_CardinalityType, SizeAssumption DEF CacheOK, EvictionFrees
<1> QED
    BY <1>1, <1>2, <1>3, <1>4, <1>5, <1>6, <1>7 DEF CacheOK, EvictionFrees, Cached

LEMMA RenewKeeps ==
    ASSUME CacheOK, NEW k \in Keys, NEW v \in Values, Renew(k, v)
    PROVE  /\ CacheOK'
           /\ Cached' = Cached
           /\ \A x \in Cached' : data'[x] = IF x = k THEN v ELSE data[x]
<1>1. /\ data' \in [Keys -> Values \cup {Absent}]
      /\ \A x \in Keys : data'[x] = IF x = k THEN v ELSE data[x]
    BY DEF CacheOK, Renew
<1>2. Cached' = Cached
    BY <1>1, MarkersAssumption DEF Cached, Renew
<1>3. /\ insertOrder' \in Seq(Keys) /\ IsInjective(insertOrder')
      /\ Range(insertOrder') \subseteq Range(insertOrder)
      /\ Len(insertOrder') <= Len(insertOrder)
    BY RemoveFirstProperties DEF CacheOK, EvictionFrees, Renew
<1>4. expired' \subseteq Cached'
    BY <1>2 DEF CacheOK, Renew
<1>5. Cardinality(Cached') > MaxSize => Len(insertOrder') <= 1
    BY <1>2, <1>3, FS_CardinalityType, SizeAssumption DEF CacheOK, EvictionFrees
<1> QED
    BY <1>1, <1>2, <1>3, <1>4, <1>5 DEF CacheOK, EvictionFrees, Cached

\* A full cache with something in order stays as large; one with nothing in
\* order grows, and then has one key in order.
LEMMA InsertKeeps ==
    ASSUME CacheOK, NEW k \in Keys, NEW v \in Values, Insert(k, v)
    PROVE  /\ CacheOK'
           /\ Cached' \subseteq Cached \cup {k}
           /\ \A x \in Cached' : data'[x] = IF x = k THEN v ELSE data[x]
<1> DEFINE full == Cardinality(Cached) >= MaxSize /\ insertOrder # <<>>
           oldest == IF full THEN {Head(insertOrder)} ELSE {}
           rest == IF full THEN Tail(insertOrder) ELSE insertOrder
<1>1. /\ k \notin Cached
      /\ data' = [x \in Keys |-> IF x = k THEN v ELSE IF x \in oldest THEN Absent ELSE data[x]]
      /\ insertOrder' = Append(rest, k)
      /\ expired' = expired \ oldest
    BY DEF Insert
<1>2. /\ oldest \subseteq Cached
      /\ rest \in Seq(Keys) /\ IsInjective(rest)
      /\ Range(rest) \subseteq Cached \ oldest
      /\ Len(rest) = IF full THEN Len(insertOrder) - 1 ELSE Len(insertOrder)
    <2>1. CASE full
        <3>1. /\ DOMAIN insertOrder = 1 .. Len(insertOrder) /\ Len(insertOrder) \in Nat \ {0}
              /\ insertOrder \in Seq(Keys)
            BY <2>1, LenProperties, EmptySeq DEF CacheOK
        <3>2. /\ rest \in Seq(Keys) /\ Len(rest) = Len(insertOrder) - 1
              /\ DOMAIN rest = 1 .. Len(insertOrder) - 1
              /\ \A i \in 1 .. Len(insertOrder) - 1 : rest[i] = insertOrder[i + 1]
            BY <2>1, <3>1, HeadTailProperties, LenProperties
        <3>3. /\ Head(insertOrder) = insertOrder[1]
              /\ insertOrder[1] \in Range(insertOrder)
            BY <3>1 DEF Range
        <3>4. \A i, j \in 1 .. Len(insertOrder) : insertOrder[i] = insertOrder[j] => i = j
            BY <3>1 DEF IsInjective, CacheOK, EvictionFrees
        <3> HIDE DEF rest
        <3>5. IsInjective(rest)
            <4> SUFFICES ASSUME NEW i \in 1 .. Len(insertOrder) - 1,
                                NEW j \in 1 .. Len(insertOrder) - 1, rest[i] = rest[j]
                         PROVE  i = j
                BY <3>2 DEF IsInjective
            <4>1. insertOrder[i + 1] = insertOrder[j + 1]
                BY <3>2
            <4> QED
                BY <3>1, <3>4, <4>1
        <3>6. ASSUME NEW i \in 1 .. Len(insertOrder) - 1
              PROVE  rest[i] \in Range(insertOrder) \ {insertOrder[1]}
            <4>1. rest[i] = insertOrder[i + 1] /\ i + 1 \in 1 .. Len(insertOrder) /\ i + 1 # 1
                BY <3>1, <3>2
            <4>2. insertOrder[i + 1] # insertOrder[1]
                BY <3>1, <3>4, <4>1
            <4> QED
                BY <3>1, <4>1, <4>2 DEF Range
        <3>7. Range(rest) \subseteq Range(insertOrder) \ {insertOrder[1]}
            BY <3>2, <3>6 DEF Range
        <3> QED
            BY <2>1, <3>2, <3>3, <3>5, <3>7 DEF CacheOK, EvictionFrees
    <2>2. CASE ~full
        BY <2>2 DEF CacheOK, EvictionFrees
    <2> QED
        BY <2>1, <2>2
<1>3. \A x \in Keys : data'[x] = IF x = k THEN v ELSE IF x \in oldest THEN Absent ELSE data[x]
    BY <1>1
<1>4. Cached' = (Cached \ oldest) \cup {k}
    BY <1>1, <1>3, MarkersAssumption DEF Cached
<1>5. data' \in [Keys -> Values \cup {Absent}]
    BY <1>1 DEF CacheOK
<1>6. expired' \subseteq Cached'
    BY <1>1, <1>4 DEF CacheOK
<1>7. /\ IsFiniteSet(Cached')
      /\ Cardinality(Cached') = IF full THEN Cardinality(Cached) ELSE Cardinality(Cached) + 1
      /\ Cardinality(Cached) \in Nat
    <2>1. IsFiniteSet(Cached \ oldest) /\ k \notin Cached \ oldest
        BY <1>1, FS_RemoveElement DEF CacheOK
    <2>2. Cardinality(Cached \ oldest) = IF full THEN Cardinality(Cached) - 1 ELSE Cardinality(Cached)
        BY <1>2, FS_RemoveElement DEF CacheOK
    <2>3. Cardinality(Cached') = Cardinality(Cached \ oldest) + 1 /\ IsFiniteSet(Cached')
        BY <1>4, <2>1, FS_AddElement
    <2> QED
        BY <2>2, <2>3, FS_CardinalityType DEF CacheOK
<1> HIDE DEF rest
<1>8. /\ insertOrder' \in Seq(Keys)
      /\ Len(insertOrder') = Len(rest) + 1
      /\ DOMAIN insertOrder' = 1 .. Len(rest) + 1 /\ DOMAIN rest = 1 .. Len(rest)
      /\ Len(rest) \in Nat
      /\ \A i \in 1 .. Len(rest) + 1 : insertOrder'[i] = IF i = Len(rest) + 1 THEN k ELSE rest[i]
    BY <1>1, <1>2, AppendProperties, LenProperties
<1>9. k \notin Range(rest)
    BY <1>1, <1>2
<1>10. IsInjective(insertOrder')
    BY <1>2, <1>8, <1>9 DEF IsInjective, Range
<1>11. Range(insertOrder') \subseteq Cached'
    <2>1. Range(insertOrder') \subseteq Range(rest) \cup {k}
        BY <1>8 DEF Range
    <2> QED
        BY <1>2, <1>4, <2>1
<1>12. Cardinality(Cached') > MaxSize => Len(insertOrder') <= 1
    <2>1. CASE full
        BY <1>2, <1>7, <1>8, <2>1, SizeAssumption DEF CacheOK, EvictionFrees
    <2>2. CASE Cardinality(Cached) < MaxSize
        BY <1>7, <2>2, SizeAssumption
    <2>3. CASE insertOrder = <<>>
        BY <1>2, <1>8, <2>3
    <2> QED
        BY <1>7, <2>1, <2>2, <2>3, SizeAssumption
<1> QED
    BY <1>3, <1>4, <1>5, <1>6, <1>7, <1>8, <1>10, <1>11, <1>12 DEF CacheOK, EvictionFrees, Cached

--------------------------------------------------------------------------------
(* The steps of the requests and of others.                                *)

Requested == [step : {"none", "dropping", "reading", "filling", "writing", "deleting", "invalidating"},
              key : Keys \cup {NoKey}, value : Values \cup {Absent}]

LEMMA CacheOfIInv == IInv => CacheOK
BY DEF IInv, CacheTypeOK, CacheOK

\* Expiry is no concern of anybody but the types.
LEMMA ExpireKeeps ==
    ASSUME IInv, NEW k \in Keys, Expire(k)
    PROVE  IInv'
<1>1. UNCHANGED <<stored, session, data, insertOrder, request, misled, foreign, served>>
    BY DEF Expire, comb, count
<1>2. Cached' = Cached /\ expired' \subseteq Cached
    BY <1>1 DEF IInv, CacheTypeOK, Expire, Cached
<1> QED
    BY <1>1, <1>2 DEF IInv, CacheTypeOK, Holding, EmptySession, EvictionFrees, StaleForAReason, Cached, At

\* A request that begins, changes nothing but itself and is not invalidating.
LEMMA StartKeeps ==
    ASSUME IInv, NEW c \in Clients, NEW k \in Keys, NEW v \in Values \cup {Absent},
           NEW step \in {"dropping", "reading", "writing", "deleting"},
           step = "writing" => v \in Values,
           Begin(c, step, k, v), UNCHANGED <<comb, cache, misled>>
    PROVE  IInv'
<1>1. /\ UNCHANGED <<stored, session, data, insertOrder, expired, misled, foreign>>
      /\ At(c, "none")
      /\ served' \in 0 .. RequestBound
    BY BoundsAssumption DEF IInv, CacheTypeOK, Begin, comb, cache
<1>2. /\ request' \in [Clients -> Requested]
      /\ request'[c] = [step |-> step, key |-> k, value |-> v]
      /\ \A d \in Clients \ {c} : request'[d] = request[d]
    BY DEF IInv, CacheTypeOK, Begin, Requested
<1>3. Holding'
    BY <1>2 DEF IInv, Holding, At
<1>4. StaleForAReason'
    BY <1>1, <1>2 DEF IInv, StaleForAReason, At, Cached
<1> QED
    BY <1>1, <1>2, <1>3, <1>4 DEF IInv, CacheTypeOK, EmptySession, EvictionFrees, Cached, Requested

\* The cache changes in the same way for every request that forgets a key.
LEMMA DropKeeps ==
    ASSUME IInv, NEW c \in Clients, DropExpired(c)
    PROVE  IInv'
<1> DEFINE k == request[c].key
<1>1. /\ k \in Keys /\ At(c, "dropping")
      /\ UNCHANGED <<stored, session, foreign, served, misled>>
      /\ request' = [request EXCEPT ![c].step = "reading"]
    BY DEF IInv, Holding, DropExpired, At, Goto, comb, count
<1>2. /\ request' \in [Clients -> Requested]
      /\ request'[c].step = "reading" /\ request'[c].key = k
      /\ \A d \in Clients \ {c} : request'[d] = request[d]
    BY <1>1 DEF IInv, CacheTypeOK, Requested
<1>3. /\ CacheOK'
      /\ Cached' \subseteq Cached
      /\ \A x \in Cached' : data'[x] = data[x]
    <2>1. CASE Forgotten(k)
        BY <1>1, <2>1, ForgottenKeeps, CacheOfIInv
    <2>2. CASE UNCHANGED cache
        BY <2>2, CacheOfIInv DEF CacheOK, cache, Cached, EvictionFrees
    <2> QED
        BY <2>1, <2>2 DEF DropExpired
<1>4. Holding'
    BY <1>1, <1>2 DEF IInv, Holding, At
<1>5. StaleForAReason'
    BY <1>1, <1>2, <1>3 DEF IInv, StaleForAReason, At
<1> QED
    BY <1>1, <1>2, <1>3, <1>4, <1>5 DEF IInv, CacheTypeOK, EmptySession, CacheOK, Requested

LEMMA ReadKeeps ==
    ASSUME IInv, NEW c \in Clients, ReadComb(c)
    PROVE  IInv'
<1> DEFINE v == stored[request[c].key]
<1>1. /\ At(c, "reading") /\ request[c].key \in Keys
      /\ UNCHANGED <<stored, session, data, insertOrder, expired, foreign, served, misled>>
    BY DEF IInv, Holding, ReadComb, At, comb, cache, count
<1>2. /\ request' \in [Clients -> Requested]
      /\ \A d \in Clients \ {c} : request'[d] = request[d]
      /\ \/ request'[c] = NoRequest
         \/ /\ request'[c].step = "filling" /\ request'[c].key = request[c].key
            /\ request'[c].value = v /\ v \in Values
    <2>1. request \in [Clients -> Requested] /\ v \in Values \cup {Absent} /\ NoRequest \in Requested
        BY <1>1 DEF IInv, CacheTypeOK, Requested, NoRequest
    <2>2. CASE v = Absent
        BY <2>1, <2>2 DEF ReadComb, Answer
    <2>3. CASE v # Absent
        <3>1. request' = [request EXCEPT ![c].step = "filling", ![c].value = v]
            BY <2>3 DEF ReadComb
        <3> DEFINE new == [request[c] EXCEPT !.step = "filling", !.value = v]
        <3>2. /\ new \in Requested
              /\ new.step = "filling" /\ new.key = request[c].key /\ new.value = v
            BY <2>1, <2>3 DEF Requested
        <3>3. request' = [request EXCEPT ![c] = new]
            BY <3>1
        <3> HIDE DEF new
        <3> QED
            BY <2>1, <2>3, <3>2, <3>3
    <2> QED
        BY <2>2, <2>3
<1>3. Holding'
    BY <1>1, <1>2 DEF IInv, Holding, At, NoRequest
<1>4. StaleForAReason'
    BY <1>1, <1>2 DEF IInv, StaleForAReason, At, Cached, NoRequest
<1> QED
    BY <1>1, <1>2, <1>3, <1>4 DEF IInv, CacheTypeOK, EmptySession, EvictionFrees, Cached, Requested

\* A fill that brings what Comb has clears the key's name, any other marks it.
LEMMA FillKeeps ==
    ASSUME IInv, NEW c \in Clients, Fill(c)
    PROVE  IInv'
<1> DEFINE k == request[c].key
           v == request[c].value
<1>1. /\ k \in Keys /\ v \in Values /\ At(c, "filling")
      /\ UNCHANGED <<stored, session, foreign, served>>
      /\ misled' = IF v = stored[k] THEN misled \ {k} ELSE misled \cup {k}
    BY DEF IInv, Holding, Fill, At, comb, count
<1>2. /\ request' \in [Clients -> Requested]
      /\ request'[c] = NoRequest
      /\ \A d \in Clients \ {c} : request'[d] = request[d]
    BY DEF IInv, CacheTypeOK, Requested, Fill, Answer, NoRequest
<1>3. /\ CacheOK'
      /\ Cached' \subseteq Cached \cup {k}
      /\ \A x \in Cached' : data'[x] = IF x = k THEN v ELSE data[x]
    <2>1. Renew(k, v) \/ Insert(k, v)
        BY DEF Fill, Set
    <2>2. CASE Renew(k, v)
        BY <1>1, <2>2, RenewKeeps, CacheOfIInv
    <2>3. CASE Insert(k, v)
        BY <1>1, <2>3, InsertKeeps, CacheOfIInv
    <2> QED
        BY <2>1, <2>2, <2>3
<1>4. Holding'
    BY <1>2 DEF IInv, Holding, At, NoRequest
<1>5. StaleForAReason'
    BY <1>1, <1>2, <1>3 DEF IInv, StaleForAReason, At
<1> QED
    BY <1>1, <1>2, <1>3, <1>4, <1>5 DEF IInv, CacheTypeOK, EmptySession, CacheOK, Requested

LEMMA WriteKeeps ==
    ASSUME IInv, NEW c \in Clients, WriteComb(c)
    PROVE  IInv'
<1> DEFINE k == request[c].key
<1>1. /\ k \in Keys /\ request[c].value \in Values /\ At(c, "writing")
      /\ UNCHANGED <<data, insertOrder, expired, foreign, served, misled>>
      /\ session' = TRUE
    BY DEF IInv, Holding, WriteComb, At, cache, count
<1>2. /\ stored' \in [Keys -> Values \cup {Absent}]
      /\ \A x \in Keys \ {k} : stored'[x] = stored[x]
    BY <1>1 DEF IInv, CacheTypeOK, WriteComb
<1>3. /\ request' \in [Clients -> Requested]
      /\ request'[c].step = "invalidating" /\ request'[c].key = k
      /\ \A d \in Clients \ {c} : request'[d] = request[d]
    BY DEF IInv, CacheTypeOK, Requested, WriteComb, Goto
<1>4. Holding'
    BY <1>1, <1>3 DEF IInv, Holding, At
<1>5. StaleForAReason'
    BY <1>1, <1>2, <1>3 DEF IInv, StaleForAReason, At, Cached
<1> QED
    BY <1>1, <1>2, <1>3, <1>4, <1>5
       DEF IInv, CacheTypeOK, EmptySession, EvictionFrees, Cached, Requested

\* Without a session there was nothing to delete.
LEMMA DeleteKeeps ==
    ASSUME IInv, NEW c \in Clients, DeleteFromComb(c)
    PROVE  IInv'
<1> DEFINE k == request[c].key
<1>1. /\ k \in Keys /\ At(c, "deleting")
      /\ UNCHANGED <<session, data, insertOrder, expired, foreign, served, misled>>
    BY DEF IInv, Holding, DeleteFromComb, At, cache, count
<1>2. /\ stored' \in [Keys -> Values \cup {Absent}]
      /\ stored'[k] = Absent
      /\ \A x \in Keys \ {k} : stored'[x] = stored[x]
    BY <1>1 DEF IInv, CacheTypeOK, DeleteFromComb
<1>3. \A d \in Clients \ {c} : request'[d] = request[d]
    BY DEF IInv, CacheTypeOK, DeleteFromComb, Goto, Answer
<1>4. CASE session
    <2>1. /\ request' \in [Clients -> Requested]
          /\ request'[c].step = "invalidating" /\ request'[c].key = k
        BY <1>4 DEF IInv, CacheTypeOK, Requested, DeleteFromComb, Goto
    <2>2. Holding'
        BY <1>1, <1>3, <2>1 DEF IInv, Holding, At
    <2>3. StaleForAReason'
        BY <1>1, <1>2, <1>3, <2>1 DEF IInv, StaleForAReason, At, Cached
    <2> QED
        BY <1>1, <1>2, <1>4, <2>1, <2>2, <2>3
           DEF IInv, CacheTypeOK, EmptySession, EvictionFrees, Cached, Requested
<1>5. CASE ~session
    <2>1. request' \in [Clients -> Requested] /\ request'[c] = NoRequest
        BY <1>5 DEF IInv, CacheTypeOK, Requested, DeleteFromComb, Answer, NoRequest
    <2>2. \A x \in Keys : stored'[x] = stored[x]
        BY <1>2, <1>5 DEF IInv, EmptySession
    <2>3. Holding'
        BY <1>3, <2>1 DEF IInv, Holding, At, NoRequest
    <2>4. StaleForAReason'
        BY <1>1, <1>3, <2>1, <2>2 DEF IInv, StaleForAReason, At, Cached
    <2> QED
        BY <1>1, <1>2, <2>1, <2>2, <2>3, <2>4
           DEF IInv, CacheTypeOK, EmptySession, EvictionFrees, Cached, Requested
<1> QED
    BY <1>4, <1>5

\* The one reason a request that ends takes away goes with the key itself.
LEMMA InvalidateKeeps ==
    ASSUME IInv, NEW c \in Clients, Invalidate(c)
    PROVE  IInv'
<1> DEFINE k == request[c].key
<1>1. /\ k \in Keys /\ At(c, "invalidating")
      /\ UNCHANGED <<stored, session, foreign, served>>
      /\ misled' = misled \ {k}
    BY DEF IInv, Holding, Invalidate, At, comb, count
<1>2. /\ request' \in [Clients -> Requested]
      /\ request'[c] = NoRequest
      /\ \A d \in Clients \ {c} : request'[d] = request[d]
    BY DEF IInv, CacheTypeOK, Requested, Invalidate, Answer, NoRequest
<1>3. /\ CacheOK'
      /\ Cached' = Cached \ {k}
      /\ \A x \in Cached' : data'[x] = data[x]
    BY <1>1, ForgottenKeeps, CacheOfIInv DEF Invalidate
<1>4. Holding'
    BY <1>2 DEF IInv, Holding, At, NoRequest
<1>5. StaleForAReason'
    BY <1>1, <1>2, <1>3 DEF IInv, StaleForAReason, At
<1> QED
    BY <1>1, <1>2, <1>3, <1>4, <1>5 DEF IInv, CacheTypeOK, EmptySession, CacheOK, Requested

LEMMA ForeignKeeps ==
    ASSUME IInv,
           (\E k \in Keys, v \in Values \cup {Absent} : ForeignChange(k, v)) \/ ClearSession
    PROVE  IInv'
<1>1. /\ UNCHANGED <<data, insertOrder, expired, request, served>>
      /\ foreign' \in 0 .. ForeignBound
    BY BoundsAssumption DEF IInv, CacheTypeOK, ForeignChange, ClearSession, cache
<1>2. CASE \E k \in Keys, v \in Values \cup {Absent} : ForeignChange(k, v)
    <2>1. PICK k \in Keys, v \in Values \cup {Absent} : ForeignChange(k, v)
        BY <1>2
    <2>2. /\ stored' \in [Keys -> Values \cup {Absent}] /\ session' \in BOOLEAN
          /\ stored'[k] = v
          /\ \A x \in Keys \ {k} : stored'[x] = stored[x]
          /\ session' <=> (session \/ v # Absent)
          /\ misled' = misled \cup ({k} \cap Cached)
        BY <2>1 DEF IInv, CacheTypeOK, ForeignChange
    <2>3. StaleForAReason'
        BY <1>1, <2>2 DEF IInv, StaleForAReason, At, Cached
    <2>4. EmptySession'
        BY <2>2 DEF IInv, EmptySession
    <2> QED
        BY <1>1, <2>2, <2>3, <2>4 DEF IInv, CacheTypeOK, Holding, EvictionFrees, Cached, At
<1>3. CASE ClearSession
    <2>1. /\ stored' = [x \in Keys |-> Absent] /\ session' = FALSE
          /\ misled' = misled \cup Cached
        BY <1>3 DEF ClearSession
    <2>2. StaleForAReason'
        BY <1>1, <2>1 DEF IInv, StaleForAReason, At, Cached
    <2> QED
        BY <1>1, <2>1, <2>2 DEF IInv, CacheTypeOK, Holding, EmptySession, EvictionFrees, Cached, At
<1> QED
    BY <1>2, <1>3

--------------------------------------------------------------------------------
LEMMA InitIInv == CacheInit => IInv
<1> SUFFICES ASSUME CacheInit
             PROVE  IInv
    OBVIOUS
<1>1. Cached = {}
    BY DEF CacheInit, Cached
<1>2. CacheTypeOK
    <2>1. insertOrder \in Seq(Keys)
        BY EmptySeq DEF CacheInit
    <2>2. request \in [Clients -> Requested]
        BY DEF CacheInit, NoRequest, Requested
    <2>3. foreign \in 0 .. ForeignBound /\ served \in 0 .. RequestBound
        BY BoundsAssumption DEF CacheInit
    <2> QED
        BY <1>1, <2>1, <2>2, <2>3 DEF CacheInit, CacheTypeOK, Requested
<1>3. EvictionFrees
    <2>1. Range(insertOrder) = {} /\ IsInjective(insertOrder)
        BY DEF CacheInit, Range, IsInjective
    <2> QED
        BY <1>1, <2>1, FS_EmptySet, SizeAssumption DEF EvictionFrees
<1> QED
    BY <1>1, <1>2, <1>3, FS_EmptySet
       DEF CacheInit, IInv, Holding, EmptySession, StaleForAReason, At, NoRequest

LEMMA NextIInv == IInv /\ [CacheNext]_cacheVars => IInv'
<1> SUFFICES ASSUME IInv, [CacheNext]_cacheVars
             PROVE  IInv'
    OBVIOUS
<1>1. ASSUME NEW c \in Clients, NEW k \in Keys, Get(c, k)
      PROVE  IInv'
    <2>1. Begin(c, IF k \in expired THEN "dropping" ELSE "reading", k, Absent)
          /\ UNCHANGED <<comb, cache, misled>>
        BY <1>1 DEF Get
    <2> QED
        BY <2>1, StartKeeps
<1>2. ASSUME NEW c \in Clients, NEW k \in Keys, Delete(c, k)
      PROVE  IInv'
    BY <1>2, StartKeeps DEF Delete
<1>3. ASSUME NEW c \in Clients, NEW k \in Keys, NEW v \in Values, Put(c, k, v)
      PROVE  IInv'
    BY <1>3, StartKeeps DEF Put
<1>4. ASSUME NEW c \in Clients,
             \/ DropExpired(c) \/ ReadComb(c) \/ Fill(c)
             \/ WriteComb(c) \/ DeleteFromComb(c) \/ Invalidate(c)
      PROVE  IInv'
    BY <1>4, DropKeeps, ReadKeeps, FillKeeps, WriteKeeps, DeleteKeeps, InvalidateKeeps
<1>5. ASSUME NEW k \in Keys, Expire(k)
      PROVE  IInv'
    BY <1>5, ExpireKeeps
<1>6. CASE UNCHANGED cacheVars
    BY <1>6 DEF cacheVars, comb, cache, count, IInv, CacheTypeOK, Holding, EmptySession, EvictionFrees,
                StaleForAReason, Cached, At
<1> QED
    BY <1>1, <1>2, <1>3, <1>4, <1>5, <1>6, ForeignKeeps DEF CacheNext, Serve

LEMMA Inductive == CacheSpec => []IInv
    BY InitIInv, NextIInv, PTL DEF CacheSpec

(* The variables of the cache and of its requests keep their types.         *)
THEOREM CacheTypeCorrect == CacheSpec => []CacheTypeOK
<1>1. IInv => CacheTypeOK
    BY DEF IInv
<1> QED
    BY <1>1, Inductive, PTL

(* combCache.set frees an entry whenever it evicts, since the order names   *)
(* cached keys only and each once, and the cache outgrows maxSize only by   *)
(* keys that the order has lost (keeper.go: combCache).                     *)
THEOREM OrderHolds == CacheSpec => []EvictionFrees
<1>1. IInv => EvictionFrees
    BY DEF IInv
<1> QED
    BY <1>1, Inductive, PTL

(* Whatever is cached and not Comb's was filled in a race with a write, was *)
(* changed by somebody else, or is about to be invalidated (keeper.go:      *)
(* handleComb).                                                             *)
THEOREM StaleExplained == CacheSpec => []StaleForAReason
<1>1. IInv => StaleForAReason
    BY DEF IInv
<1> QED
    BY <1>1, Inductive, PTL

================================================================================
