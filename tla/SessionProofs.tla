--------------------------- MODULE SessionProofs ---------------------------
(***************************************************************************)
(* Proofs about sessions, for any number of sessions and of callers, any   *)
(* limits and any number of restarts, and about the memory of one, for any *)
(* keys, values, limits and number of calls.                               *)
(***************************************************************************)
EXTENDS SessionManager, Comb, FiniteSetTheorems, SequenceTheorems, TLAPS

On(a, s) == work[a].session = s

--------------------------------------------------------------------------------
(***************************************************************************)
(* What TrackedIsLive and MessageIsRecorded need to be inductive.          *)
(***************************************************************************)

\* Nobody is at work on a session that was not created.
Known ==
    \A a \in Actors : work[a].session # NoSession =>
        stored[work[a].session] # Absent /\ phase[work[a].session] # Absent

\* A session that is not stored has no object.
Recorded == \A s \in Sessions : stored[s] = Absent => phase[s] = Absent

\* Until it is tracked, a new session is its creator's alone.
Alone ==
    \A a \in Actors : At(a, "track") =>
        /\ work[a].session \notin tracked
        /\ phase[work[a].session] = "created"
        /\ \A b \in Actors \ {a} : work[b].session # work[a].session

\* Only TerminateSession marks.
MarkEnds == \A a \in Actors : At(a, "mark") => work[a].ending

\* Whoever is past Touch or Mark has left the phase Created behind ...
Used ==
    \A a \in Actors :
        work[a].step \in {"dim", "write", "commit", "uncache", "append", "clear"} =>
            phase[work[a].session] # "created"

\* ... and so has what the transaction is to write ...
Written ==
    \A a \in Actors :
        /\ At(a, "commit") => work[a].data \in Phases \ {"created"}
        /\ work[a].stale => At(a, "commit")

\* ... and the record, once the transaction is over or has lost.
Settled ==
    \A a \in Actors :
        work[a].step \in {"uncache", "append", "clear"} \/ work[a].stale =>
            stored[work[a].session] # "created"

\* The record is not ahead of the object, and behind it only during an update.
Unused == \A s \in Sessions : phase[s] = "created" => stored[s] = "created"

FirstUse ==
    \A s \in Sessions : stored[s] = "created" /\ phase[s] \notin {"created", Absent} =>
        \E a \in Actors : On(a, s) /\ work[a].step \in {"write", "commit"}

\* A tracked session that is terminated anywhere has a goroutine that is about
\* to take it out of the cache.
Dying(s) ==
    \E a \in Actors : On(a, s) /\ work[a].ending /\ work[a].step \in {"write", "commit", "uncache"}

Terminated(s) ==
    \/ "terminated" \in {phase[s], stored[s]}
    \/ \E a \in Actors : On(a, s) /\ At(a, "commit") /\ work[a].data = "terminated"

Leaving == \A s \in tracked : Terminated(s) => Dying(s)

IInv ==
    /\ TypeOK
    /\ MessageIsRecorded
    /\ Known
    /\ Recorded
    /\ Alone
    /\ MarkEnds
    /\ Used
    /\ Written
    /\ Settled
    /\ Unused
    /\ FirstUse
    /\ Leaving

--------------------------------------------------------------------------------
\* The bounds are natural numbers.
LEMMA Limit == Old \in Nat /\ Dated \in Nat /\ RestartBound \in Nat
BY MinutesAssumption DEF Old, Dated

(***************************************************************************)
(* What Goto, Begin and Rest do to the goroutines' records.                *)
(***************************************************************************)

\* The type of work, kept apart since most steps only change it.
WorkOK ==
    /\ work \in [Actors -> [step : Steps, session : Sessions \cup {NoSession},
                            ending : BOOLEAN, data : Phases \cup {Absent}, stale : BOOLEAN]]
    /\ \A a \in Actors : At(a, "rest") <=> work[a].session = NoSession

Others(a) == \A b \in Actors \ {a} : work'[b] = work[b]

LEMMA GotoWork ==
    ASSUME WorkOK, NEW a \in Actors, NEW step \in Steps, step # "rest", ~At(a, "rest"),
           Goto(a, step)
    PROVE  /\ WorkOK'
           /\ Others(a)
           /\ work'[a].step = step
           /\ work'[a].session = work[a].session
           /\ work'[a].ending = work[a].ending
           /\ work'[a].data = work[a].data
           /\ work'[a].stale = work[a].stale
BY DEF WorkOK, Others, Goto, At

LEMMA BeginWork ==
    ASSUME WorkOK, NEW a \in Actors, NEW s \in Sessions, NEW step \in Steps, step # "rest",
           Begin(a, s, step)
    PROVE  /\ WorkOK'
           /\ Others(a)
           /\ work'[a].step = step
           /\ work'[a].session = s
           /\ work'[a].ending = (step = "mark")
           /\ work'[a].stale = FALSE
BY NoSessionAssumption DEF WorkOK, Others, Begin, At, Absent

LEMMA RestWork ==
    ASSUME WorkOK, NEW a \in Actors, Rest(a)
    PROVE  WorkOK' /\ Others(a) /\ work'[a] = Resting
BY DEF WorkOK, Others, Rest, At, Resting, Steps

LEMMA TypeIsWork == TypeOK => WorkOK
BY DEF TypeOK, WorkOK

\* A goroutine is at work on a session, or rests.
Assigned ==
    \A b \in Actors :
        work[b].session \in Sessions \/ (At(b, "rest") /\ work[b].session = NoSession)

LEMMA AllAssigned == WorkOK => Assigned
BY DEF WorkOK, Assigned

\* Who does not rest is at work on a session.
LEMMA AtWork ==
    ASSUME WorkOK, NEW a \in Actors, ~At(a, "rest")
    PROVE  work[a].session \in Sessions
BY DEF WorkOK, At

--------------------------------------------------------------------------------
\* Steps of which the invariant sees nothing but types.
LEMMA SameKeeps ==
    ASSUME IInv, TypeOK', UNCHANGED <<stored, phase, tracked, comb, work>>
    PROVE  IInv'
BY DEF IInv, MessageIsRecorded, Known, Recorded, Alone, MarkEnds, Used, Written, Settled,
       Unused, FirstUse, Leaving, Terminated, Dying, At, On

\* A goroutine that rests turns to a session that has an object.
LEMMA BeginKeeps ==
    ASSUME IInv, NEW a \in Actors, NEW s \in Sessions, NEW step \in {"update", "mark", "dim"},
           At(a, "rest"), Begin(a, s, step),
           phase[s] # Absent, step = "dim" => phase[s] # "created",
           s \in tracked \/ phase[s] # "created",
           TypeOK', UNCHANGED <<stored, phase, tracked, comb>>
    PROVE  IInv'
<1>1. /\ Others(a)
      /\ work'[a].step = step
      /\ work'[a].session = s
      /\ work'[a].ending = (step = "mark")
      /\ work'[a].stale = FALSE
  <2>1. WorkOK
    BY TypeIsWork DEF IInv
  <2>2. step \in Steps /\ step # "rest"
    BY DEF Steps
  <2>. QED  BY ONLY <2>1, <2>2, BeginWork, a \in Actors, s \in Sessions, Begin(a, s, step)
<1>2. /\ Assigned
      /\ stored[s] # Absent
    BY TypeIsWork, AllAssigned DEF IInv, TypeOK, Recorded, WorkOK
<1>3. MessageIsRecorded' /\ Known' /\ Recorded' /\ Unused'
    BY <1>1, <1>2 DEF IInv, MessageIsRecorded, Known, Recorded, Unused, Bare,
        Others, Assigned, At, On, Absent
<1>4. Alone'
    BY <1>1, <1>2 DEF IInv, Alone, Others, Assigned, At, On, Absent
<1>5. MarkEnds' /\ Used' /\ Written' /\ Settled'
    BY <1>1, <1>2 DEF IInv, MarkEnds, Used, Written, Settled, Others, Assigned, At,
        On, Absent
<1>6. FirstUse'
    BY <1>1, <1>2 DEF IInv, FirstUse, Others, Assigned, At, On, Absent
<1>7. Leaving'
    BY <1>1, <1>2 DEF IInv, Leaving, Terminated, Dying, Others, Assigned, At, On,
        Absent
<1> QED
    BY <1>3, <1>4, <1>5, <1>6, <1>7 DEF IInv

\* A goroutine that is no longer needed for FirstUse or Leaving rests.
LEMMA RestKeeps ==
    ASSUME IInv, NEW a \in Actors, work[a].step \in {"rest", "update", "append", "clear"}, Rest(a),
           TypeOK', MessageIsRecorded', UNCHANGED <<stored, phase, tracked>>
    PROVE  IInv'
<1>1. Others(a) /\ work'[a] = Resting
    BY TypeIsWork, RestWork DEF IInv
<1>2. Assigned
    BY TypeIsWork, AllAssigned DEF IInv, At, WorkOK
<1>3. Known' /\ Recorded' /\ Unused'
    BY <1>1, <1>2, NoSessionAssumption DEF IInv, Known, Recorded, Unused, Resting,
        Others, Assigned, At, On, Absent
<1>4. Alone'
    BY <1>1, <1>2, NoSessionAssumption DEF IInv, Alone, Resting, Others, Assigned,
        At, On, Absent
<1>5. MarkEnds' /\ Used' /\ Written' /\ Settled'
    BY <1>1, <1>2, NoSessionAssumption DEF IInv, MarkEnds, Used, Written, Settled,
        Resting, Others, Assigned, At, On, Absent
<1>6. FirstUse'
    BY <1>1, <1>2, NoSessionAssumption DEF IInv, FirstUse, Resting, Others,
        Assigned, At, On, Absent
<1>7. Leaving'
    BY <1>1, <1>2, NoSessionAssumption DEF IInv, Leaving, Terminated, Dying,
        Resting, Others, Assigned, At, On, Absent
<1> QED
    BY <1>3, <1>4, <1>5, <1>6, <1>7 DEF IInv

\* The steps of sendMessage ...
LEMMA FindKeeps ==
    ASSUME IInv, NEW c \in Actors, FindState(c), Goto(c, "touch")
    PROVE  IInv'
<1> DEFINE s == work[c].session
<1>1. /\ c \in Actors /\ s \in Sessions /\ s # NoSession
      /\ WorkOK' /\ Others(c)
      /\ work'[c].step = "touch"
      /\ work'[c].session = s
      /\ work'[c].ending = work[c].ending
      /\ ~work'[c].stale
    BY TypeIsWork, GotoWork, AtWork, NoSessionAssumption
       DEF IInv, Written, FindState, Steps, At, Actors
<1>2. /\ phase' = phase /\ stored' = stored /\ tracked' = tracked /\ comb' = comb
      /\ Assigned
      /\ stored[s] # Absent /\ tracked \subseteq Sessions
      /\ At(c, "update")
    BY <1>1, TypeIsWork, AllAssigned DEF IInv, TypeOK, Known, WorkOK, FindState, objects
<1>3. TypeOK'
    BY <1>1, <1>2, Limit DEF IInv, TypeOK, WorkOK, FindState, objects, checking,
        Phases, Absent
<1>4. MessageIsRecorded' /\ Known' /\ Recorded' /\ Unused'
    BY <1>1, <1>2 DEF IInv, MessageIsRecorded, Known, Recorded, Unused, Bare,
        Others, Assigned, At, On, Absent
<1>5. Alone'
    BY <1>1, <1>2 DEF IInv, Alone, Others, Assigned, At, On, Absent
<1>6. MarkEnds' /\ Used' /\ Written' /\ Settled'
    BY <1>1, <1>2 DEF IInv, MarkEnds, Used, Written, Settled, Others, Assigned, At,
        On, Absent
<1>7. FirstUse'
    BY <1>1, <1>2 DEF IInv, FirstUse, Others, Assigned, At, On, Absent
<1>8. Leaving'
    BY <1>1, <1>2 DEF IInv, Leaving, Terminated, Dying, Others, Assigned, At, On,
        Absent
<1> QED
    BY <1>3, <1>4, <1>5, <1>6, <1>7, <1>8 DEF IInv

LEMMA TouchKeeps ==
    ASSUME IInv, NEW c \in Actors, Touch(c)
    PROVE  IInv'
<1> DEFINE s == work[c].session
<1>1. /\ c \in Actors /\ s \in Sessions /\ s # NoSession
      /\ WorkOK' /\ Others(c)
      /\ work'[c].step = "write"
      /\ work'[c].session = s
      /\ work'[c].ending = work[c].ending
      /\ ~work'[c].stale
    BY TypeIsWork, GotoWork, AtWork, NoSessionAssumption
       DEF IInv, Written, Touch, Steps, At, Actors
<1>2. /\ \A x \in Sessions : phase'[x] = IF x = s THEN "active" ELSE phase[x]
      /\ stored' = stored /\ tracked' = tracked /\ comb' = comb
      /\ Assigned
      /\ stored[s] # Absent /\ tracked \subseteq Sessions
      /\ At(c, "touch")
    BY <1>1, TypeIsWork, AllAssigned DEF IInv, TypeOK, Known, WorkOK, Touch, objects
<1>3. TypeOK'
    BY <1>1, <1>2, Limit DEF IInv, TypeOK, WorkOK, Touch, objects, checking, Phases,
        Absent
<1>4. MessageIsRecorded' /\ Known' /\ Recorded' /\ Unused'
    BY <1>1, <1>2 DEF IInv, MessageIsRecorded, Known, Recorded, Unused, Bare,
        Others, Assigned, At, On, Absent
<1>5. Alone'
    BY <1>1, <1>2 DEF IInv, Alone, Others, Assigned, At, On, Absent
<1>6. MarkEnds' /\ Used' /\ Written' /\ Settled'
    BY <1>1, <1>2 DEF IInv, MarkEnds, Used, Written, Settled, Others, Assigned, At,
        On, Absent
<1>7. FirstUse'
    BY <1>1, <1>2 DEF IInv, FirstUse, Others, Assigned, At, On, Absent
<1>8. Leaving'
    BY <1>1, <1>2 DEF IInv, Leaving, Terminated, Dying, Others, Assigned, At, On,
        Absent
<1> QED
    BY <1>3, <1>4, <1>5, <1>6, <1>7, <1>8 DEF IInv

\* ... of TerminateSession, which makes the goroutine the one that Leaving asks for ...
LEMMA MarkKeeps ==
    ASSUME IInv, NEW a \in Actors, Mark(a)
    PROVE  IInv'
<1> DEFINE s == work[a].session
<1>1. /\ a \in Actors /\ s \in Sessions /\ s # NoSession
      /\ WorkOK' /\ Others(a)
      /\ work'[a].step = "write"
      /\ work'[a].session = s
      /\ work'[a].ending = work[a].ending
      /\ ~work'[a].stale
    BY TypeIsWork, GotoWork, AtWork, NoSessionAssumption
       DEF IInv, Written, Mark, Steps, At, Actors
<1>2. /\ \A x \in Sessions : phase'[x] = IF x = s THEN "terminated" ELSE phase[x]
      /\ stored' = stored /\ tracked' = tracked /\ comb' = comb
      /\ Assigned
      /\ stored[s] # Absent /\ tracked \subseteq Sessions
      /\ At(a, "mark")
    BY <1>1, TypeIsWork, AllAssigned DEF IInv, TypeOK, Known, WorkOK, Mark, objects
<1>3. TypeOK'
    BY <1>1, <1>2, Limit DEF IInv, TypeOK, WorkOK, Mark, objects, checking, Phases,
        Absent
<1>4. MessageIsRecorded' /\ Known' /\ Recorded' /\ Unused'
    BY <1>1, <1>2 DEF IInv, MessageIsRecorded, Known, Recorded, Unused, Bare,
        Others, Assigned, At, On, Absent
<1>5. Alone'
    BY <1>1, <1>2 DEF IInv, Alone, Others, Assigned, At, On, Absent
<1>6. MarkEnds' /\ Used' /\ Written' /\ Settled'
    BY <1>1, <1>2 DEF IInv, MarkEnds, Used, Written, Settled, Others, Assigned, At,
        On, Absent
<1>7. FirstUse'
    BY <1>1, <1>2 DEF IInv, FirstUse, Others, Assigned, At, On, Absent
<1>8. Leaving'
    BY <1>1, <1>2 DEF IInv, Leaving, Terminated, Dying, MarkEnds, Others, Assigned,
        At, On, Absent
<1> QED
    BY <1>3, <1>4, <1>5, <1>6, <1>7, <1>8 DEF IInv

\* ... and of the monitor.
LEMMA DimKeeps ==
    ASSUME IInv, Dim
    PROVE  IInv'
<1> DEFINE s == work[Monitor].session
<1>1. /\ Monitor \in Actors /\ s \in Sessions /\ s # NoSession
      /\ WorkOK' /\ Others(Monitor) /\ work'[Monitor] = Resting
    BY TypeIsWork, RestWork, AtWork, NoSessionAssumption DEF IInv, Dim, At, Actors
<1>2. /\ \A x \in Sessions : phase'[x] = IF x = s THEN "idle" ELSE phase[x]
      /\ stored' = stored /\ tracked' = tracked /\ comb' = comb
      /\ Assigned
      /\ stored[s] # Absent /\ phase[s] # "created" /\ tracked \subseteq Sessions
      /\ At(Monitor, "dim") /\ phase[s] # Absent
    BY <1>1, TypeIsWork, AllAssigned DEF IInv, TypeOK, Known, Used, At, WorkOK, Dim, objects
<1>3. TypeOK'
    BY <1>1, <1>2, Limit DEF IInv, TypeOK, WorkOK, Dim, objects, checking, Phases,
        Absent
<1>4. MessageIsRecorded' /\ Known' /\ Recorded' /\ Unused'
    BY <1>1, <1>2 DEF IInv, MessageIsRecorded, Known, Recorded, Unused, Bare,
        Resting, Others, Assigned, At, On, Absent
<1>5. Alone'
    BY <1>1, <1>2, NoSessionAssumption DEF IInv, Alone, Resting, Others, Assigned,
        At, On, Absent
<1>6. MarkEnds' /\ Used' /\ Written' /\ Settled'
    BY <1>1, <1>2 DEF IInv, MarkEnds, Used, Written, Settled, Resting, Others,
        Assigned, At, On, Absent
<1>7. FirstUse'
    BY <1>1, <1>2 DEF IInv, FirstUse, Resting, Others, Assigned, At, On, Absent
<1>8. Leaving'
    BY <1>1, <1>2 DEF IInv, Leaving, Terminated, Dying, Resting, Others, Assigned,
        At, On, Absent
<1> QED
    BY <1>3, <1>4, <1>5, <1>6, <1>7, <1>8 DEF IInv

\* A new session: nobody can be at work on it (Known).
LEMMA CreateSessionKeeps ==
    ASSUME IInv, NEW c \in Callers, NEW s \in Sessions, CreateSession(c, s)
    PROVE  IInv'
<1>1. /\ c \in Actors /\ s # NoSession /\ At(c, "rest") /\ stored[s] = Absent
      /\ WorkOK' /\ Others(c)
      /\ work'[c].step = "track"
      /\ work'[c].session = s
      /\ work'[c].ending = FALSE
      /\ work'[c].stale = FALSE
    BY TypeIsWork, BeginWork, NoSessionAssumption DEF IInv, CreateSession, Steps, Actors
<1>2. /\ \A x \in Sessions : /\ phase'[x] = IF x = s THEN "created" ELSE phase[x]
                             /\ stored'[x] = IF x = s THEN "created" ELSE stored[x]
      /\ tracked' = tracked /\ comb' = comb /\ tracked \subseteq Sessions
      /\ Assigned
      /\ s \notin tracked
      /\ \A b \in Actors : work[b].session # s
    BY <1>1, TypeIsWork, AllAssigned
       DEF IInv, TypeOK, Known, Recorded, WorkOK, CreateSession, objects, Phases,
           Absent
<1>3. TypeOK'
    BY <1>1, <1>2, Limit DEF IInv, TypeOK, WorkOK, CreateSession, objects, checking,
        Phases, Absent
<1>4. MessageIsRecorded' /\ Known' /\ Recorded' /\ Unused'
    BY <1>1, <1>2 DEF IInv, MessageIsRecorded, Known, Recorded, Unused, Bare,
        Others, Assigned, At, On, Absent
<1>5. Alone'
    BY <1>1, <1>2 DEF IInv, Alone, Others, Assigned, At, On, Absent
<1>6. MarkEnds' /\ Used' /\ Written' /\ Settled'
    BY <1>1, <1>2 DEF IInv, MarkEnds, Used, Written, Settled, Others, Assigned, At,
        On, Absent
<1>7. FirstUse'
    BY <1>1, <1>2 DEF IInv, FirstUse, Others, Assigned, At, On, Absent
<1>8. Leaving'
    BY <1>1, <1>2 DEF IInv, Leaving, Terminated, Dying, Others, Assigned, At, On,
        Absent
<1> QED
    BY <1>3, <1>4, <1>5, <1>6, <1>7, <1>8 DEF IInv

\* Its creator is the last that Alone speaks of.
LEMMA TrackKeeps ==
    ASSUME IInv, NEW c \in Actors, Track(c)
    PROVE  IInv'
<1> DEFINE s == work[c].session
<1>1. /\ c \in Actors /\ s \in Sessions /\ s # NoSession
      /\ WorkOK' /\ Others(c) /\ work'[c] = Resting
    BY TypeIsWork, RestWork, AtWork, NoSessionAssumption DEF IInv, Track, At, Actors
<1>2. /\ phase' = phase /\ stored' = stored /\ comb' = comb /\ tracked' = tracked \cup {s}
      /\ Assigned
      /\ At(c, "track") /\ phase[s] = "created" /\ stored[s] = "created"
      /\ \A b \in Actors \ {c} : work[b].session # s
    BY <1>1, TypeIsWork, AllAssigned DEF IInv, TypeOK, Alone, Unused, WorkOK, Track, objects
<1>3. TypeOK'
    BY <1>1, <1>2, Limit DEF IInv, TypeOK, WorkOK, Track, objects, checking, Phases,
        Absent
<1>4. MessageIsRecorded' /\ Known' /\ Recorded' /\ Unused'
    BY <1>1, <1>2 DEF IInv, MessageIsRecorded, Known, Recorded, Unused, Bare,
        Resting, Others, Assigned, At, On, Absent
<1>5. Alone'
    BY <1>1, <1>2, NoSessionAssumption DEF IInv, Alone, Resting, Others, Assigned,
        At, On, Absent
<1>6. MarkEnds' /\ Used' /\ Written' /\ Settled'
    BY <1>1, <1>2 DEF IInv, MarkEnds, Used, Written, Settled, Resting, Others,
        Assigned, At, On, Absent
<1>7. FirstUse'
    BY <1>1, <1>2 DEF IInv, FirstUse, Resting, Others, Assigned, At, On, Absent
<1>8. Leaving'
    BY <1>1, <1>2 DEF IInv, Leaving, Terminated, Dying, Resting, Others, Assigned,
        At, On, Absent
<1> QED
    BY <1>3, <1>4, <1>5, <1>6, <1>7, <1>8 DEF IInv

\* The session leaves the cache, and Leaving no longer speaks of it.
LEMMA UncacheKeeps ==
    ASSUME IInv, NEW a \in Actors, Uncache(a)
    PROVE  IInv'
<1> DEFINE s == work[a].session
<1>1. /\ s \in Sessions /\ s # NoSession
      /\ WorkOK' /\ Others(a)
      /\ \/ work'[a] = Resting
         \/ work'[a].step = "clear" /\ work'[a].session = s /\ ~work'[a].stale
    BY TypeIsWork, RestWork, GotoWork, AtWork, NoSessionAssumption
       DEF IInv, Written, Uncache, At, Actors, Steps
<1>2. /\ phase' = phase /\ stored' = stored /\ comb' = comb /\ tracked' = tracked \ {s}
      /\ Assigned
      /\ At(a, "uncache")
    BY <1>1, TypeIsWork, AllAssigned DEF IInv, TypeOK, WorkOK, Uncache, objects
<1>3. TypeOK'
    BY <1>1, <1>2, Limit DEF IInv, TypeOK, WorkOK, Uncache, objects, checking,
        Phases, Absent
<1>4. MessageIsRecorded' /\ Known' /\ Recorded' /\ Unused'
    BY <1>1, <1>2 DEF IInv, MessageIsRecorded, Known, Recorded, Unused, Bare,
        Resting, Others, Assigned, At, On, Absent
<1>5. Alone'
    BY <1>1, <1>2, NoSessionAssumption DEF IInv, Alone, Resting, Others, Assigned,
        At, On, Absent
<1>6. MarkEnds' /\ Used' /\ Written' /\ Settled'
    BY <1>1, <1>2 DEF IInv, MarkEnds, Used, Written, Settled, Resting, Others,
        Assigned, At, On, Absent
<1>7. FirstUse'
    BY <1>1, <1>2 DEF IInv, FirstUse, Resting, Others, Assigned, At, On, Absent
<1>8. Leaving'
    BY <1>1, <1>2 DEF IInv, Leaving, Terminated, Dying, Resting, Others, Assigned,
        At, On, Absent
<1> QED
    BY <1>3, <1>4, <1>5, <1>6, <1>7, <1>8 DEF IInv

\* What is written is no longer Created (Used).
LEMMA WriteKeeps ==
    ASSUME IInv, NEW a \in Actors, Write(a)
    PROVE  IInv'
<1> DEFINE s == work[a].session
<1>1. /\ s \in Sessions /\ s # NoSession
      /\ WorkOK' /\ Others(a)
      /\ work'[a].step = "commit"
      /\ work'[a].session = s
      /\ work'[a].ending = work[a].ending
      /\ work'[a].data = phase[s]
      /\ work'[a].stale = work[a].stale
    BY TypeIsWork, AtWork, NoSessionAssumption
       DEF IInv, TypeOK, WorkOK, Others, Write, At, Actors, Steps
<1>2. /\ phase' = phase /\ stored' = stored /\ comb' = comb /\ tracked' = tracked
      /\ Assigned
      /\ At(a, "write") /\ phase[s] \in Phases \ {"created"} /\ ~work[a].stale
    BY <1>1, TypeIsWork, AllAssigned
       DEF IInv, TypeOK, WorkOK, Used, Known, Written, At, Write, objects
<1>3. TypeOK'
    BY <1>1, <1>2, Limit DEF IInv, TypeOK, WorkOK, Write, objects, checking, Phases,
        Absent
<1>4. MessageIsRecorded' /\ Known' /\ Recorded' /\ Unused'
    BY <1>1, <1>2 DEF IInv, MessageIsRecorded, Known, Recorded, Unused, Bare,
        Others, Assigned, At, On, Absent
<1>5. Alone'
    BY <1>1, <1>2 DEF IInv, Alone, Others, Assigned, At, On, Absent
<1>6. MarkEnds' /\ Used' /\ Written' /\ Settled'
    BY <1>1, <1>2 DEF IInv, MarkEnds, Used, Written, Settled, Others, Assigned, At,
        On, Absent
<1>7. FirstUse'
    BY <1>1, <1>2 DEF IInv, FirstUse, Others, Assigned, At, On, Absent
<1>8. Leaving'
    BY <1>1, <1>2 DEF IInv, Leaving, Terminated, Dying, Others, Assigned, At, On,
        Absent
<1> QED
    BY <1>3, <1>4, <1>5, <1>6, <1>7, <1>8 DEF IInv

\* A commit that wins takes FirstUse's witness away and makes the others stale; one
\* that loses knows the record from Settled.
LEMMA CommitKeeps ==
    ASSUME IInv, NEW a \in Actors, Commit(a)
    PROVE  IInv'
<1> DEFINE s == work[a].session
            new == work'[a]
<1>1. /\ s \in Sessions /\ s # NoSession /\ At(a, "commit")
      /\ Assigned
      /\ work[a].data \in Phases \ {"created"}
      /\ work[a].stale => stored[s] # "created"
    BY TypeIsWork, AllAssigned, AtWork, NoSessionAssumption
       DEF IInv, Commit, At, Written, Settled, WorkOK
<1>2. /\ \A x \in Sessions : stored'[x] = IF x = s /\ ~work[a].stale THEN work[a].data ELSE stored[x]
      /\ phase' = phase /\ comb' = comb /\ tracked' = tracked /\ tracked \subseteq Sessions
    BY <1>1 DEF IInv, TypeOK, Commit, objects
<1>3. /\ new.step = IF work[a].ending THEN "uncache" ELSE "append"
      /\ new.session = s /\ new.ending = work[a].ending /\ ~new.stale
    BY DEF IInv, TypeOK, Commit, AfterUpdate
<1>4. \A b \in Actors \ {a} :
         /\ work'[b].step = work[b].step /\ work'[b].session = work[b].session
         /\ work'[b].ending = work[b].ending /\ work'[b].data = work[b].data
         /\ work'[b].stale =>
               \/ work[b].stale
               \/ At(b, "commit") /\ work[b].session = s /\ ~work[a].stale
    BY DEF IInv, TypeOK, Commit, At
<1>5. WorkOK'
    <2> DEFINE Record == [step : Steps, session : Sessions \cup {NoSession}, ending : BOOLEAN,
                          data : Phases \cup {Absent}, stale : BOOLEAN]
    <2>1. \A b \in Actors : work[b] \in Record
        BY DEF IInv, TypeOK
    <2>2. new \in Record
        <3>1. new = [work[a] EXCEPT !.step = AfterUpdate(a), !.data = Absent, !.stale = FALSE]
            BY DEF Commit
        <3>2. AfterUpdate(a) \in Steps
            BY DEF AfterUpdate, Steps
        <3> QED
            BY <2>1, <3>1, <3>2
    <2>3. \A b \in Actors \ {a} : work'[b] \in {work[b], [work[b] EXCEPT !.stale = TRUE]}
        BY DEF Commit
    <2>4. \A b \in Actors \ {a} : work'[b] \in Record
        <3> SUFFICES ASSUME NEW b \in Actors \ {a}
                     PROVE  work'[b] \in Record
            OBVIOUS
        <3>1. work[b] \in Record
            BY <2>1
        <3>2. [work[b] EXCEPT !.stale = TRUE] \in Record
            BY <3>1
        <3> HIDE DEF Record
        <3> QED
            BY <2>3, <3>1, <3>2
    <2>5. work' \in [Actors -> Record]
        <3>1. work' = [b \in Actors |-> work'[b]]
            BY DEF Commit
        <3>2. \A b \in Actors : work'[b] \in Record
            BY <2>2, <2>4
        <3> HIDE DEF Record
        <3> QED
            BY <3>1, <3>2
    <2>6. \A b \in Actors : At(b, "rest")' <=> work'[b].session = NoSession
        BY <1>1, <1>3, <1>4 DEF IInv, TypeOK, At
    <2> QED
        BY <2>5, <2>6 DEF WorkOK, At
<1>6. TypeOK'
    BY <1>1, <1>2, <1>5 DEF IInv, TypeOK, WorkOK, Commit, objects, checking
<1>7. MessageIsRecorded' /\ Known' /\ Recorded' /\ Unused'
    BY <1>1, <1>2, <1>3, <1>4 DEF IInv, MessageIsRecorded, Known, Recorded, Unused,
        Bare, Used, Phases, Assigned, At, On, Absent
<1>8. Alone'
    BY <1>1, <1>2, <1>3, <1>4 DEF IInv, Alone, Assigned, At, On, Absent
<1>9. MarkEnds' /\ Used' /\ Written' /\ Settled'
    BY <1>1, <1>2, <1>3, <1>4 DEF IInv, MarkEnds, Used, Written, Settled, Phases,
        Assigned, At, On, Absent
<1>10. FirstUse'
    BY <1>1, <1>2, <1>3, <1>4 DEF IInv, FirstUse, Assigned, At, On, Absent
<1>11. Leaving'
    BY <1>1, <1>2, <1>3, <1>4 DEF IInv, Leaving, Terminated, Dying, Phases,
        Assigned, At, On, Absent
<1> QED
    BY <1>6, <1>7, <1>8, <1>9, <1>10, <1>11 DEF IInv

\* A restart leaves nothing but records.
LEMMA RestartKeeps ==
    ASSUME IInv, Restart
    PROVE  IInv'
<1>1. /\ stored' = stored /\ comb' = {} /\ tracked' = {}
      /\ \A x \in Sessions : phase'[x] = Absent
      /\ \A a \in Actors : work'[a] = Resting
    BY DEF Restart
<1>2. TypeOK'
    <2>1. WorkOK'
        BY DEF WorkOK, Restart, Resting, Steps, At
    <2>2. /\ phase' \in [Sessions -> Phases \cup {Absent}]
          /\ unchecked' = {} /\ ticked' = FALSE
          /\ tracked' = {} /\ comb' = {}
        BY DEF Restart
    <2>3. restarts' \in 0 .. RestartBound
        BY Limit DEF IInv, TypeOK, Restart
    <2>4. UNCHANGED <<stored, age, life>>
        BY DEF Restart
    <2> QED
        BY <2>1, <2>2, <2>3, <2>4 DEF IInv, TypeOK, WorkOK
<1>3. MessageIsRecorded' /\ Known' /\ Recorded' /\ Alone' /\ MarkEnds' /\ Used' /\ Written'
      /\ Settled' /\ Unused' /\ FirstUse' /\ Leaving'
    BY <1>1
       DEF MessageIsRecorded, Known, Recorded, Alone, MarkEnds, Used, Written,
           Settled, Unused,
                FirstUse, Leaving, At, Resting, Absent
<1> QED
    BY <1>2, <1>3 DEF IInv

LEMMA InitIInv == Init => IInv
<1> SUFFICES ASSUME Init PROVE IInv
    OBVIOUS
<1>1. TypeOK
    <2>1. WorkOK
        BY DEF WorkOK, Init, Resting, Steps, At
    <2>2. stored \in [Sessions -> Phases \cup {Absent}] /\ phase \in [Sessions -> Phases \cup {Absent}]
        BY DEF Init
    <2>3. age \in [Sessions -> 0 .. Old] /\ life \in [Sessions -> 0 .. Dated]
        BY Limit DEF Init
    <2>4. restarts \in 0 .. RestartBound
        BY Limit DEF Init
    <2>5. unchecked = {} /\ ticked = FALSE /\ tracked = {} /\ comb = {}
        BY DEF Init
    <2> QED
        BY <2>1, <2>2, <2>3, <2>4, <2>5 DEF TypeOK, WorkOK
<1>2. MessageIsRecorded /\ Known /\ Recorded /\ Alone /\ MarkEnds /\ Used /\ Written
      /\ Settled /\ Unused /\ FirstUse /\ Leaving
    BY
       DEF Init, MessageIsRecorded, Known, Recorded, Alone, MarkEnds, Used, Written,
           Settled, Unused,
           FirstUse, Leaving, At, Resting, Absent
<1> QED
    BY <1>1, <1>2 DEF IInv

LEMMA StepKeeps == IInv /\ [Next]_vars => IInv'
<1> SUFFICES ASSUME IInv, [Next]_vars PROVE IInv'
    OBVIOUS
<1>0. IInv => WorkOK
    BY TypeIsWork DEF IInv
<1>1. ASSUME NEW c \in Callers, NEW s \in Sessions, SendMessage(c, s) PROVE IInv'
    <2>1. c \in Actors /\ s \in tracked /\ phase[s] # Absent /\ At(c, "rest") /\ Begin(c, s, "update")
        BY <1>1 DEF SendMessage, Actors, IInv, TypeOK, Phases, Absent
    <2>2. TypeOK'
        BY <1>1, <1>0, <2>1, BeginWork
           DEF IInv, TypeOK, WorkOK, SendMessage, objects, checking, Steps
    <2> QED
        BY <1>1, <2>1, <2>2, BeginKeeps DEF SendMessage, objects
<1>2. ASSUME NEW c \in Callers, NEW s \in Sessions, DeleteSession(c, s) PROVE IInv'
    <2>1. c \in Actors /\ s \in tracked /\ phase[s] # Absent /\ At(c, "rest") /\ Begin(c, s, "mark")
        BY <1>2 DEF DeleteSession, Terminate, Actors, IInv, TypeOK, Phases, Absent
    <2>2. TypeOK'
        BY <1>2, <1>0, <2>1, BeginWork
           DEF IInv, TypeOK, WorkOK, DeleteSession, objects, checking, Steps
    <2> QED
        BY <1>2, <2>1, <2>2, BeginKeeps DEF DeleteSession, objects
<1>3. ASSUME NEW s \in Sessions, CheckSession(s) PROVE IInv'
    <2> USE <1>3
    <2>0. Monitor \in Actors /\ At(Monitor, "rest") /\ UNCHANGED <<stored, phase, tracked, comb>>
        BY DEF CheckSession, Actors, objects
    <2>1. CASE s \in tracked /\ Begin(Monitor, s, "mark")
        <3>1. phase[s] # Absent
            BY <2>1 DEF IInv, TypeOK, Phases, Absent
        <3>2. TypeOK'
            BY <1>0, <2>0, <2>1, BeginWork
               DEF IInv, TypeOK, WorkOK, CheckSession, objects, checking, Steps
        <3> QED
            BY <2>0, <2>1, <3>1, <3>2, BeginKeeps
    <2>2. CASE phase[s] = "active" /\ Begin(Monitor, s, "dim")
        <3>1. TypeOK'
            BY <1>0, <2>0, <2>2, BeginWork
               DEF IInv, TypeOK, WorkOK, CheckSession, objects, checking, Steps
        <3> QED
            BY <2>0, <2>2, <3>1, BeginKeeps DEF Absent
    <2>3. CASE s \notin tracked /\ Rest(Monitor)
        <3>1. TypeOK'
            BY <1>0, <2>0, <2>3, RestWork DEF IInv, TypeOK, WorkOK, CheckSession, objects
        <3>2. MessageIsRecorded'
            BY <2>0 DEF IInv, MessageIsRecorded
        <3> QED
            BY <2>0, <2>3, <3>1, <3>2, RestKeeps DEF At
    <2>4. CASE UNCHANGED work
        <3>1. TypeOK'
            BY <2>0, <2>4 DEF IInv, TypeOK, CheckSession, objects, At
        <3> QED
            BY <2>0, <2>4, <3>1, SameKeeps
    <2> QED
        BY <2>1, <2>2, <2>3, <2>4 DEF CheckSession, Terminate
<1>4. ASSUME NEW c \in Actors, FindState(c) PROVE IInv'
    <2>1. CASE Rest(c)
        <3>1. TypeOK' /\ MessageIsRecorded'
            BY <1>4, <1>0, <2>1, RestWork
               DEF IInv, TypeOK, WorkOK, MessageIsRecorded, FindState, objects,
                   checking
        <3> QED
            BY <1>4, <2>1, <3>1, RestKeeps DEF FindState, At, objects
    <2>2. CASE Goto(c, "touch")
        BY <1>4, <2>2, FindKeeps
    <2> QED
        BY <1>4, <2>1, <2>2 DEF FindState
<1>5. ASSUME NEW c \in Actors, AppendMessage(c) PROVE IInv'
    <2>1. work[c].session \in Sessions
        BY <1>5, <1>0, AtWork DEF AppendMessage, At
    <2>2. TypeOK'
        BY <1>5, <1>0, <2>1, RestWork
           DEF IInv, TypeOK, WorkOK, AppendMessage, objects, checking,
               Keyspaces, Bare
    <2>3. MessageIsRecorded'
        BY <1>5, <2>1
           DEF IInv, MessageIsRecorded, AppendMessage, Bare, Settled, Known,
               TypeOK, At
    <2> QED
        BY <1>5, <2>2, <2>3, RestKeeps DEF AppendMessage, At, objects
<1>6. ASSUME NEW c \in Actors, ClearComb(c) PROVE IInv'
    <2>1. TypeOK'
        BY <1>6, <1>0, RestWork DEF IInv, TypeOK, WorkOK, ClearComb, objects, checking
    <2>2. MessageIsRecorded'
        BY <1>6 DEF IInv, MessageIsRecorded, ClearComb
    <2> QED
        BY <1>6, <2>1, <2>2, RestKeeps DEF ClearComb, At, objects
<1>7. ASSUME Tick PROVE IInv'
    <2>1. TypeOK'
        BY <1>7, Limit DEF IInv, TypeOK, Tick, Older, At, Old, Dated
    <2> QED
        BY <1>7, <2>1, SameKeeps DEF Tick
<1>8. ASSUME StartCheck PROVE IInv'
    <2>1. TypeOK'
        BY <1>8 DEF IInv, TypeOK, StartCheck, objects, At
    <2> QED
        BY <1>8, <2>1, SameKeeps DEF StartCheck, objects
<1>9. ASSUME UNCHANGED vars PROVE IInv'
    <2>1. TypeOK'
        BY <1>9 DEF IInv, TypeOK, vars, At
    <2> QED
        BY <1>9, <2>1, SameKeeps DEF vars
<1>10. ASSUME NEW a \in Actors, Continue(a) PROVE IInv'
    BY <1>4, <1>5, <1>6, <1>10, TrackKeeps, TouchKeeps, WriteKeeps, CommitKeeps,
    MarkKeeps, UncacheKeeps
       DEF Continue
<1> QED
    BY <1>1, <1>2, <1>3, <1>7, <1>8, <1>9, <1>10, CreateSessionKeeps, DimKeeps,
       RestartKeeps
       DEF Next, Check

LEMMA InductiveInv == Spec => []IInv
BY InitIInv, StepKeeps, PTL DEF Spec

(***************************************************************************)
(* Every variable always has its type.                                     *)
(***************************************************************************)
THEOREM TypeCorrect == Spec => []TypeOK
BY InductiveInv, PTL DEF IInv

(***************************************************************************)
(* A session that has a conversation is recorded as used: an update that   *)
(* loses has lost against one that recorded it.                            *)
(***************************************************************************)
THEOREM MessagesRecorded == Spec => []MessageIsRecorded
BY InductiveInv, PTL DEF IInv

(***************************************************************************)
(* What is tracked and left alone is alive, in the object and in the       *)
(* store.                                                                  *)
(***************************************************************************)
THEOREM TrackedAlive == Spec => []TrackedIsLive
<1>1. IInv => TrackedIsLive
    BY
       DEF IInv, TrackedIsLive, TypeOK, Unused, FirstUse, Leaving, Terminated,
           Dying, Quiet, On, Absent, Phases
<1> QED
    BY <1>1, InductiveInv, PTL

--------------------------------------------------------------------------------
(***************************************************************************)
(* The Comb.  Its memoryUsage is the sum of the sizes of its values, and   *)
(* the library's sums over sets are defined by recursion, an element at a  *)
(* time.  What they are is proved from the smallest set of which it would  *)
(* be false.                                                               *)
(***************************************************************************)

\* Every set of subsets of a finite set has a smallest one.
LEMMA Smallest ==
    ASSUME NEW U, IsFiniteSet(U), NEW B, B \subseteq SUBSET U, B # {}
    PROVE  \E s \in B : \A t \in B : t \subseteq s => t = s
<1>1. IsWellFoundedOn(StrictSubsetOrdering(U), FiniteSubsetsOf(U))
    BY FS_StrictSubsetOrderingWellFounded
<1>2. B \subseteq FiniteSubsetsOf(U)
    BY FS_FiniteSubsetsOfFinite
<1>3. PICK s \in B : \A t \in B : ~(<<t, s>> \in StrictSubsetOrdering(U))
    BY <1>1, <1>2, WFMin
<1>4. \A t \in B : t \subseteq s => t = s
    BY <1>3 DEF StrictSubsetOrdering
<1> QED
    BY <1>4

Pick(s) == CHOOSE x \in s : TRUE

\* g adds up f over the subsets of U, an element at a time.
Adds(g, f, U) ==
    g = [s \in SUBSET U |-> IF s = {} THEN 0 ELSE f[Pick(s)] + g[s \ {Pick(s)}]]

LEMMA Picked ==
    ASSUME NEW s, s # {}
    PROVE  Pick(s) \in s /\ s \ {Pick(s)} \subseteq s /\ s \ {Pick(s)} # s
BY DEF Pick

LEMMA AddsAgree ==
    ASSUME NEW U, IsFiniteSet(U), NEW V, NEW f, NEW e, NEW g, NEW h,
           Adds(g, f, U), Adds(h, e, V), \A x \in U \cap V : f[x] = e[x]
    PROVE  \A s \in SUBSET (U \cap V) : g[s] = h[s]
<1> DEFINE bad == {s \in SUBSET (U \cap V) : g[s] # h[s]}
<1>1. SUFFICES ASSUME bad # {} PROVE FALSE
    OBVIOUS
<1>2. bad \subseteq SUBSET U
    OBVIOUS
<1>3. PICK s \in bad : \A t \in bad : t \subseteq s => t = s
    <2> HIDE DEF bad
    <2> QED
        BY <1>1, <1>2, Smallest
<1>4. s \in SUBSET U /\ s \in SUBSET V /\ g[s] # h[s]
    OBVIOUS
<1>5. /\ g[s] = IF s = {} THEN 0 ELSE f[Pick(s)] + g[s \ {Pick(s)}]
      /\ h[s] = IF s = {} THEN 0 ELSE e[Pick(s)] + h[s \ {Pick(s)}]
    BY <1>4 DEF Adds
<1>6. s # {}
    BY <1>4, <1>5
<1>7. g[s \ {Pick(s)}] = h[s \ {Pick(s)}]
    BY <1>3, <1>4, <1>6, Picked
<1>8. Pick(s) \in U \cap V
    BY <1>4, <1>6, Picked
<1> QED
    BY <1>4, <1>5, <1>6, <1>7, <1>8

LEMMA AddsExists ==
    ASSUME NEW U, IsFiniteSet(U), NEW f \in [U -> Nat]
    PROVE  \E g \in [SUBSET U -> Nat] : Adds(g, f, U)
<1> DEFINE Added(s) == \E g \in [SUBSET s -> Nat] : Adds(g, f, s)
           bad == {s \in SUBSET U : ~Added(s)}
<1>1. SUFFICES ASSUME bad # {} PROVE FALSE
    OBVIOUS
<1>2. PICK s \in bad : \A t \in bad : t \subseteq s => t = s
    <2>1. bad \subseteq SUBSET U
        OBVIOUS
    <2> HIDE DEF bad
    <2> QED
        BY <1>1, <2>1, Smallest
<1>3. s \subseteq U /\ ~Added(s) /\ \A t \in SUBSET s : t # s => Added(t)
    BY <1>2
<1> DEFINE sum(t) == CHOOSE g \in [SUBSET t -> Nat] : Adds(g, f, t)
<1>4. \A t \in SUBSET s : t # s => sum(t) \in [SUBSET t -> Nat] /\ Adds(sum(t), f, t)
    BY <1>3
<1> HIDE DEF sum, bad, Added
<1> DEFINE g == [t \in SUBSET s |-> IF t = {} THEN 0
                                    ELSE f[Pick(t)] + sum(t \ {Pick(t)})[t \ {Pick(t)}]]
<1>5. \A t \in SUBSET s : t # {} => /\ Pick(t) \in U /\ t \ {Pick(t)} \in SUBSET s
                                    /\ t \ {Pick(t)} # s
    BY <1>3, Picked
<1>6. g \in [SUBSET s -> Nat]
    <2> SUFFICES ASSUME NEW t \in SUBSET s, t # {}
                 PROVE  f[Pick(t)] + sum(t \ {Pick(t)})[t \ {Pick(t)}] \in Nat
        OBVIOUS
    <2>1. f[Pick(t)] \in Nat
        BY <1>5
    <2>2. sum(t \ {Pick(t)}) \in [SUBSET (t \ {Pick(t)}) -> Nat]
        BY <1>4, <1>5
    <2>3. sum(t \ {Pick(t)})[t \ {Pick(t)}] \in Nat
        BY <2>2
    <2> QED
        BY <2>1, <2>3
\* What g adds up at a smaller set is what that set's own sum is.
<1>7. ASSUME NEW u \in SUBSET s, u # s PROVE g[u] = sum(u)[u]
    <2>1. sum(u)[u] = IF u = {} THEN 0 ELSE f[Pick(u)] + sum(u)[u \ {Pick(u)}]
        BY <1>4, <1>7 DEF Adds
    <2>2. ASSUME u # {} PROVE sum(u)[u \ {Pick(u)}] = sum(u \ {Pick(u)})[u \ {Pick(u)}]
        <3> DEFINE v == u \ {Pick(u)}
        <3>1. v \subseteq u /\ v \in SUBSET s /\ v # s
            BY <1>5, <1>7, <2>2
        <3>2. IsFiniteSet(u)
            BY <1>3, FS_Subset
        <3>3. Adds(sum(u), f, u) /\ Adds(sum(v), f, v)
            BY <1>4, <1>7, <3>1
        <3> HIDE DEF v
        <3>4. v \in SUBSET (u \cap v)
            BY <3>1
        <3>5. \A t \in SUBSET (u \cap v) : sum(u)[t] = sum(v)[t]
            BY <3>2, <3>3, AddsAgree
        <3>6. sum(u)[v] = sum(v)[v]
            BY <3>4, <3>5
        <3> QED
            BY <3>6 DEF v
    <2>3. g[u] = IF u = {} THEN 0 ELSE f[Pick(u)] + sum(u \ {Pick(u)})[u \ {Pick(u)}]
        OBVIOUS
    <2> HIDE DEF g
    <2>4. CASE u = {}
        BY <2>1, <2>3, <2>4
    <2>5. CASE u # {}
        BY <2>1, <2>2, <2>3, <2>5
    <2> QED
        BY <2>4, <2>5
<1>8. ASSUME NEW t \in SUBSET s, t # {}
      PROVE  sum(t \ {Pick(t)})[t \ {Pick(t)}] = g[t \ {Pick(t)}]
    BY <1>5, <1>7, <1>8
<1>9. Adds(g, f, s)
    <2>1. g = [t \in SUBSET s |-> IF t = {} THEN 0 ELSE f[Pick(t)] + g[t \ {Pick(t)}]]
        <3> DEFINE h == [t \in SUBSET s |-> IF t = {} THEN 0 ELSE f[Pick(t)] + g[t \ {Pick(t)}]]
        <3>1. \A t \in SUBSET s : g[t] = h[t]
            BY <1>8
        <3>2. DOMAIN g = SUBSET s /\ DOMAIN h = SUBSET s
            OBVIOUS
        <3> QED
            BY <3>1, <3>2
    <2> QED
        BY <2>1 DEF Adds
<1> QED
    BY <1>3, <1>6, <1>9 DEF Added

\* The sum of f over S, for a finite S.
Sum(f, S) == (CHOOSE g : Adds(g, f, S))[S]

LEMMA SumAdds ==
    ASSUME NEW U, IsFiniteSet(U), NEW f \in [U -> Nat], NEW s \in SUBSET U
    PROVE  /\ \E g \in [SUBSET s -> Nat] : Adds(g, f, s)
           /\ Adds(CHOOSE g : Adds(g, f, s), f, s)
<1>1. IsFiniteSet(s)
    BY FS_Subset
<1> DEFINE e == [x \in s |-> f[x]]
<1>2. e \in [s -> Nat] /\ \A x \in s : e[x] = f[x]
    OBVIOUS
<1> HIDE DEF e
<1>3. PICK h \in [SUBSET s -> Nat] : Adds(h, e, s)
    BY <1>1, <1>2, AddsExists
<1>4. Adds(h, f, s)
    <2>1. \A t \in SUBSET s : t # {} => e[Pick(t)] = f[Pick(t)]
        BY <1>2, Picked
    <2>2. h = [t \in SUBSET s |-> IF t = {} THEN 0 ELSE e[Pick(t)] + h[t \ {Pick(t)}]]
        BY <1>3 DEF Adds
    <2>3. [t \in SUBSET s |-> IF t = {} THEN 0 ELSE e[Pick(t)] + h[t \ {Pick(t)}]]
          = [t \in SUBSET s |-> IF t = {} THEN 0 ELSE f[Pick(t)] + h[t \ {Pick(t)}]]
        BY <2>1
    <2> QED
        BY <2>2, <2>3 DEF Adds
<1>5. Adds(CHOOSE g : Adds(g, f, s), f, s)
    BY <1>4
<1> QED
    BY <1>4, <1>5

LEMMA SumStep ==
    ASSUME NEW U, IsFiniteSet(U), NEW f \in [U -> Nat]
    PROVE  /\ Sum(f, {}) = 0
           /\ \A s \in SUBSET U :
                 /\ Sum(f, s) \in Nat
                 /\ s # {} => Sum(f, s) = f[Pick(s)] + Sum(f, s \ {Pick(s)})
<1>1. PICK g \in [SUBSET U -> Nat] : Adds(g, f, U)
    BY AddsExists
<1>2. ASSUME NEW s \in SUBSET U PROVE Sum(f, s) = g[s]
    <2> DEFINE k == CHOOSE k : Adds(k, f, s)
    <2>0. Sum(f, s) = k[s]
        BY DEF Sum
    <2>1. Adds(k, f, s)
        BY SumAdds
    <2> HIDE DEF k
    <2>2. IsFiniteSet(s)
        BY FS_Subset
    <2>3. s \in SUBSET (s \cap U)
        OBVIOUS
    <2>4. \A t \in SUBSET (s \cap U) : k[t] = g[t]
        BY <1>1, <2>1, <2>2, AddsAgree
    <2> QED
        BY <2>0, <2>3, <2>4
<1>3. \A s \in SUBSET U : g[s] = IF s = {} THEN 0 ELSE f[Pick(s)] + g[s \ {Pick(s)}]
    BY <1>1 DEF Adds
<1>4. \A s \in SUBSET U : s \ {Pick(s)} \in SUBSET U
    OBVIOUS
<1>5. ASSUME NEW s \in SUBSET U, s # {} PROVE Sum(f, s) = f[Pick(s)] + Sum(f, s \ {Pick(s)})
    BY <1>2, <1>3, <1>4, <1>5
<1>6. Sum(f, {}) = 0
    BY <1>2, <1>3
<1> QED
    BY <1>1, <1>2, <1>5, <1>6

\* It does not matter in which order the elements are added.
LEMMA SumRemove ==
    ASSUME NEW U, IsFiniteSet(U), NEW f \in [U -> Nat]
    PROVE  \A s \in SUBSET U : \A x \in s : Sum(f, s) = f[x] + Sum(f, s \ {x})
<1> DEFINE bad == {s \in SUBSET U : \E x \in s : Sum(f, s) # f[x] + Sum(f, s \ {x})}
<1>1. SUFFICES ASSUME bad # {} PROVE FALSE
    OBVIOUS
<1>2. PICK s \in bad : \A t \in bad : t \subseteq s => t = s
    <2>1. bad \subseteq SUBSET U
        OBVIOUS
    <2> HIDE DEF bad
    <2> QED
        BY <1>1, <2>1, Smallest
<1>3. PICK x \in s : Sum(f, s) # f[x] + Sum(f, s \ {x})
    OBVIOUS
<1>4. \A t \in SUBSET s : t # s => \A z \in t : Sum(f, t) = f[z] + Sum(f, t \ {z})
    BY <1>2
<1>5. s \in SUBSET U
    OBVIOUS
<1> HIDE DEF bad
<1> DEFINE y == Pick(s)
<1>6. y \in s
    BY <1>3, Picked
<1>7. Sum(f, s) = f[y] + Sum(f, s \ {y})
    BY <1>3, <1>5, SumStep
<1> HIDE DEF y
<1>8. x # y
    BY <1>3, <1>7
<1>9. Sum(f, s \ {y}) = f[x] + Sum(f, (s \ {y}) \ {x})
    BY <1>4, <1>6, <1>8
<1>10. Sum(f, s \ {x}) = f[y] + Sum(f, (s \ {x}) \ {y})
    BY <1>4, <1>6, <1>8
<1>11. (s \ {y}) \ {x} = (s \ {x}) \ {y}
    OBVIOUS
<1>12. f[x] \in Nat /\ f[y] \in Nat /\ Sum(f, (s \ {x}) \ {y}) \in Nat
    <2>1. (s \ {x}) \ {y} \in SUBSET U
        BY <1>5
    <2> QED
        BY <1>5, <1>6, <2>1, SumStep
<1>13. Sum(f, s) = f[y] + (f[x] + Sum(f, (s \ {x}) \ {y}))
    BY <1>7, <1>9, <1>11
<1>14. Sum(f, s) # f[x] + (f[y] + Sum(f, (s \ {x}) \ {y}))
    BY <1>3, <1>10
<1> HIDE DEF Sum
<1> QED
    BY <1>12, <1>13, <1>14

LEMMA SumSame ==
    ASSUME NEW U, IsFiniteSet(U), NEW f \in [U -> Nat], NEW e \in [U -> Nat]
    PROVE  \A s \in SUBSET U : (\A x \in s : f[x] = e[x]) => Sum(f, s) = Sum(e, s)
<1> DEFINE bad == {s \in SUBSET U : (\A x \in s : f[x] = e[x]) /\ Sum(f, s) # Sum(e, s)}
<1>1. SUFFICES ASSUME bad # {} PROVE FALSE
    OBVIOUS
<1>2. PICK s \in bad : \A t \in bad : t \subseteq s => t = s
    <2>1. bad \subseteq SUBSET U
        OBVIOUS
    <2> HIDE DEF bad
    <2> QED
        BY <1>1, <2>1, Smallest
<1>3. s \in SUBSET U /\ (\A x \in s : f[x] = e[x]) /\ Sum(f, s) # Sum(e, s)
    OBVIOUS
<1>4. \A t \in SUBSET s : t # s => Sum(f, t) = Sum(e, t)
    BY <1>2, <1>3
<1> HIDE DEF bad
<1>5. s # {}
    BY <1>3, SumStep
<1>6. /\ Sum(f, s) = f[Pick(s)] + Sum(f, s \ {Pick(s)})
      /\ Sum(e, s) = e[Pick(s)] + Sum(e, s \ {Pick(s)})
    BY <1>3, <1>5, SumStep
<1>7. Pick(s) \in s /\ Sum(f, s \ {Pick(s)}) = Sum(e, s \ {Pick(s)})
    BY <1>4, <1>5, Picked
<1> QED
    BY <1>3, <1>6, <1>7

LEMMA SumSplit ==
    ASSUME NEW U, IsFiniteSet(U), NEW f \in [U -> Nat], NEW s \in SUBSET U
    PROVE  \A K \in SUBSET s : Sum(f, s) = Sum(f, K) + Sum(f, s \ K)
<1> DEFINE bad == {K \in SUBSET s : Sum(f, s) # Sum(f, K) + Sum(f, s \ K)}
<1>1. SUFFICES ASSUME bad # {} PROVE FALSE
    OBVIOUS
<1>2. PICK K \in bad : \A t \in bad : t \subseteq K => t = K
    <2>1. bad \subseteq SUBSET U
        OBVIOUS
    <2> HIDE DEF bad
    <2> QED
        BY <1>1, <2>1, Smallest
<1>3. K \in SUBSET s /\ Sum(f, s) # Sum(f, K) + Sum(f, s \ K)
    OBVIOUS
<1>4. \A t \in SUBSET K : t # K => Sum(f, s) = Sum(f, t) + Sum(f, s \ t)
    BY <1>2, <1>3
<1> HIDE DEF bad
<1>5. Sum(f, s) \in Nat /\ Sum(f, {}) = 0
    BY SumStep
<1>6. K # {}
    <2>1. s \ {} = s
        OBVIOUS
    <2> QED
        BY <1>3, <1>5, <2>1
<1>7. PICK x \in K : TRUE
    BY <1>6
<1> DEFINE t == K \ {x}
<1>8. Sum(f, s) = Sum(f, t) + Sum(f, s \ t)
    BY <1>4, <1>7
<1>9. K \in SUBSET U /\ s \ t \in SUBSET U /\ x \in s \ t /\ (s \ t) \ {x} = s \ K
    BY <1>3, <1>7
<1>10. Sum(f, K) = f[x] + Sum(f, t) /\ Sum(f, s \ t) = f[x] + Sum(f, s \ K)
    BY <1>7, <1>9, SumRemove
<1>11. f[x] \in Nat /\ Sum(f, t) \in Nat /\ Sum(f, s \ K) \in Nat
    <2>1. t \in SUBSET U /\ s \ K \in SUBSET U /\ x \in U
        BY <1>3
    <2> QED
        BY <2>1, SumStep
<1> QED
    BY <1>3, <1>8, <1>10, <1>11

LEMMA SumZero ==
    ASSUME NEW U, IsFiniteSet(U), NEW f \in [U -> Nat]
    PROVE  \A s \in SUBSET U : (\A x \in s : f[x] = 0) => Sum(f, s) = 0
<1> DEFINE bad == {s \in SUBSET U : (\A x \in s : f[x] = 0) /\ Sum(f, s) # 0}
<1>1. SUFFICES ASSUME bad # {} PROVE FALSE
    OBVIOUS
<1>2. PICK s \in bad : \A t \in bad : t \subseteq s => t = s
    <2>1. bad \subseteq SUBSET U
        OBVIOUS
    <2> HIDE DEF bad
    <2> QED
        BY <1>1, <2>1, Smallest
<1>3. s \in SUBSET U /\ (\A x \in s : f[x] = 0) /\ Sum(f, s) # 0
    OBVIOUS
<1>4. \A t \in SUBSET s : t # s => Sum(f, t) = 0
    BY <1>2, <1>3
<1> HIDE DEF bad
<1>5. s # {}
    BY <1>3, SumStep
<1>6. Sum(f, s) = f[Pick(s)] + Sum(f, s \ {Pick(s)})
    BY <1>3, <1>5, SumStep
<1>7. f[Pick(s)] = 0 /\ Sum(f, s \ {Pick(s)}) = 0
    BY <1>3, <1>4, <1>5, Picked
<1> QED
    BY <1>3, <1>6, <1>7

\* Changing f at one place, and making it zero at some.
LEMMA SumChanged ==
    ASSUME NEW U, IsFiniteSet(U), NEW f \in [U -> Nat], NEW e \in [U -> Nat], NEW k \in U,
           \A x \in U \ {k} : e[x] = f[x]
    PROVE  /\ Sum(f, U) \in Nat /\ Sum(e, U) \in Nat /\ f[k] <= Sum(f, U)
           /\ Sum(e, U) = Sum(f, U) - f[k] + e[k]
<1>1. Sum(f, U) = f[k] + Sum(f, U \ {k}) /\ Sum(e, U) = e[k] + Sum(e, U \ {k})
    BY SumRemove
<1>2. Sum(e, U \ {k}) = Sum(f, U \ {k})
    BY SumSame
<1>3. Sum(f, U \ {k}) \in Nat /\ Sum(f, U) \in Nat /\ Sum(e, U) \in Nat
    BY SumStep
<1>4. f[k] \in Nat /\ e[k] \in Nat
    OBVIOUS
<1> QED
    BY <1>1, <1>2, <1>3, <1>4

LEMMA SumDropped ==
    ASSUME NEW U, IsFiniteSet(U), NEW f \in [U -> Nat], NEW e \in [U -> Nat], NEW K \in SUBSET U,
           \A x \in U : e[x] = IF x \in K THEN 0 ELSE f[x]
    PROVE  /\ Sum(f, U) \in Nat /\ Sum(e, U) \in Nat /\ Sum(f, K) \in Nat
           /\ Sum(e, U) = Sum(f, U) - Sum(f, K)
<1>1. Sum(f, U) = Sum(f, K) + Sum(f, U \ K) /\ Sum(e, U) = Sum(e, K) + Sum(e, U \ K)
    BY SumSplit
<1>2. Sum(e, U \ K) = Sum(f, U \ K)
    BY SumSame
<1>3. Sum(e, K) = 0
    BY SumZero
<1>4. Sum(f, U \ K) \in Nat /\ Sum(f, K) \in Nat /\ Sum(f, U) \in Nat /\ Sum(e, U) \in Nat
    BY SumStep
<1> QED
    BY <1>1, <1>2, <1>3, <1>4

--------------------------------------------------------------------------------
(* The sizes of the values, and what the model adds up of them.            *)

Bytes == Items \cup {Digit}
Ttls == {"gone", "none", "running", "over"}

DataOK ==
    /\ data \in [Keys -> [value : Seq(Bytes), ttl : Ttls]]
    /\ \A k \in Keys : data[k].ttl = "gone" => data[k].value = <<>>

Sizes == [k \in Keys |-> Size(k)]

LEMMA KeysFinite == IsFiniteSet(Keys)
<1>1. IsFiniteSet(Plain) /\ IsFiniteSet(Artifacts)
    BY KeysAssumption, FS_Subset
<1>2. IsFiniteSet({Data(a) : a \in Artifacts})
    <2> DEFINE D == [a \in Artifacts |-> Data(a)]
    <2>1. D \in Surjection(Artifacts, {Data(a) : a \in Artifacts})
        BY DEF Surjection
    <2> QED
        BY <1>1, <2>1, FS_Surjection
<1>3. IsFiniteSet({Conversation, ArtifactList, State, History})
    <2>1. IsFiniteSet({Conversation}) /\ IsFiniteSet({ArtifactList})
          /\ IsFiniteSet({State}) /\ IsFiniteSet({History})
        BY FS_Singleton
    <2>2. {Conversation, ArtifactList, State, History}
          = {Conversation} \cup ({ArtifactList} \cup ({State} \cup {History}))
        OBVIOUS
    <2>3. IsFiniteSet({State} \cup {History})
        BY <2>1, FS_Union
    <2>4. IsFiniteSet({ArtifactList} \cup ({State} \cup {History}))
        BY <2>1, <2>3, FS_Union
    <2>5. IsFiniteSet({Conversation} \cup ({ArtifactList} \cup ({State} \cup {History})))
        BY <2>1, <2>4, FS_Union
    <2> QED
        BY <2>2, <2>5
<1> QED
    BY <1>1, <1>2, <1>3, FS_Union DEF Keys, Reserved

LEMMA SizesType == DataOK => Sizes \in [Keys -> Nat]
BY LenProperties DEF DataOK, Sizes, Size

LEMMA AddedUp ==
    ASSUME DataOK, NEW K \in SUBSET Keys
    PROVE  MapThenSumSet(Size, K) = Sum(Sizes, K)
<1>1. PICK g : Adds(g, Sizes, K)
    BY KeysFinite, SizesType, SumAdds
<1>2. g = [s \in SUBSET K |-> IF s = {} THEN 0
                              ELSE LET x == CHOOSE x \in s : TRUE IN Size(x) + g[s \ {x}]]
    <2>1. \A s \in SUBSET K : s # {} => Sizes[Pick(s)] = Size(Pick(s))
        BY Picked DEF Sizes
    <2>2. g = [s \in SUBSET K |-> IF s = {} THEN 0 ELSE Sizes[Pick(s)] + g[s \ {Pick(s)}]]
        BY <1>1 DEF Adds
    <2>3. [s \in SUBSET K |-> IF s = {} THEN 0 ELSE Sizes[Pick(s)] + g[s \ {Pick(s)}]]
          = [s \in SUBSET K |-> IF s = {} THEN 0 ELSE Size(Pick(s)) + g[s \ {Pick(s)}]]
        BY <2>1
    <2>4. g = [s \in SUBSET K |-> IF s = {} THEN 0 ELSE Size(Pick(s)) + g[s \ {Pick(s)}]]
        BY <2>2, <2>3
    <2> QED
        BY <2>4 DEF Pick
<1> DEFINE h == CHOOSE h : h = [s \in SUBSET K |-> IF s = {} THEN 0
                             ELSE LET x == CHOOSE x \in s : TRUE IN Size(x) + h[s \ {x}]]
<1>3. h = [s \in SUBSET K |-> IF s = {} THEN 0
                              ELSE LET x == CHOOSE x \in s : TRUE IN Size(x) + h[s \ {x}]]
    BY <1>2
<1>4. MapThenSumSet(Size, K) = h[K]
    BY DEF MapThenSumSet, MapThenFoldSet
<1> HIDE DEF h
<1>5. Adds(h, Sizes, K)
    <2>1. \A s \in SUBSET K : s # {} => Sizes[Pick(s)] = Size(Pick(s))
        BY Picked DEF Sizes
    <2>2. h = [s \in SUBSET K |-> IF s = {} THEN 0 ELSE Size(Pick(s)) + h[s \ {Pick(s)}]]
        BY <1>3 DEF Pick
    <2>3. [s \in SUBSET K |-> IF s = {} THEN 0 ELSE Sizes[Pick(s)] + h[s \ {Pick(s)}]]
          = [s \in SUBSET K |-> IF s = {} THEN 0 ELSE Size(Pick(s)) + h[s \ {Pick(s)}]]
        BY <2>1
    <2> QED
        BY <2>2, <2>3 DEF Adds
<1> DEFINE k == CHOOSE k : Adds(k, Sizes, K)
<1>6. Adds(k, Sizes, K) /\ Sum(Sizes, K) = k[K]
    BY KeysFinite, SizesType, SumAdds DEF Sum
<1> HIDE DEF k
<1>7. IsFiniteSet(K)
    BY KeysFinite, FS_Subset
<1>8. \A s \in SUBSET (K \cap K) : h[s] = k[s]
    BY <1>5, <1>6, <1>7, AddsAgree
<1> QED
    BY <1>4, <1>6, <1>8

LEMMA ContentIsSum == DataOK => Content = Sum(Sizes, Keys)
BY AddedUp DEF Content

(***************************************************************************)
(* The invariant.  That memoryUsage is the size of what is held is kept by *)
(* every call by itself; that a listed artifact has its data needs to know *)
(* what the calls under way have read and are about to put back.           *)
(***************************************************************************)

Entry(k) ==
    IF k \in Plain THEN [value : Strings \cup Seq({Digit}), ttl : Ttls]
    ELSE [value : Seq(Items), ttl : {"gone", "none"}]

EntriesOK == \A k \in Keys : data[k] \in Entry(k)

\* The keys that are read and put back.
Shared == {ArtifactList, History, Conversation}

PendingType == [step : {"none", "evict", "enter", "read", "put"}, key : Keys,
                item : Items \cup {Unlimited}, got : Values]

PendingOK(p) ==
    /\ p \in PendingType
    /\ p.step = "evict" => p.key \in Plain
    /\ p.step \in {"enter", "read", "put"} => p.item \in Items
    /\ p.step \in {"read", "put"} => p.key \in Shared /\ p.got \in Seq(Items)

Kept(a) == Has(Data(a)) \/ Data(a) \in erased

\* What a call is about to put into the list of artifacts has its data.
ListsKept(p) ==
    p.step \in {"read", "put"} /\ p.key = ArtifactList =>
        \A a \in Artifacts : a = p.item \/ Contains(p.got, a) => Kept(a)

MemoryOK ==
    /\ DataOK
    /\ EntriesOK
    /\ {made, counted} \subseteq BOOLEAN
    /\ usage \in Int
    /\ limit \in Limits \cup {Unlimited}
    /\ erased \subseteq Keys
    /\ calls \in 0 .. CallBound
    /\ UsageIsContent

CallsOK ==
    /\ pending \in [Clients -> PendingType]
    /\ \A c \in Clients : PendingOK(pending[c])

ListOK == ListedIsStored /\ \A c \in Clients : ListsKept(pending[c])

CombIInv == MemoryOK /\ CallsOK /\ ListOK

--------------------------------------------------------------------------------
(* What the calls do to the memory.                                        *)

LEMMA Names ==
    /\ Shared \subseteq Reserved /\ State \in Reserved
    /\ ArtifactList # History /\ ArtifactList # Conversation /\ ArtifactList # State
    /\ \A a \in Artifacts : /\ Data(a) \in Reserved /\ Data(a) # ArtifactList
    /\ Reserved \subseteq Keys /\ Plain \subseteq Keys
    /\ \A k \in Reserved : k \notin Plain
<1>1. <<"_artifacts">> # <<"_state_history">> /\ <<"_artifacts">> # <<"_conversation">> /\ <<"_artifacts">> # <<"_state">>
    OBVIOUS
<1>2. \A a \in Artifacts : Len(<<"_artifact", a>>) # Len(<<"_artifacts">>)
    OBVIOUS
<1> QED
    BY <1>1, <1>2, KeysAssumption DEF Shared, Reserved, Keys, Data, Conversation, ArtifactList, State, History

LEMMA EntryBytes == \A k : \A d \in Entry(k) : d \in [value : Seq(Bytes), ttl : Ttls]
<1>1. Strings \subseteq Seq(Bytes)
    BY StringsAssumption DEF Bytes
<1>2. Seq({Digit}) \subseteq Seq(Bytes) /\ Seq(Items) \subseteq Seq(Bytes)
    BY DEF Bytes
<1> QED
    BY <1>1, <1>2 DEF Entry, Ttls

LEMMA ContentThen == DataOK' => Content' = Sum(Sizes', Keys)
<1>1. (DataOK => Content = Sum(Sizes, Keys))'
    BY ContentIsSum, PTL
<1> QED
    BY <1>1

\* What a call does to the values is what it does to their sizes.
LEMMA SizesThen ==
    ASSUME DataOK, DataOK'
    PROVE  /\ Sizes \in [Keys -> Nat] /\ Sizes' \in [Keys -> Nat]
           /\ \A k \in Keys : Sizes[k] = Size(k) /\ Sizes'[k] = Len(data'[k].value)
           /\ Content = Sum(Sizes, Keys) /\ Content' = Sum(Sizes', Keys)
<1>1. (DataOK => Sizes \in [Keys -> Nat])'
    BY SizesType, PTL
<1>2. Sizes' = [k \in Keys |-> Len(data'[k].value)]
    BY DEF Sizes, Size
<1> QED
    BY <1>1, <1>2, SizesType, ContentIsSum, ContentThen DEF Sizes, Size

\* A value that is put, sets of values that are dropped, sizes that stay.
LEMMA ContentPut ==
    ASSUME DataOK, DataOK', NEW k \in Keys, \A x \in Keys \ {k} : data'[x] = data[x]
    PROVE  /\ Content \in Nat /\ Content' \in Nat /\ Size(k) \in Nat
           /\ Len(data'[k].value) \in Nat
           /\ Content' = Content - Size(k) + Len(data'[k].value)
<1>1. \A x \in Keys \ {k} : Sizes'[x] = Sizes[x]
    BY SizesThen DEF Size
<1>2. /\ Sum(Sizes, Keys) \in Nat /\ Sum(Sizes', Keys) \in Nat
      /\ Sum(Sizes', Keys) = Sum(Sizes, Keys) - Sizes[k] + Sizes'[k]
    BY <1>1, SizesThen, KeysFinite, SumChanged
<1>3. Sizes[k] \in Nat /\ Sizes'[k] \in Nat
    BY SizesThen
<1> QED
    BY <1>2, <1>3, SizesThen

LEMMA ContentDropped ==
    ASSUME DataOK, DataOK', NEW K \in SUBSET Keys,
           data' = [k \in Keys |-> IF k \in K THEN Gone ELSE data[k]]
    PROVE  /\ Content \in Nat /\ Content' \in Nat /\ MapThenSumSet(Size, K) \in Nat
           /\ Content' = Content - MapThenSumSet(Size, K)
           /\ (\A k \in Keys : Has(k) => k \in K) => Content' = 0
<1>1. \A x \in Keys : Sizes'[x] = IF x \in K THEN 0 ELSE Sizes[x]
    BY SizesThen DEF Gone, Size
<1>2. /\ Sum(Sizes, Keys) \in Nat /\ Sum(Sizes', Keys) \in Nat /\ Sum(Sizes, K) \in Nat
      /\ Sum(Sizes', Keys) = Sum(Sizes, Keys) - Sum(Sizes, K)
    <2>1. IsFiniteSet(Keys) /\ Sizes \in [Keys -> Nat] /\ Sizes' \in [Keys -> Nat]
        BY SizesThen, KeysFinite
    <2> QED
        BY <1>1, <2>1, SumDropped
<1>3. MapThenSumSet(Size, K) = Sum(Sizes, K)
    BY AddedUp
<1>4. ASSUME \A k \in Keys : Has(k) => k \in K PROVE Content' = 0
    <2>1. \A x \in Keys : Sizes'[x] = 0
        BY <1>1, <1>4, SizesThen DEF Has, Size, DataOK
    <2>2. Keys \in SUBSET Keys
        OBVIOUS
    <2> QED
        BY <2>1, <2>2, SizesThen, KeysFinite, SumZero
<1> QED
    BY <1>2, <1>3, <1>4, SizesThen

LEMMA ContentStays ==
    ASSUME DataOK, DataOK', \A k \in Keys : Len(data'[k].value) = Size(k)
    PROVE  Content \in Nat /\ Content' = Content
<1>1. \A x \in Keys : Sizes'[x] = Sizes[x]
    BY SizesThen
<1>2. Keys \in SUBSET Keys
    OBVIOUS
<1>3. IsFiniteSet(Keys) /\ Sizes \in [Keys -> Nat] /\ Sizes' \in [Keys -> Nat]
    BY SizesThen, KeysFinite
<1>4. Sum(Sizes, Keys) \in Nat
    BY <1>2, <1>3, SumStep
<1>5. Sum(Sizes', Keys) = Sum(Sizes, Keys)
    BY <1>1, <1>2, <1>3, SumSame
<1> QED
    BY <1>4, <1>5, SizesThen

\* What a call that enlarges what is held must respect.
Respected == Content' > Content /\ counted' /\ limit # Unlimited => Content' <= limit

LEMMA PutDoes ==
    ASSUME MemoryOK, NEW k \in Keys, NEW v, NEW ttl, [value |-> v, ttl |-> ttl] \in Entry(k),
           ttl # "gone", Put(k, v, ttl), counted' = counted, erased' = erased,
           calls' \in 0 .. CallBound
    PROVE  /\ MemoryOK' /\ Respected
           /\ \A x \in Keys \ {k} : data'[x] = data[x]
           /\ data'[k] = data[k] \/ data'[k] = [value |-> v, ttl |-> ttl]
           /\ Fits(k, v) => data'[k] = [value |-> v, ttl |-> ttl]
<1>1. DataOK /\ EntriesOK /\ v \in Seq(Bytes) /\ ttl \in Ttls
    BY EntryBytes DEF MemoryOK
<1>2. /\ \A x \in Keys \ {k} : data'[x] = data[x]
      /\ data'[k] = data[k] \/ data'[k] = [value |-> v, ttl |-> ttl]
      /\ Fits(k, v) => data'[k] = [value |-> v, ttl |-> ttl]
      /\ ~Fits(k, v) => data' = data
      /\ data' \in [Keys -> [value : Seq(Bytes), ttl : Ttls]]
    BY <1>1 DEF DataOK, Put
<1>3. DataOK' /\ EntriesOK'
    BY <1>1, <1>2 DEF DataOK, EntriesOK
<1>4. /\ Content \in Nat /\ Content' \in Nat /\ Size(k) \in Nat /\ Len(data'[k].value) \in Nat
      /\ Content' = Content - Size(k) + Len(data'[k].value)
    BY <1>1, <1>2, <1>3, ContentPut
<1>5. CASE Fits(k, v)
    <2>1. data'[k].value = v /\ usage' = usage - Size(k) + Len(v) /\ limit' = limit /\ made' = TRUE
        BY <1>2, <1>5 DEF Put
    <2>2. usage' \in Int /\ (counted => usage' = Content')
        BY <1>4, <2>1 DEF MemoryOK, UsageIsContent
    <2>3. UsageIsContent'
        BY <2>2 DEF UsageIsContent
    <2>4. Respected
        BY <1>5, <2>1, <2>2 DEF Respected, Fits
    <2> QED
        BY <1>2, <1>3, <2>1, <2>2, <2>3, <2>4 DEF MemoryOK
<1>6. CASE ~Fits(k, v)
    <2>1. data' = data /\ usage' = usage /\ limit' = limit /\ made' = TRUE
        BY <1>6 DEF Put
    <2>2. Content' = Content
        BY <2>1 DEF Content, Size, MapThenSumSet, MapThenFoldSet
    <2>3. UsageIsContent' /\ Respected
        BY <1>4, <2>1, <2>2 DEF UsageIsContent, Respected, MemoryOK
    <2> QED
        BY <1>2, <1>3, <2>1, <2>3 DEF MemoryOK
<1> QED
    BY <1>5, <1>6

LEMMA DropDoes ==
    ASSUME MemoryOK, NEW K \in SUBSET Keys, Drop(K), counted' = counted,
           erased' \in SUBSET Keys, calls' \in 0 .. CallBound, made' = made, limit' = limit
    PROVE  /\ MemoryOK' /\ Respected
           /\ \A x \in Keys : data'[x] = IF x \in K THEN Gone ELSE data[x]
<1>1. DataOK /\ EntriesOK /\ data' = [k \in Keys |-> IF k \in K THEN Gone ELSE data[k]]
    BY DEF MemoryOK, Drop
<1>2. \A k \in Keys : Gone \in Entry(k)
    <2>1. <<>> \in Seq({Digit}) /\ <<>> \in Seq(Items)
        OBVIOUS
    <2> QED
        BY <2>1 DEF Gone, Entry, Ttls
<1>3. EntriesOK' /\ \A x \in Keys : data'[x] = IF x \in K THEN Gone ELSE data[x]
    BY <1>1, <1>2 DEF EntriesOK
<1>4. DataOK'
    <2>1. Gone \in [value : Seq(Bytes), ttl : Ttls] /\ Gone.value = <<>>
        BY DEF Gone, Ttls
    <2> QED
        BY <1>1, <1>3, <2>1 DEF DataOK
<1>5. /\ Content \in Nat /\ Content' \in Nat /\ MapThenSumSet(Size, K) \in Nat
      /\ Content' = Content - MapThenSumSet(Size, K)
    BY <1>1, <1>4, ContentDropped
<1>6. usage' = usage - MapThenSumSet(Size, K) /\ usage \in Int /\ (counted => usage = Content)
    BY DEF Drop, MemoryOK, UsageIsContent
<1> HIDE DEF Drop
<1>7. usage' \in Int /\ (counted' => usage' = Content')
    BY <1>5, <1>6
<1>8. Respected
    BY <1>5 DEF Respected
<1> QED
    BY <1>3, <1>4, <1>7, <1>8 DEF MemoryOK, UsageIsContent

\* Calls that neither add to a value nor take from one.
LEMMA SizesStay ==
    ASSUME MemoryOK, DataOK', EntriesOK', counted' \in BOOLEAN, made' \in BOOLEAN,
           limit' \in Limits \cup {Unlimited}, erased' \in SUBSET Keys, calls' \in 0 .. CallBound,
           usage' = usage,
           counted' => counted /\ \A k \in Keys : Len(data'[k].value) = Size(k)
    PROVE  MemoryOK' /\ Respected
<1>1. counted' => Content \in Nat /\ Content' = Content
    BY ContentStays DEF MemoryOK
<1>2. UsageIsContent' /\ Respected
    BY <1>1 DEF MemoryOK, UsageIsContent, Respected
<1> QED
    BY <1>2 DEF MemoryOK

LEMMA IncrDoes ==
    ASSUME MemoryOK, NEW c \in Clients, NEW k \in Plain, Incr(c, k)
    PROVE  /\ MemoryOK' /\ Respected
           /\ \A x \in Keys \ {k} : data'[x] = data[x]
<1>1. DataOK /\ EntriesOK /\ k \in Keys /\ data[k] \in Entry(k)
    BY DEF MemoryOK, EntriesOK, Keys
<1>2. data' \in [Keys -> [value : Seq(Bytes), ttl : Ttls]] /\ data'[k] \in Entry(k)
      /\ (data'[k].ttl = "gone" => data'[k] = data[k])
      /\ \A x \in Keys \ {k} : data'[x] = data[x]
    <2>1. CASE data' = [data EXCEPT ![k] = [value |-> <<Digit>>, ttl |-> "none"]]
        <3>1. [value |-> <<Digit>>, ttl |-> "none"] \in Entry(k)
            BY DEF Entry, Ttls
        <3>2. [value |-> <<Digit>>, ttl |-> "none"] \in [value : Seq(Bytes), ttl : Ttls]
            BY <3>1, EntryBytes
        <3>3. data'[k] = [value |-> <<Digit>>, ttl |-> "none"]
            BY <1>1, <2>1 DEF DataOK
        <3> QED
            BY <1>1, <2>1, <3>1, <3>2, <3>3 DEF DataOK
    <2>2. ASSUME Has(k), data[k].value \in Seq({Digit}), NEW more \in {<<>>, <<Digit>>},
                 data' = [data EXCEPT ![k].value = @ \o more]
          PROVE  /\ data' \in [Keys -> [value : Seq(Bytes), ttl : Ttls]] /\ data'[k] \in Entry(k)
                 /\ data'[k].ttl = "gone" => data'[k] = data[k]
                 /\ \A x \in Keys \ {k} : data'[x] = data[x]
        <3>1. data[k].value \o more \in Seq({Digit})
            <4>1. <<>> \in Seq({Digit}) /\ <<Digit>> \in Seq({Digit})
                OBVIOUS
            <4> QED
                BY <2>2, <4>1, ConcatProperties
        <3>2. data'[k] = [value |-> data[k].value \o more, ttl |-> data[k].ttl]
            BY <1>1, <2>2 DEF DataOK
        <3>3. data'[k] \in Entry(k)
            BY <1>1, <3>1, <3>2 DEF Entry
        <3>4. data'[k] \in [value : Seq(Bytes), ttl : Ttls]
            BY <3>3, EntryBytes
        <3>5. data' \in [Keys -> [value : Seq(Bytes), ttl : Ttls]]
            BY <1>1, <2>2, <3>4 DEF DataOK
        <3> QED
            BY <1>1, <2>2, <3>2, <3>3, <3>5 DEF DataOK, Has
    <2>3. CASE data' = data
        BY <1>1, <2>3 DEF DataOK
    <2> QED
        BY <2>1, <2>2, <2>3 DEF Incr
<1>3. DataOK' /\ EntriesOK'
    BY <1>1, <1>2 DEF DataOK, EntriesOK
<1>4. counted' => counted /\ \A x \in Keys : Len(data'[x].value) = Size(x)
    BY <1>2 DEF Incr, Size
<1>5. /\ made' = TRUE /\ usage' = usage /\ limit' = limit /\ erased' = erased
      /\ calls' \in 0 .. CallBound
    BY CallAssumption DEF Incr, BeginCall, MemoryOK
<1>6. counted' \in BOOLEAN
    BY DEF Incr
<1>7. MemoryOK' /\ Respected
    <2>1. made' \in BOOLEAN /\ limit' \in Limits \cup {Unlimited} /\ erased' \in SUBSET Keys
        BY <1>5 DEF MemoryOK
    <2> QED
        BY <1>3, <1>4, <1>5, <1>6, <2>1, SizesStay
<1> QED
    BY <1>2, <1>7

\* No artifact loses its data but by being erased.
StillKept ==
    /\ \A k \in Reserved : Has(k) => Has(k)' \/ k \in erased'
    /\ erased \subseteq erased'

LEMMA KeptOn == StillKept => \A a \in Artifacts : Kept(a) => Kept(a)'
BY Names DEF StillKept, Kept

\* The list is what it was or empty, and no call is about to extend it that was
\* not before, or with nothing but what is kept.
LEMMA ListStays ==
    ASSUME ListOK, StillKept,
           data'[ArtifactList].value = data[ArtifactList].value \/ data'[ArtifactList].value = <<>>,
           \A d \in Clients : pending'[d] = pending[d] \/ ListsKept(pending[d])'
    PROVE  ListOK'
<1>1. ASSUME NEW a \in Artifacts, Contains(data'[ArtifactList].value, a) PROVE Kept(a)'
    <2>1. Contains(data[ArtifactList].value, a)
        BY <1>1 DEF Contains
    <2> QED
        BY <2>1, KeptOn DEF ListOK, ListedIsStored, Kept
<1>2. ListedIsStored'
    BY <1>1 DEF ListedIsStored, Kept
<1>3. ASSUME NEW d \in Clients PROVE ListsKept(pending[d])'
    <2>1. CASE pending'[d] = pending[d]
        BY <2>1, KeptOn DEF ListOK, ListsKept
    <2>2. CASE ListsKept(pending[d])'
        BY <2>2
    <2> QED
        BY <2>1, <2>2
<1> QED
    BY <1>2, <1>3 DEF ListOK

LEMMA FreeOK == PendingOK(Free)
<1>1. <<>> \in Values /\ Conversation \in Keys
    BY Names DEF Values, Shared
<1> QED
    BY <1>1 DEF Free, PendingOK, PendingType

LEMMA CallsStay ==
    ASSUME CallsOK, NEW c \in Clients, NEW p, PendingOK(p), pending' = [pending EXCEPT ![c] = p]
    PROVE  CallsOK' /\ pending'[c] = p /\ \A d \in Clients \ {c} : pending'[d] = pending[d]
<1>1. /\ pending'[c] = p /\ \A d \in Clients \ {c} : pending'[d] = pending[d]
      /\ DOMAIN pending' = Clients
    BY DEF CallsOK
<1>2. \A d \in Clients : PendingOK(pending'[d])
    BY <1>1 DEF CallsOK
<1> QED
    BY <1>1, <1>2 DEF CallsOK, PendingOK, PendingType

LEMMA UnchangedKept ==
    ASSUME data' = data, erased' = erased
    PROVE  StillKept
BY DEF StillKept, Has

\* A put leaves something at the key and the rest as it was.
LEMMA PutKept ==
    ASSUME NEW k, NEW v, NEW ttl, ttl # "gone", erased' = erased,
           \A x \in Keys \ {k} : data'[x] = data[x],
           data'[k] = data[k] \/ data'[k] = [value |-> v, ttl |-> ttl]
    PROVE  StillKept
BY Names DEF StillKept, Has

LEMMA PlainKept ==
    ASSUME \A k \in Reserved : data'[k] = data[k], erased \subseteq erased'
    PROVE  StillKept /\ data'[ArtifactList].value = data[ArtifactList].value
BY Names DEF StillKept, Has, Shared

--------------------------------------------------------------------------------
(* Each call keeps the invariant and respects the limit.                   *)

LEMMA SetStep ==
    ASSUME CombIInv, NEW c \in Clients, NEW k \in Plain, NEW v \in Strings,
           NEW ttl \in {"none", "running"}, Set(c, k, v, ttl)
    PROVE  CombIInv' /\ Respected
<1>1. [value |-> v, ttl |-> ttl] \in Entry(k) /\ ttl # "gone" /\ k \in Keys
    BY DEF Entry, Ttls, Keys
<1>2. /\ Put(k, v, ttl) /\ pending' = pending /\ counted' = counted /\ erased' = erased
      /\ calls' \in 0 .. CallBound
    BY CallAssumption DEF Set, BeginCall, ghosts, CombIInv, MemoryOK
<1>3. MemoryOK' /\ Respected /\ \A x \in Keys \ {k} : data'[x] = data[x]
    BY <1>1, <1>2, PutDoes DEF CombIInv
<1>4. \A x \in Reserved : data'[x] = data[x]
    BY <1>3, Names
<1>5. ListOK'
    BY <1>2, <1>4, PlainKept, ListStays DEF CombIInv
<1> QED
    BY <1>2, <1>3, <1>5 DEF CombIInv, CallsOK

LEMMA DeleteStep ==
    ASSUME CombIInv, NEW c \in Clients, NEW k \in Plain, Delete(c, k)
    PROVE  CombIInv' /\ Respected
<1>1. {k} \in SUBSET Keys
    BY DEF Keys
<1>2. /\ Drop({k}) /\ pending' = pending /\ counted' = counted /\ erased' = erased \cup {k}
      /\ made' = made /\ limit' = limit /\ calls' \in 0 .. CallBound /\ erased' \in SUBSET Keys
    BY <1>1, CallAssumption DEF Delete, BeginCall, CombIInv, MemoryOK
<1>3. /\ MemoryOK' /\ Respected
      /\ \A x \in Keys : data'[x] = IF x \in {k} THEN Gone ELSE data[x]
    BY <1>1, <1>2, DropDoes DEF CombIInv
<1>4. \A x \in Reserved : data'[x] = data[x]
    BY <1>3, Names
<1>5. ListOK'
    BY <1>2, <1>4, PlainKept, ListStays DEF CombIInv
<1> QED
    BY <1>2, <1>3, <1>5 DEF CombIInv, CallsOK

LEMMA IncrStep ==
    ASSUME CombIInv, NEW c \in Clients, NEW k \in Plain, Incr(c, k)
    PROVE  CombIInv' /\ Respected
<1>1. MemoryOK' /\ Respected /\ \A x \in Keys \ {k} : data'[x] = data[x]
    BY IncrDoes DEF CombIInv
<1>2. pending' = pending /\ erased' = erased
    BY DEF Incr
<1>3. \A x \in Reserved : data'[x] = data[x]
    BY <1>1, Names
<1>4. ListOK'
    BY <1>2, <1>3, PlainKept, ListStays DEF CombIInv
<1> QED
    BY <1>1, <1>2, <1>4 DEF CombIInv, CallsOK

LEMMA ClearStep ==
    ASSUME CombIInv, NEW c \in Clients, Clear(c)
    PROVE  CombIInv' /\ Respected
<1>1. PICK K \in SUBSET {k \in Keys : Has(k)} :
          /\ data' = [k \in Keys |-> IF k \in K THEN Gone ELSE data[k]]
          /\ erased' = erased \cup K
          /\ counted' = (\A k \in Keys : Has(k) => k \in K)
    BY DEF Clear
<1>2. /\ usage' = 0 /\ made' = made /\ limit' = limit /\ pending' = pending
      /\ calls' \in 0 .. CallBound
    BY CallAssumption DEF Clear, BeginCall, CombIInv, MemoryOK
<1>3. K \in SUBSET Keys /\ \A x \in Keys : data'[x] = IF x \in K THEN Gone ELSE data[x]
    BY <1>1
<1>4. DataOK' /\ EntriesOK'
    <2>1. <<>> \in Seq({Digit}) /\ <<>> \in Seq(Items) /\ <<>> \in Seq(Bytes)
        OBVIOUS
    <2>2. \A k \in Keys : Gone \in Entry(k)
        BY <2>1 DEF Gone, Entry, Ttls
    <2>3. EntriesOK'
        BY <1>3, <2>2 DEF EntriesOK, CombIInv, MemoryOK
    <2>4. Gone \in [value : Seq(Bytes), ttl : Ttls] /\ Gone.value = <<>>
        BY <2>1 DEF Gone, Ttls
    <2> QED
        BY <1>1, <1>3, <2>3, <2>4 DEF DataOK, CombIInv, MemoryOK
<1>5. /\ Content \in Nat /\ Content' \in Nat /\ MapThenSumSet(Size, K) \in Nat
      /\ Content' = Content - MapThenSumSet(Size, K)
      /\ (\A k \in Keys : Has(k) => k \in K) => Content' = 0
    <2>1. DataOK
        BY DEF CombIInv, MemoryOK
    <2> QED
        BY <1>1, <1>3, <1>4, <2>1, ContentDropped
<1>6. UsageIsContent' /\ Respected
    BY <1>1, <1>2, <1>5 DEF UsageIsContent, Respected
<1>7. counted' \in BOOLEAN
    BY <1>1
<1>8. MemoryOK'
    BY <1>1, <1>2, <1>3, <1>4, <1>6, <1>7 DEF CombIInv, MemoryOK
<1>9. StillKept
    BY <1>1, <1>3, Names DEF StillKept, Has
<1>10. data'[ArtifactList].value = data[ArtifactList].value \/ data'[ArtifactList].value = <<>>
    BY <1>3, Names DEF Gone, Shared
<1>11. ListOK'
    BY <1>2, <1>9, <1>10, ListStays DEF CombIInv
<1> QED
    BY <1>2, <1>6, <1>8, <1>11 DEF CombIInv, CallsOK

LEMMA SetMemoryLimitStep ==
    ASSUME CombIInv, NEW c \in Clients, NEW l \in Limits, SetMemoryLimit(c, l)
    PROVE  CombIInv' /\ Respected
<1>1. /\ data' = data /\ made' = made /\ usage' = usage /\ pending' = pending
      /\ counted' = counted /\ erased' = erased /\ limit' = l /\ calls' \in 0 .. CallBound
    BY CallAssumption DEF SetMemoryLimit, BeginCall, ghosts, CombIInv, MemoryOK
<1>2. DataOK' /\ EntriesOK'
    BY <1>1 DEF DataOK, EntriesOK, CombIInv, MemoryOK
<1>3. MemoryOK' /\ Respected
    BY <1>1, <1>2, SizesStay DEF CombIInv, MemoryOK, Size
<1>4. ListOK'
    BY <1>1, UnchangedKept, ListStays DEF CombIInv
<1> QED
    BY <1>1, <1>3, <1>4 DEF CombIInv, CallsOK

LEMMA EvictStep ==
    ASSUME CombIInv, NEW c \in Clients, Evict(c)
    PROVE  CombIInv' /\ Respected
<1> DEFINE k == pending[c].key
<1>1. k \in Plain /\ {k} \in SUBSET Keys
    BY DEF Evict, CombIInv, CallsOK, PendingOK, PendingType, Keys
<1>2. /\ Drop({k}) /\ counted' = counted /\ erased' = erased /\ made' = made /\ limit' = limit
      /\ calls' \in 0 .. CallBound /\ erased' \in SUBSET Keys
      /\ pending' = [pending EXCEPT ![c] = Free]
    BY DEF Evict, Finish, ghosts, CombIInv, MemoryOK
<1>3. /\ MemoryOK' /\ Respected
      /\ \A x \in Keys : data'[x] = IF x \in {k} THEN Gone ELSE data[x]
    BY <1>1, <1>2, DropDoes DEF CombIInv
<1>4. \A x \in Reserved : data'[x] = data[x]
    BY <1>1, <1>3, Names
<1>5. CallsOK' /\ pending'[c] = Free /\ \A d \in Clients \ {c} : pending'[d] = pending[d]
    BY <1>2, FreeOK, CallsStay DEF CombIInv
<1>6. ListOK'
    <2>1. \A d \in Clients : pending'[d] = pending[d] \/ ListsKept(pending[d])'
        BY <1>5 DEF ListsKept, Free
    <2> QED
        BY <1>2, <1>4, <2>1, PlainKept, ListStays DEF CombIInv
<1> QED
    BY <1>3, <1>5, <1>6 DEF CombIInv

LEMMA ExpireStep ==
    ASSUME CombIInv, NEW k \in Plain, Expire(k)
    PROVE  CombIInv' /\ Respected
<1>1. /\ data' = [data EXCEPT ![k].ttl = "over"] /\ data[k].ttl = "running"
      /\ made' = made /\ usage' = usage /\ limit' = limit /\ pending' = pending
      /\ counted' = counted /\ erased' = erased /\ calls' = calls
    BY DEF Expire, ghosts
<1>2. DataOK /\ EntriesOK /\ k \in Keys
    BY DEF CombIInv, MemoryOK, Keys
<1>3. /\ \A x \in Keys \ {k} : data'[x] = data[x]
      /\ data'[k] = [value |-> data[k].value, ttl |-> "over"]
    BY <1>1, <1>2 DEF DataOK
<1>4. DataOK' /\ EntriesOK'
    <2>1. data'[k] \in Entry(k)
        <3>1. Entry(k) = [value : Strings \cup Seq({Digit}), ttl : Ttls]
            BY DEF Entry
        <3>2. data[k] \in [value : Strings \cup Seq({Digit}), ttl : Ttls]
            <4>1. data[k] \in Entry(k)
                BY <1>2 DEF EntriesOK
            <4> QED
                BY <3>1, <4>1, Zenon
        <3>3. data'[k] \in [value : Strings \cup Seq({Digit}), ttl : Ttls]
            BY <1>3, <3>2 DEF Ttls
        <3> QED
            BY <3>1, <3>3
    <2>2. data'[k] \in [value : Seq(Bytes), ttl : Ttls]
        BY <2>1, EntryBytes
    <2> QED
        BY <1>1, <1>2, <1>3, <2>1, <2>2 DEF DataOK, EntriesOK
<1>5. \A x \in Keys : Len(data'[x].value) = Size(x)
    BY <1>3 DEF Size
<1>6. MemoryOK' /\ Respected
    BY <1>1, <1>4, <1>5, SizesStay DEF CombIInv, MemoryOK
<1>7. \A x \in Reserved : data'[x] = data[x]
    BY <1>3, Names
<1>8. ListOK'
    BY <1>1, <1>7, PlainKept, ListStays DEF CombIInv
<1> QED
    BY <1>1, <1>6, <1>8 DEF CombIInv, CallsOK

LEMMA ExpireKeysStep ==
    ASSUME CombIInv, ExpireKeys
    PROVE  CombIInv' /\ Respected
<1> DEFINE K == {k \in Keys : data[k].ttl = "over"}
<1>1. /\ Drop(K) /\ made' = made /\ limit' = limit /\ pending' = pending
      /\ counted' = counted /\ erased' = erased /\ calls' = calls
      /\ K \in SUBSET Keys
    BY DEF ExpireKeys, ghosts
<1>2. \A k \in Reserved : k \notin K
    BY Names DEF CombIInv, MemoryOK, EntriesOK, Entry
<1> HIDE DEF K
<1>3. erased' \in SUBSET Keys /\ calls' \in 0 .. CallBound
    BY <1>1 DEF CombIInv, MemoryOK
<1>4. /\ MemoryOK' /\ Respected
      /\ \A x \in Keys : data'[x] = IF x \in K THEN Gone ELSE data[x]
    BY <1>1, <1>3, DropDoes DEF CombIInv
<1>5. \A x \in Reserved : data'[x] = data[x]
    BY <1>2, <1>4, Names
<1>6. ListOK'
    BY <1>1, <1>5, PlainKept, ListStays DEF CombIInv
<1> QED
    BY <1>1, <1>4, <1>6 DEF CombIInv, CallsOK

\* Steps that leave the memory alone and change what one call is about to do.
LEMMA WaitStep ==
    ASSUME CombIInv, NEW c \in Clients, NEW p, PendingOK(p), ListsKept(p),
           pending' = [pending EXCEPT ![c] = p],
           data' = data, made' = made, usage' = usage, limit' = limit,
           counted' = counted, erased' = erased, calls' \in 0 .. CallBound
    PROVE  CombIInv' /\ Respected
<1>1. DataOK' /\ EntriesOK'
    BY DEF DataOK, EntriesOK, CombIInv, MemoryOK
<1>2. MemoryOK' /\ Respected
    BY <1>1, SizesStay DEF CombIInv, MemoryOK, Size
<1>3. CallsOK' /\ pending'[c] = p /\ \A d \in Clients \ {c} : pending'[d] = pending[d]
    BY CallsStay DEF CombIInv
<1>4. ListsKept(pending[c])'
    BY <1>3 DEF ListsKept, Kept, Has
<1>5. ListOK'
    BY <1>3, <1>4, UnchangedKept, ListStays DEF CombIInv
<1> QED
    BY <1>2, <1>3, <1>5 DEF CombIInv

\* What the reserved keys hold.
LEMMA Held ==
    ASSUME CombIInv, NEW k \in Reserved
    PROVE  data[k].value \in Seq(Items) /\ Found(k) = data[k].value
BY Names DEF CombIInv, MemoryOK, EntriesOK, Entry, Found

LEMMA MeetExpiredStep ==
    ASSUME CombIInv, NEW c \in Clients, NEW k \in Plain, MeetExpired(c, k)
    PROVE  CombIInv' /\ Respected
<1> DEFINE p == [step |-> "evict", key |-> k, item |-> Unlimited, got |-> data[k].value]
<1>1. data[k].value \in Values /\ k \in Keys
    BY Names DEF CombIInv, MemoryOK, EntriesOK, Entry, Values
<1>2. PendingOK(p) /\ ListsKept(p)
    BY <1>1 DEF PendingOK, PendingType, ListsKept
<1>3. /\ pending' = [pending EXCEPT ![c] = p]
      /\ data' = data /\ made' = made /\ usage' = usage /\ limit' = limit
      /\ counted' = counted /\ erased' = erased /\ calls' \in 0 .. CallBound
    BY CallAssumption DEF MeetExpired, BeginCall, ghosts, CombIInv, MemoryOK
<1> QED
    BY <1>2, <1>3, WaitStep

LEMMA AppendConversationStep ==
    ASSUME CombIInv, NEW c \in Clients, NEW m \in Messages, AppendConversation(c, m)
    PROVE  CombIInv' /\ Respected
<1> DEFINE p == [step |-> "put", key |-> Conversation, item |-> m, got |-> Found(Conversation)]
<1>1. Conversation \in Reserved /\ Conversation \in Shared /\ Conversation # ArtifactList
      /\ Conversation \in Keys
    BY Names DEF Shared
<1>2. Found(Conversation) \in Seq(Items)
    BY <1>1, Held
<1>3. PendingOK(p) /\ ListsKept(p)
    BY <1>1, <1>2 DEF PendingOK, PendingType, ListsKept, Items, Values
<1>4. /\ pending' = [pending EXCEPT ![c] = p]
      /\ data' = data /\ made' = made /\ usage' = usage /\ limit' = limit
      /\ counted' = counted /\ erased' = erased /\ calls' \in 0 .. CallBound
    BY CallAssumption DEF AppendConversation, BeginCall, Go, ghosts, CombIInv, MemoryOK
<1> QED
    BY <1>3, <1>4, WaitStep

LEMMA TransitionStateStep ==
    ASSUME CombIInv, NEW c \in Clients, NEW from \in States, NEW to \in States,
           TransitionState(c, from, to)
    PROVE  CombIInv' /\ Respected
<1> DEFINE p == [step |-> "enter", key |-> State, item |-> to, got |-> <<>>]
<1>1. State \in Keys /\ <<>> \in Values
    BY Names DEF Values
<1>2. PendingOK(p) /\ ListsKept(p)
    BY <1>1 DEF PendingOK, PendingType, ListsKept, Items
<1>3. /\ pending' = [pending EXCEPT ![c] = p]
      /\ data' = data /\ made' = made /\ usage' = usage /\ limit' = limit
      /\ counted' = counted /\ erased' = erased /\ calls' \in 0 .. CallBound
    BY CallAssumption DEF TransitionState, BeginCall, Go, ghosts, CombIInv, MemoryOK
<1> QED
    BY <1>2, <1>3, WaitStep

LEMMA ReadStep ==
    ASSUME CombIInv, NEW c \in Clients, Read(c)
    PROVE  CombIInv' /\ Respected
<1> DEFINE q == pending[c]
           p == [step |-> "put", key |-> q.key, item |-> q.item, got |-> Found(q.key)]
<1>1. PendingOK(q) /\ q.step = "read" /\ ListsKept(q)
    BY DEF Read, CombIInv, CallsOK, ListOK
<1>2. q.key \in Shared /\ q.key \in Reserved /\ q.key \in Keys /\ q.item \in Items
    BY <1>1, Names DEF PendingOK, PendingType
<1>3. Found(q.key) \in Seq(Items) /\ Found(q.key) = data[q.key].value
    BY <1>2, Held
<1>4. PendingOK(p)
    BY <1>2, <1>3 DEF PendingOK, PendingType, Values
<1>5. ASSUME q.key = ArtifactList, NEW a \in Artifacts,
             a = q.item \/ Contains(data[ArtifactList].value, a)
      PROVE  Kept(a)
    BY <1>1, <1>5 DEF ListsKept, CombIInv, ListOK, ListedIsStored, Kept
<1>6. ListsKept(p)
    BY <1>3, <1>5 DEF ListsKept
<1>7. /\ pending' = [pending EXCEPT ![c] = p]
      /\ data' = data /\ made' = made /\ usage' = usage /\ limit' = limit
      /\ counted' = counted /\ erased' = erased /\ calls' \in 0 .. CallBound
    BY DEF Read, Go, ghosts, CombIInv, MemoryOK
<1> QED
    BY <1>4, <1>6, <1>7, WaitStep

LEMMA StoreArtifactStep ==
    ASSUME CombIInv, NEW c \in Clients, NEW a \in Artifacts, StoreArtifact(c, a)
    PROVE  CombIInv' /\ Respected
<1> DEFINE k == Data(a)
           p == [step |-> "read", key |-> ArtifactList, item |-> a, got |-> <<>>]
<1>1. k \in Reserved /\ k \in Keys /\ k \notin Plain /\ k # ArtifactList
    BY Names
<1>2. [value |-> <<a>>, ttl |-> "none"] \in Entry(k)
    BY <1>1 DEF Entry, Items
<1>3. /\ Put(k, <<a>>, "none") /\ counted' = counted /\ erased' = erased
      /\ calls' \in 0 .. CallBound
    BY CallAssumption DEF StoreArtifact, BeginCall, ghosts, CombIInv, MemoryOK
<1>4. /\ MemoryOK' /\ Respected
      /\ \A x \in Keys \ {k} : data'[x] = data[x]
      /\ data'[k] = data[k] \/ data'[k] = [value |-> <<a>>, ttl |-> "none"]
      /\ Fits(k, <<a>>) => data'[k] = [value |-> <<a>>, ttl |-> "none"]
    BY <1>1, <1>2, <1>3, PutDoes DEF CombIInv
<1>5. data'[ArtifactList] = data[ArtifactList]
    BY <1>1, <1>4, Names DEF Shared
<1>6. StillKept
    BY <1>3, <1>4, PutKept
<1>7. CASE Fits(k, <<a>>)
    <2>1. pending' = [pending EXCEPT ![c] = p]
        BY <1>7 DEF StoreArtifact, Go
    <2>2. ArtifactList \in Shared /\ ArtifactList \in Keys /\ <<>> \in Values /\ <<>> \in Seq(Items)
        BY Names DEF Shared, Values
    <2>3. PendingOK(p)
        BY <2>2 DEF PendingOK, PendingType, Items
    <2>4. CallsOK' /\ pending'[c] = p /\ \A d \in Clients \ {c} : pending'[d] = pending[d]
        BY <2>1, <2>3, CallsStay DEF CombIInv
    <2>5. Kept(a)'
        BY <1>4, <1>7 DEF Kept, Has
    <2>6. ListsKept(pending[c])'
        BY <2>4, <2>5 DEF ListsKept, Contains
    <2>7. ListOK'
        BY <1>5, <1>6, <2>4, <2>6, ListStays DEF CombIInv
    <2> QED
        BY <1>4, <2>4, <2>7 DEF CombIInv
<1>8. CASE ~Fits(k, <<a>>)
    <2>1. pending' = pending
        BY <1>8 DEF StoreArtifact
    <2>2. ListOK'
        BY <1>5, <1>6, <2>1, ListStays DEF CombIInv
    <2> QED
        BY <1>4, <2>1, <2>2 DEF CombIInv, CallsOK
<1> QED
    BY <1>7, <1>8

LEMMA EnterStateStep ==
    ASSUME CombIInv, NEW c \in Clients, EnterState(c)
    PROVE  CombIInv' /\ Respected
<1> DEFINE q == pending[c]
           v == <<q.item>>
           p == [step |-> "read", key |-> History, item |-> q.item, got |-> <<>>]
<1>1. PendingOK(q) /\ q.step = "enter" /\ q.item \in Items
    BY DEF EnterState, CombIInv, CallsOK, PendingOK, PendingType
<1>2. State \in Keys /\ State \notin Plain /\ State # ArtifactList
    BY Names
<1>3. [value |-> v, ttl |-> "none"] \in Entry(State)
    BY <1>1, <1>2 DEF Entry
<1>4. /\ Put(State, v, "none") /\ counted' = counted /\ erased' = erased
      /\ calls' \in 0 .. CallBound
      /\ IF Fits(State, v) THEN pending' = [pending EXCEPT ![c] = p]
         ELSE pending' = [pending EXCEPT ![c] = Free]
    BY DEF EnterState, Go, Finish, ghosts, CombIInv, MemoryOK
<1>5. /\ MemoryOK' /\ Respected
      /\ \A x \in Keys \ {State} : data'[x] = data[x]
      /\ data'[State] = data[State] \/ data'[State] = [value |-> v, ttl |-> "none"]
    BY <1>2, <1>3, <1>4, PutDoes DEF CombIInv
<1>6. data'[ArtifactList] = data[ArtifactList]
    BY <1>2, <1>5, Names DEF Shared
<1>7. StillKept
    BY <1>4, <1>5, PutKept
<1>8. PendingOK(p) /\ p.key # ArtifactList
    <2>1. History \in Shared /\ History \in Keys /\ <<>> \in Values /\ <<>> \in Seq(Items)
        BY Names DEF Shared, Values
    <2> QED
        BY <1>1, <2>1, Names DEF PendingOK, PendingType
<1>9. PICK r : /\ pending' = [pending EXCEPT ![c] = r] /\ PendingOK(r)
               /\ r.step \notin {"read", "put"} \/ r.key # ArtifactList
    BY <1>4, <1>8, FreeOK DEF Free
<1>10. CallsOK' /\ pending'[c] = r /\ \A d \in Clients \ {c} : pending'[d] = pending[d]
    BY <1>9, CallsStay DEF CombIInv
<1>11. ListsKept(pending[c])'
    BY <1>9, <1>10 DEF ListsKept
<1>12. ListOK'
    BY <1>6, <1>7, <1>10, <1>11, ListStays DEF CombIInv
<1> QED
    BY <1>5, <1>10, <1>12 DEF CombIInv

LEMMA PutBackStep ==
    ASSUME CombIInv, NEW c \in Clients, PutBack(c)
    PROVE  CombIInv' /\ Respected
<1> DEFINE q == pending[c]
           v == Extended(q.key, q.got, q.item)
<1>1. PendingOK(q) /\ q.step = "put" /\ q.item \in Items /\ q.got \in Seq(Items)
      /\ q.key \in Shared /\ ListsKept(q)
    BY DEF PutBack, CombIInv, CallsOK, PendingOK, PendingType, ListOK
<1>2. q.key \in Keys /\ q.key \notin Plain
    BY <1>1, Names
<1>3. v \in Seq(Items)
    BY <1>1 DEF Extended
<1>4. [value |-> v, ttl |-> "none"] \in Entry(q.key)
    BY <1>2, <1>3 DEF Entry
<1>5. /\ Put(q.key, v, "none") /\ counted' = counted /\ erased' = erased
      /\ calls' \in 0 .. CallBound /\ pending' = [pending EXCEPT ![c] = Free]
    BY DEF PutBack, Finish, ghosts, CombIInv, MemoryOK
<1> HIDE DEF v
<1>6. /\ MemoryOK' /\ Respected
      /\ \A x \in Keys \ {q.key} : data'[x] = data[x]
      /\ data'[q.key] = data[q.key] \/ data'[q.key] = [value |-> v, ttl |-> "none"]
    BY <1>2, <1>4, <1>5, PutDoes DEF CombIInv
<1>7. StillKept
    BY <1>5, <1>6, PutKept
<1>8. CallsOK' /\ pending'[c] = Free /\ \A d \in Clients \ {c} : pending'[d] = pending[d]
    BY <1>5, FreeOK, CallsStay DEF CombIInv
<1>9. ListsKept(pending[c])'
    BY <1>8 DEF ListsKept, Free
<1>10. ListOK'
    <2>1. CASE data'[ArtifactList] = data[ArtifactList]
        BY <1>7, <1>8, <1>9, <2>1, ListStays DEF CombIInv
    <2>2. CASE q.key = ArtifactList /\ data'[q.key] = [value |-> v, ttl |-> "none"]
        <3>1. ASSUME NEW a \in Artifacts, Contains(v, a) PROVE a = q.item \/ Contains(q.got, a)
            BY <1>1, <3>1 DEF v, Extended, Contains
        <3>2. \A a \in Artifacts : Contains(v, a) => Kept(a)'
            BY <1>1, <1>7, <2>2, <3>1, KeptOn DEF ListsKept
        <3>3. ListedIsStored'
            BY <2>2, <3>2 DEF ListedIsStored, Kept
        <3>4. \A d \in Clients : ListsKept(pending[d])'
            BY <1>7, <1>8, <1>9, KeptOn DEF ListsKept, CombIInv, ListOK
        <3> QED
            BY <3>3, <3>4 DEF ListOK
    <2> QED
        BY <1>6, <2>1, <2>2, Names DEF Shared
<1> QED
    BY <1>6, <1>8, <1>10 DEF CombIInv

LEMMA NextStep ==
    ASSUME CombIInv, CombNext
    PROVE  CombIInv' /\ Respected
<1>1. CASE \E c \in Clients : Call(c)
    BY <1>1, SetStep, DeleteStep, IncrStep, ClearStep, SetMemoryLimitStep, MeetExpiredStep,
       AppendConversationStep, StoreArtifactStep, TransitionStateStep DEF Call
<1>2. CASE \E c \in Clients : ContinueCall(c)
    BY <1>2, EvictStep, EnterStateStep, ReadStep, PutBackStep DEF ContinueCall
<1> QED
    BY <1>1, <1>2, ExpireStep, ExpireKeysStep DEF CombNext

LEMMA StutterStep ==
    ASSUME CombIInv, UNCHANGED combVars
    PROVE  CombIInv' /\ Respected
<1>1. DataOK' /\ EntriesOK'
    BY DEF DataOK, EntriesOK, CombIInv, MemoryOK, combVars
<1>2. MemoryOK' /\ Respected
    BY <1>1, SizesStay DEF CombIInv, MemoryOK, Size, combVars
<1>3. pending' = pending
    BY DEF combVars
<1>4. ListOK'
    BY <1>3, UnchangedKept, ListStays DEF CombIInv, combVars
<1> QED
    BY <1>2, <1>3, <1>4 DEF CombIInv, CallsOK

LEMMA EmptyComb == CombInit => CombIInv
<1> SUFFICES ASSUME CombInit PROVE CombIInv
    OBVIOUS
<1>1. <<>> \in Seq({Digit}) /\ <<>> \in Seq(Items) /\ <<>> \in Seq(Bytes)
    OBVIOUS
<1>2. \A k \in Keys : Gone \in Entry(k)
    BY <1>1 DEF Gone, Entry, Ttls
<1>3. Gone \in [value : Seq(Bytes), ttl : Ttls] /\ Gone.value = <<>>
    BY <1>1 DEF Gone, Ttls
<1>4. DataOK /\ EntriesOK /\ \A k \in Keys : data[k] = Gone
    BY <1>2, <1>3 DEF CombInit, DataOK, EntriesOK
<1>5. Content = 0
    <2>1. Sizes \in [Keys -> Nat] /\ IsFiniteSet(Keys)
        BY <1>4, SizesType, KeysFinite
    <2>2. \A k \in Keys : Sizes[k] = 0
        BY <1>3, <1>4 DEF Sizes, Size
    <2>3. Keys \in SUBSET Keys
        OBVIOUS
    <2> QED
        BY <1>4, <2>1, <2>2, <2>3, SumZero, ContentIsSum
<1>6. MemoryOK
    <2>1. /\ made = FALSE /\ counted = TRUE /\ usage = 0 /\ limit = Unlimited
          /\ erased = {} /\ calls = CallBound
        BY DEF CombInit
    <2>2. UsageIsContent
        BY <1>5, <2>1 DEF UsageIsContent
    <2>3. {made, counted} \subseteq BOOLEAN
        BY <2>1
    <2>4. usage \in Int /\ limit \in Limits \cup {Unlimited} /\ erased \subseteq Keys
        BY <2>1
    <2>5. calls \in 0 .. CallBound
        BY <2>1, CallAssumption
    <2> QED
        BY <1>4, <2>2, <2>3, <2>4, <2>5 DEF MemoryOK
<1>7. CallsOK
    BY FreeOK DEF CombInit, CallsOK, PendingOK, PendingType
<1>8. ListOK
    BY <1>3, <1>4, Names DEF CombInit, ListOK, ListedIsStored, ListsKept, Free, Contains, Shared
<1> QED
    BY <1>6, <1>7, <1>8 DEF CombIInv

--------------------------------------------------------------------------------
(* The invariant above holds in every state of a session's memory.         *)
THEOREM MemoryIsConsistent == CombSpec => []CombIInv
<1>1. CombIInv /\ [CombNext]_combVars => CombIInv'
    BY NextStep, StutterStep
<1> QED
    BY <1>1, EmptyComb, PTL DEF CombSpec

(* As long as no Incr has made a value longer and no Clear was cut short,  *)
(* memoryUsage is the number of bytes the session holds, whatever deletes  *)
(* or replaces an expired value between the two locks of a Get, for any    *)
(* number of keys, clients and calls.                                      *)
THEOREM UsageIsAccounted == CombSpec => []UsageIsContent
<1>1. CombIInv => UsageIsContent
    BY DEF CombIInv, MemoryOK
<1> QED
    BY <1>1, MemoryIsConsistent, PTL

(* Whichever of its calls the memory limit refuses, StoreArtifact lists no *)
(* artifact without data but one that a client has cleared.                *)
THEOREM ArtifactsAreStored == CombSpec => []ListedIsStored
<1>1. CombIInv => ListedIsStored
    BY DEF CombIInv, ListOK
<1> QED
    BY <1>1, MemoryIsConsistent, PTL

(* No call makes a session hold more than the limit it has, for any limit, *)
(* values of any length and any number of calls in between.                *)
THEOREM LimitIsRespected == CombSpec => WithinLimit
<1>1. CombIInv /\ [CombNext]_combVars
      => [Content' > Content /\ counted' /\ limit # Unlimited => Content' <= limit]_combVars
    BY NextStep DEF Respected
<1> QED
    BY <1>1, MemoryIsConsistent, PTL DEF CombSpec, WithinLimit

(* The variables of the memory keep their types.                           *)
THEOREM CombTypeCorrect == CombSpec => []CombTypeOK
<1>1. CombIInv => CombTypeOK
    <2> SUFFICES ASSUME CombIInv PROVE CombTypeOK
        OBVIOUS
    <2>1. ASSUME NEW k \in Keys
          PROVE  /\ data[k].value \in Values /\ data[k].ttl \in Ttls
                 /\ k \notin Plain => data[k].ttl \in {"gone", "none"}
        <3>1. data[k] \in Entry(k)
            BY DEF CombIInv, MemoryOK, EntriesOK
        <3> QED
            BY <3>1 DEF Entry, Values, Ttls
    <2> QED
        BY <2>1 DEF CombTypeOK, CombIInv, MemoryOK, CallsOK, PendingOK, PendingType, Ttls
<1> QED
    BY <1>1, MemoryIsConsistent, PTL

================================================================================
