----------------------------- MODULE SessionManager -----------------------------
(***************************************************************************)
(* Sessions: the manager (internal/session/manager.go) and the API         *)
(* handlers that create, use and delete sessions (internal/api/server.go), *)
(* with a Comb that the server was given.                                  *)
(*                                                                         *)
(* A session is one object that the manager's cache and every caller that  *)
(* has looked it up share.  A session of a cell is never loaded from the   *)
(* store again, since GetSession lists the empty namespace and cells have  *)
(* a name: once out of the cache it is not found.  store.Update reads the  *)
(* object inside the transaction, without its lock, and its failure is     *)
(* only logged.  Time is the age of what is compared with it, in minutes.  *)
(***************************************************************************)
EXTENDS Integers

CONSTANTS
    Sessions,
    Callers,       \* goroutines that serve API requests
    Monitor,       \* the goroutine that checks timeouts
    NoSession,
    IdleAfter,     \* 5 in the code
    Timeout,       \* TimeoutMinutes of the sessions
    MaxDuration,   \* MaxDurationMinutes of the sessions
    RestartBound   \* bound of the model: restarts of apiaryd

ASSUME MonitorAssumption == Monitor \notin Callers
ASSUME NoSessionAssumption == NoSession \notin Sessions
ASSUME MinutesAssumption ==
    {IdleAfter, Timeout, MaxDuration} \subseteq Nat \ {0} /\ RestartBound \in Nat

VARIABLES
    stored,      \* the phase each session's record has in the store
    phase,       \* the phase in the shared object
    age,         \* minutes since its LastActivity
    life,        \* minutes since it was created
    tracked,     \* Manager.sessions
    comb,        \* the keyspaces of the Comb that hold something
    work,        \* what each goroutine is doing
    unchecked,   \* the sessions checkTimeouts has listed and not looked at yet
    ticked,      \* the monitor's ticker has fired
    restarts

vars == <<stored, phase, age, life, tracked, comb, work, unchecked, ticked, restarts>>

Actors == Callers \cup {Monitor}
Absent == "absent"
Phases == {"created", "active", "idle", "terminated"}

\* Ages beyond every limit are not told apart.
Old == 1 + (IF Timeout > IdleAfter THEN Timeout ELSE IdleAfter)
Dated == 1 + MaxDuration
Older(a, limit) == IF a < limit THEN a + 1 ELSE a

\* AppendConversation uses the session's identifier, the other handlers
\* prefix it with the namespace.
Bare(s) == <<"session", s>>
Prefixed(s) == <<"cell", s>>
Keyspaces == {"session", "cell"} \X Sessions

Steps == {"rest", "track", "update", "touch", "mark", "dim", "write", "commit", "uncache",
          "append", "clear"}
Resting == [step |-> "rest", session |-> NoSession, ending |-> FALSE, data |-> Absent,
            stale |-> FALSE]

Init ==
    /\ stored = [s \in Sessions |-> Absent]
    /\ phase = [s \in Sessions |-> Absent]
    /\ age = [s \in Sessions |-> 0]
    /\ life = [s \in Sessions |-> 0]
    /\ tracked = {}
    /\ comb = {}
    /\ work = [a \in Actors |-> Resting]
    /\ unchecked = {}
    /\ ticked = FALSE
    /\ restarts = RestartBound

At(a, step) == work[a].step = step
Goto(a, step) == work' = [work EXCEPT ![a].step = step]
Rest(a) == work' = [work EXCEPT ![a] = Resting]
Begin(a, s, step) ==
    work' = [work EXCEPT ![a] = [step |-> step, session |-> s, ending |-> (step = "mark"),
                                 data |-> Absent, stale |-> FALSE]]

objects == <<phase, age, life>>
checking == <<unchecked, ticked>>

--------------------------------------------------------------------------------
(* createSession and CreateSession.  The requests modelled ask for no      *)
(* memory limit.                                                           *)

\* Mutant: the new session is given no phase.
CreatePhaseless(c, s) ==
    /\ At(c, "rest")
    /\ stored[s] = Absent
    /\ stored' = [stored EXCEPT ![s] = "created"]
    /\ Begin(c, s, "track")
    /\ UNCHANGED <<objects, tracked, comb, checking, restarts>>

CreateSession(c, s) ==
    /\ At(c, "rest")
    /\ stored[s] = Absent
    /\ stored' = [stored EXCEPT ![s] = "created"]
    /\ phase' = [phase EXCEPT ![s] = "created"]
    /\ Begin(c, s, "track")
    /\ UNCHANGED <<age, life, tracked, comb, checking, restarts>>

Track(c) ==
    /\ At(c, "track")
    /\ tracked' = tracked \cup {work[c].session}
    /\ Rest(c)
    /\ UNCHANGED <<stored, objects, comb, checking, restarts>>

--------------------------------------------------------------------------------
(* sendMessage: GetSession and the phase, UpdateActivity, and the message  *)
(* itself.                                                                 *)

SendMessage(c, s) ==
    /\ At(c, "rest")
    /\ s \in tracked
    /\ phase[s] # "terminated"
    /\ Begin(c, s, "update")
    /\ UNCHANGED <<stored, objects, tracked, comb, checking, restarts>>

\* The session may be gone: the request fails.
FindState(c) ==
    /\ At(c, "update")
    /\ IF work[c].session \in tracked THEN Goto(c, "touch") ELSE Rest(c)
    /\ UNCHANGED <<stored, objects, tracked, comb, checking, restarts>>

\* Mutant: the activity is noted and the phase is not.
TouchAgeOnly(c) ==
    /\ At(c, "touch")
    /\ age' = [age EXCEPT ![work[c].session] = 0]
    /\ Goto(c, "write")
    /\ UNCHANGED <<stored, phase, life, tracked, comb, checking, restarts>>

Touch(c) ==
    LET s == work[c].session
    IN  /\ At(c, "touch")
        /\ phase' = [phase EXCEPT ![s] = "active"]
        /\ age' = [age EXCEPT ![s] = 0]
        /\ Goto(c, "write")
        /\ UNCHANGED <<stored, life, tracked, comb, checking, restarts>>

AppendMessage(c) ==
    /\ At(c, "append")
    /\ comb' = comb \cup {Bare(work[c].session)}
    /\ Rest(c)
    /\ UNCHANGED <<stored, objects, tracked, checking, restarts>>

--------------------------------------------------------------------------------
(* store.Update of the shared object, by UpdateActivity and                *)
(* TerminateSession.                                                       *)

Write(a) ==
    /\ At(a, "write")
    /\ work' = [work EXCEPT ![a].step = "commit", ![a].data = phase[work[a].session]]
    /\ UNCHANGED <<stored, objects, tracked, comb, checking, restarts>>

\* Mutant: TerminateSession returns when the update fails.
AfterUpdateOrFail(a) ==
    CASE work[a].ending /\ ~work[a].stale -> "uncache"
      [] work[a].ending /\ work[a].stale -> "clear"
      [] ~work[a].ending -> "append"

AfterUpdate(a) == IF work[a].ending THEN "uncache" ELSE "append"

\* Badger refuses a transaction whose record another one has written since.
Commit(a) ==
    LET s == work[a].session
        wins == ~work[a].stale
    IN  /\ At(a, "commit")
        /\ stored' = IF wins THEN [stored EXCEPT ![s] = work[a].data] ELSE stored
        /\ work' = [b \in Actors |->
              CASE b = a -> [work[a] EXCEPT !.step = AfterUpdate(a), !.data = Absent,
                                            !.stale = FALSE]
                [] b # a /\ wins /\ At(b, "commit") /\ work[b].session = s ->
                      [work[b] EXCEPT !.stale = TRUE]
                [] OTHER -> work[b]]
        /\ UNCHANGED <<objects, tracked, comb, checking, restarts>>

--------------------------------------------------------------------------------
(* deleteSession and TerminateSession.                                     *)

\* The session may have gone since the monitor listed it.
Terminate(a, s) ==
    IF s \in tracked THEN Begin(a, s, "mark") ELSE Rest(a)

DeleteSession(c, s) ==
    /\ At(c, "rest")
    /\ s \in tracked
    /\ Terminate(c, s)
    /\ UNCHANGED <<stored, objects, tracked, comb, checking, restarts>>

\* Twice in a row, without the session's lock and with it.
Mark(a) ==
    /\ At(a, "mark")
    /\ phase' = [phase EXCEPT ![work[a].session] = "terminated"]
    /\ Goto(a, "write")
    /\ UNCHANGED <<stored, age, life, tracked, comb, checking, restarts>>

Uncache(a) ==
    /\ At(a, "uncache")
    /\ tracked' = tracked \ {work[a].session}
    /\ IF a = Monitor THEN Rest(a) ELSE Goto(a, "clear")
    /\ UNCHANGED <<stored, objects, comb, checking, restarts>>

ClearComb(c) ==
    /\ At(c, "clear")
    /\ comb' = comb \ {Prefixed(work[c].session)}
    /\ Rest(c)
    /\ UNCHANGED <<stored, objects, tracked, checking, restarts>>

--------------------------------------------------------------------------------
(* monitorTimeouts.  A check takes less than the minute that time is       *)
(* counted in.                                                             *)

Tick ==
    /\ At(Monitor, "rest") /\ unchecked = {}
    /\ age' = [s \in Sessions |-> IF stored[s] = Absent THEN 0 ELSE Older(age[s], Old)]
    /\ life' = [s \in Sessions |-> IF stored[s] = Absent THEN 0 ELSE Older(life[s], Dated)]
    /\ ticked' = TRUE
    /\ UNCHANGED <<stored, phase, tracked, comb, work, unchecked, restarts>>

StartCheck ==
    /\ ticked
    /\ At(Monitor, "rest") /\ unchecked = {}
    /\ ticked' = FALSE
    /\ unchecked' = tracked
    /\ UNCHANGED <<stored, objects, tracked, comb, work, restarts>>

\* Mutant: only the idle timeout is looked at.
ExpiredIdle(s) == age[s] > Timeout

Expired(s) == age[s] > Timeout \/ life[s] > MaxDuration

CheckSession(s) ==
    /\ At(Monitor, "rest")
    /\ s \in unchecked
    /\ unchecked' = unchecked \ {s}
    /\ \/ Expired(s) /\ Terminate(Monitor, s)
       \/ ~Expired(s) /\ phase[s] = "active" /\ age[s] > IdleAfter /\ Begin(Monitor, s, "dim")
       \/ ~Expired(s) /\ ~(phase[s] = "active" /\ age[s] > IdleAfter) /\ UNCHANGED work
    /\ UNCHANGED <<stored, objects, tracked, comb, ticked, restarts>>

Dim ==
    /\ At(Monitor, "dim")
    /\ phase' = [phase EXCEPT ![work[Monitor].session] = "idle"]
    /\ Rest(Monitor)
    /\ UNCHANGED <<stored, age, life, tracked, comb, checking, restarts>>

--------------------------------------------------------------------------------
\* apiaryd is restarted: manager and Comb keep nothing in the store's stead.
Restart ==
    /\ restarts > 0
    /\ restarts' = restarts - 1
    /\ phase' = [s \in Sessions |-> Absent]
    /\ tracked' = {} /\ comb' = {}
    /\ work' = [a \in Actors |-> Resting]
    /\ unchecked' = {} /\ ticked' = FALSE
    /\ UNCHANGED <<stored, age, life>>

\* What a goroutine does once it has begun.
Continue(a) ==
    \/ Track(a) \/ FindState(a) \/ Touch(a) \/ AppendMessage(a)
    \/ Write(a) \/ Commit(a) \/ Mark(a) \/ Uncache(a) \/ ClearComb(a)

Check == StartCheck \/ (\E s \in Sessions : CheckSession(s)) \/ Dim

Next ==
    \/ \E c \in Callers, s \in Sessions :
          CreateSession(c, s) \/ SendMessage(c, s) \/ DeleteSession(c, s)
    \/ \E a \in Actors : Continue(a)
    \/ Tick
    \/ Check
    \/ Restart

Spec == Init /\ [][Next]_vars

(* A request that was begun is served, the monitor runs, time passes.      *)
(* Nobody has to send or delete anything.                                  *)
FairSpec ==
    Spec /\ (\A a \in Actors : WF_vars(Continue(a))) /\ WF_vars(Check) /\ WF_vars(Tick)

--------------------------------------------------------------------------------
TypeOK ==
    /\ stored \in [Sessions -> Phases \cup {Absent}]
    /\ phase \in [Sessions -> Phases \cup {Absent}]
    /\ age \in [Sessions -> 0 .. Old]
    /\ life \in [Sessions -> 0 .. Dated]
    /\ tracked \subseteq {s \in Sessions : phase[s] \in Phases}
    /\ comb \subseteq Keyspaces
    /\ work \in [Actors -> [step : Steps, session : Sessions \cup {NoSession},
                            ending : BOOLEAN, data : Phases \cup {Absent}, stale : BOOLEAN]]
    /\ \A a \in Actors : At(a, "rest") <=> work[a].session = NoSession
    /\ unchecked \subseteq Sessions
    /\ ticked \in BOOLEAN
    /\ restarts \in 0 .. RestartBound

Quiet(s) == \A a \in Actors : work[a].session # s

(***************************************************************************)
(* What the manager tracks is alive: when no goroutine is at work on a     *)
(* session it tracks, neither the object nor the record is terminated, and *)
(* the two agree on whether it was ever used, whichever of the updates     *)
(* that touched it lost against each other.                                *)
(***************************************************************************)
TrackedIsLive ==
    \A s \in tracked : Quiet(s) =>
        /\ "terminated" \notin {phase[s], stored[s]}
        /\ phase[s] = "created" <=> stored[s] = "created"

(***************************************************************************)
(* A session that has a conversation is not stored as one never used, even *)
(* though UpdateActivity only logs that its update of the store failed.    *)
(***************************************************************************)
MessageIsRecorded ==
    \A s \in Sessions : Bare(s) \in comb => stored[s] \notin {Absent, "created"}

(***************************************************************************)
(* docs/ARCHITECTURE.md: the manager "enforces session timeouts".  A       *)
(* session that is tracked does not remain so, however busy it is: the     *)
(* maximal duration ends it at the latest.                                 *)
(***************************************************************************)
LifetimeEnds == \A s \in Sessions : s \in tracked ~> s \notin tracked

--------------------------------------------------------------------------------
(* What the documentation says and the code does not do.                   *)

(***************************************************************************)
(* Of the same sentence: a session that the store shows as existing is     *)
(* terminated in the end.  A message that found the session before it was  *)
(* terminated makes its record active again, and nobody tracks it any      *)
(* more.                                                                   *)
(***************************************************************************)
SessionEnds ==
    \A s \in Sessions : stored[s] # Absent ~> stored[s] = "terminated"

================================================================================
