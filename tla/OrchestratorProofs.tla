--------------------------- MODULE OrchestratorProofs ---------------------------
(***************************************************************************)
(* Orchestrator: what the patterns of a hive promise, for any number of    *)
(* stages, tasks, workers, agents, events and segments.                    *)
(***************************************************************************)
EXTENDS Orchestrator, SequenceTheorems, FiniteSetTheorems, Functions, TLAPS

--------------------------------------------------------------------------------
(* Pipelines.  A stage is listened to before it gets its input, and no     *)
(* stage after the one that runs has an input yet.                         *)

UnderWay == {"subscribe", "publish", "wait"}

PipelineInOrder ==
    /\ runStatus = "pending" => run.step = "none"
    /\ run.step = "none" => working = {}
    /\ run.step \in UnderWay => run.stage \in 1 .. Stages
    /\ run.step \in {"subscribe", "publish"} => run.stage \notin working
    /\ run.step \in UnderWay => \A i \in working : i <= run.stage
    /\ run.step \in {"publish", "wait"} => run.stage \in heard
    /\ \A i \in 1 .. Stages : answers[i] > 0 => i \in working

PipelineInv == P!TypeOK /\ PipelineInOrder /\ P!OutputIsHeard

LEMMA PipelineInit ==
    ASSUME P!Init
    PROVE  PipelineInv
<1>1. Stages \in Nat /\ Stages > 0 /\ 0 \in 0 .. Stages /\ 0 \in 0 .. AnswerBound
    BY PipelineAssumption
<1>2. P!TypeOK
    BY <1>1 DEF P!Init, P!Nr, P!TypeOK
<1>3. PipelineInOrder /\ P!OutputIsHeard
    BY <1>1 DEF P!Init, P!Nr, PipelineInOrder, P!OutputIsHeard, UnderWay
<1> QED
    BY <1>2, <1>3 DEF PipelineInv

LEMMA PipelineStep ==
    ASSUME PipelineInv, P!Next
    PROVE  PipelineInv'
<1> USE PipelineAssumption DEF PipelineInv, PipelineInOrder, P!TypeOK, P!OutputIsHeard, P!Nr, UnderWay
<1>1. CASE P!Start
    BY <1>1 DEF P!Start
<1>2. CASE P!Subscribe
    BY <1>2 DEF P!Subscribe
<1>3. CASE P!Publish
    BY <1>3 DEF P!Publish
<1>4. CASE P!BusFails
    BY <1>4 DEF P!BusFails
<1>5. CASE P!TakeOutput
    BY <1>5 DEF P!TakeOutput, P!Return
<1>6. CASE P!TimeOut \/ P!SeeCancel
    BY <1>6 DEF P!TimeOut, P!SeeCancel, P!Return
<1>7. ASSUME NEW i \in 1 .. Stages, P!Answer(i) PROVE PipelineInv'
    BY <1>7 DEF P!Answer
<1>8. CASE P!Stop \/ P!CallerLeaves
    BY <1>8 DEF P!Stop, P!CallerLeaves
<1> QED
    BY <1>1, <1>2, <1>3, <1>4, <1>5, <1>6, <1>7, <1>8 DEF P!Next, P!ExecuteStage

LEMMA PipelineStays ==
    ASSUME PipelineInv, UNCHANGED pipelineVars
    PROVE  PipelineInv'
BY DEF PipelineInv, PipelineInOrder, P!TypeOK, P!OutputIsHeard, P!Nr, UnderWay, pipelineVars

--------------------------------------------------------------------------------
(* Events.  What an agent has been given of an event, is being given and   *)
(* may still be given never exceeds the subscriptions there have been.     *)

EventsInOrder ==
    /\ tracked <= live /\ live <= starts
    /\ \A a \in Agents, e \in Events :
          /\ a \in routing[e] => <<a, e>> \in Matching
          /\ received[<<a, e>>] > 0 => <<a, e>> \in Matching
          /\ received[<<a, e>>] + pending[e] + (IF a \in routing[e] THEN 1 ELSE 0) <= starts
    /\ starts <= 1 => live = tracked

EventsInv == E!TypeOK /\ EventsInOrder /\ routes \in BOOLEAN

LEMMA EventsInit ==
    ASSUME E!Init
    PROVE  EventsInv
BY EventsAssumption DEF E!Init, EventsInv, EventsInOrder, E!TypeOK

LEMMA EventsStep ==
    ASSUME EventsInv, E!Next
    PROVE  EventsInv'
<1> USE EventsAssumption DEF EventsInv, EventsInOrder, E!TypeOK
<1>1. CASE E!Start \/ E!StartSwarm
    BY <1>1 DEF E!Start, E!StartSwarm, E!Subscribe
<1>2. CASE E!Stop \/ E!StopSwarm
    BY <1>2 DEF E!Stop, E!StopSwarm, E!Unsubscribe
<1>3. ASSUME NEW e \in Events, E!PublishEvent(e) \/ E!PublishToSwarm(e) PROVE EventsInv'
    BY <1>3 DEF E!PublishEvent, E!PublishToSwarm, E!Send
<1>4. ASSUME NEW e \in Events, E!HandleEvent(e) PROVE EventsInv'
    BY <1>4 DEF E!HandleEvent, E!MatchesFilter
<1>5. ASSUME NEW e \in Events, E!HandleSwarmMessage(e) PROVE EventsInv'
    BY <1>5 DEF E!HandleSwarmMessage
<1>6. ASSUME NEW e \in Events, NEW a \in Agents, E!Route(a, e) PROVE EventsInv'
    BY <1>6 DEF E!Route
<1>7. ASSUME NEW a \in Agents, E!AddSubscriber(a) \/ E!RemoveSubscriber(a) PROVE EventsInv'
    BY <1>7 DEF E!AddSubscriber, E!RemoveSubscriber
<1> QED
    BY <1>1, <1>2, <1>3, <1>4, <1>5, <1>6, <1>7 DEF E!Next

LEMMA EventsStay ==
    ASSUME EventsInv, UNCHANGED eventVars
    PROVE  EventsInv'
BY DEF EventsInv, EventsInOrder, E!TypeOK, eventVars

--------------------------------------------------------------------------------
(* Compositions.  What a joint has forwarded and has still to forward was  *)
(* produced; after a Stop that found no Start at work nothing is set up.   *)

ComposedInOrder ==
    /\ starting.step \in {"routing", "segments"} => starting.at \in 1 .. Segments
    /\ overtaken \in BOOLEAN
    /\ composedStatus = "completed" /\ ~overtaken =>
           starting.step \in {"none", "done"} /\ joints = {} /\ running = {}
    /\ produced \in [1 .. Segments -> Nat] /\ forwarded \in [1 .. Segments - 1 -> Nat]
    /\ C!Joints \subseteq {i - 1 : i \in Named} =>
           \A i \in C!Joints : forwarded[i] + onTopic[0 - i] <= produced[i]

ComposedInv == C!TypeOK /\ ComposedInOrder

LEMMA ComposedInit ==
    ASSUME C!Init
    PROVE  ComposedInv
<1>1. Segments \in Nat /\ Segments > 0 /\ 0 \in 0 .. Segments
    BY SegmentsAssumption
<1>2. C!TypeOK
    BY <1>1 DEF C!Init, C!Nr, C!Joints, C!Topics, C!At, C!TypeOK
<1>3. C!Joints \subseteq C!Nr /\ \A i \in C!Joints : 0 - i \in C!Topics
    BY <1>1 DEF C!Joints, C!Nr, C!Topics
<1>4. ComposedInOrder
    <2>1. produced \in [1 .. Segments -> Nat] /\ forwarded \in [1 .. Segments - 1 -> Nat]
        BY DEF C!Init, C!Nr, C!Joints
    <2>2. \A i \in C!Joints : forwarded[i] + onTopic[0 - i] <= produced[i]
        <3> SUFFICES ASSUME NEW i \in C!Joints PROVE forwarded[i] + onTopic[0 - i] <= produced[i]
            OBVIOUS
        <3>1. forwarded[i] = 0 /\ onTopic[0 - i] = 0 /\ produced[i] = 0
            BY <1>3 DEF C!Init
        <3> QED
            BY <3>1
    <2> QED
        BY <2>1, <2>2 DEF C!Init, C!At, ComposedInOrder
<1> QED
    BY <1>2, <1>4 DEF ComposedInv

LEMMA ComposedStep ==
    ASSUME ComposedInv, C!Next
    PROVE  ComposedInv'
<1> USE DEF ComposedInv, C!Nr
<1>1. /\ Segments \in Nat /\ Segments > 0
      /\ C!Joints = 1 .. Segments - 1
      /\ \A i \in C!Joints : i \in 1 .. Segments /\ 0 - i \in C!Topics
    BY SegmentsAssumption DEF C!Joints, C!Topics
<1>2. ASSUME UNCHANGED <<onTopic, produced, forwarded>>,
             joints' \subseteq C!Joints, running' \subseteq 1 .. Segments,
             composedStatus' \in {"pending", "running", "completed", "failed"},
             starting' \in [step : {"none", "routing", "segments", "done"}, at : 0 .. Segments],
             starting'.step \in {"routing", "segments"} => starting'.at \in 1 .. Segments,
             overtaken' \in BOOLEAN,
             composedStatus' = "completed" /\ ~overtaken' =>
                 starting'.step \in {"none", "done"} /\ joints' = {} /\ running' = {}
      PROVE  ComposedInv'
    BY <1>2 DEF ComposedInOrder, C!TypeOK, C!Topics, C!Joints
<1>3. /\ starting \in [step : {"none", "routing", "segments", "done"}, at : 0 .. Segments]
      /\ starting.at \in Int
    BY DEF C!TypeOK
<1>4. \A step \in {"none", "routing", "segments", "done"}, n \in 0 .. Segments :
          /\ C!At(step, n).step = step /\ C!At(step, n).at = n
          /\ C!At(step, n) \in [step : {"none", "routing", "segments", "done"}, at : 0 .. Segments]
    BY DEF C!At
<1>5. 1 \in 0 .. Segments /\ 0 \in 0 .. Segments
    BY <1>1
<1>6. CASE C!Start
    <2>1. /\ composedStatus' = "running" /\ starting' = C!At("routing", 1)
          /\ UNCHANGED <<joints, running, onTopic, produced, forwarded, overtaken>>
        BY <1>6 DEF C!Start
    <2>2. /\ starting' \in [step : {"none", "routing", "segments", "done"}, at : 0 .. Segments]
          /\ starting'.at \in 1 .. Segments
        BY <1>1, <1>4, <1>5, <2>1
    <2> QED
        BY <1>2, <2>1, <2>2 DEF ComposedInOrder, C!TypeOK
<1>7. CASE C!StartFails
    BY <1>1, <1>2, <1>4, <1>5, <1>7 DEF C!StartFails, ComposedInOrder, C!TypeOK
<1>8. CASE C!SetupRouting
    <2> DEFINE i == starting.at
    <2>1. starting.step = "routing" /\ i \in 1 .. Segments
        BY <1>8 DEF C!SetupRouting, ComposedInOrder
    <2>2. /\ starting' = (IF i < Segments - 1 THEN C!At("routing", i + 1) ELSE C!At("segments", 1))
          /\ joints' = joints \cup ({i} \cap C!Joints)
          /\ UNCHANGED <<composedStatus, running, onTopic, produced, forwarded, overtaken>>
        BY <1>8 DEF C!SetupRouting
    <2>3. /\ starting' \in [step : {"none", "routing", "segments", "done"}, at : 0 .. Segments]
          /\ starting'.at \in 1 .. Segments /\ starting'.step \in {"routing", "segments"}
        <3>1. CASE i < Segments - 1
            <4>1. i + 1 \in 0 .. Segments /\ i + 1 \in 1 .. Segments
                BY <1>1, <2>1, <3>1
            <4> QED
                BY <1>4, <2>2, <3>1, <4>1
        <3>2. CASE ~(i < Segments - 1)
            BY <1>1, <1>4, <1>5, <2>2, <3>2
        <3> QED
            BY <3>1, <3>2
    <2> QED
        BY <1>2, <2>1, <2>2, <2>3 DEF ComposedInOrder, C!TypeOK
<1>9. CASE C!StartSegment
    <2> DEFINE i == starting.at
    <2>1. starting.step = "segments" /\ i \in 1 .. Segments
        BY <1>9 DEF C!StartSegment, ComposedInOrder
    <2>2. /\ starting' = (IF i < Segments THEN C!At("segments", i + 1) ELSE C!At("done", 0))
          /\ running' = running \cup {i}
          /\ UNCHANGED <<composedStatus, joints, onTopic, produced, forwarded, overtaken>>
        BY <1>9 DEF C!StartSegment
    <2>3. /\ starting' \in [step : {"none", "routing", "segments", "done"}, at : 0 .. Segments]
          /\ starting'.step \in {"routing", "segments"} => starting'.at \in 1 .. Segments
        <3>1. CASE i < Segments
            <4>1. i + 1 \in 0 .. Segments /\ i + 1 \in 1 .. Segments
                BY <1>1, <2>1, <3>1
            <4> QED
                BY <1>4, <2>2, <3>1, <4>1
        <3>2. CASE ~(i < Segments)
            BY <1>1, <1>4, <1>5, <2>2, <3>2
        <3> QED
            BY <3>1, <3>2
    <2> QED
        BY <1>2, <2>1, <2>2, <2>3 DEF ComposedInOrder, C!TypeOK
\* The steps that move messages.
<1>10. ASSUME UNCHANGED <<composedStatus, starting, joints, running, overtaken>>,
              produced' \in [1 .. Segments -> Nat], forwarded' \in [1 .. Segments - 1 -> Nat],
              onTopic' \in [C!Topics -> Nat],
              C!Joints \subseteq {i - 1 : i \in Named} => \A i \in C!Joints :
                  forwarded'[i] + onTopic'[0 - i] <= produced'[i]
       PROVE  ComposedInv'
    BY <1>10 DEF ComposedInOrder, C!TypeOK, C!Topics, C!Joints
<1>11. \A t : C!Hear(t) \in {0, 1}
    BY DEF C!Hear
<1>12. onTopic \in [C!Topics -> Nat]
       /\ produced \in [1 .. Segments -> Nat] /\ forwarded \in [1 .. Segments - 1 -> Nat]
    BY DEF C!TypeOK, ComposedInOrder
<1>13. ASSUME NEW i \in 1 .. Segments, C!Produce(i) PROVE ComposedInv'
    <2>1. /\ produced' = [produced EXCEPT ![i] = produced[i] + 1]
          /\ onTopic' = [onTopic EXCEPT ![0 - i] = onTopic[0 - i] + C!Hear(0 - i)]
          /\ UNCHANGED <<composedStatus, starting, joints, running, forwarded, overtaken>>
        BY <1>13 DEF C!Produce, C!OutputTopic
    <2>2. 0 - i \in C!Topics
        BY <1>1 DEF C!Topics
    <2>3. C!Hear(0 - i) \in {0, 1}
        BY <1>11
    <2>4. produced' \in [1 .. Segments -> Nat] /\ onTopic' \in [C!Topics -> Nat]
        BY <1>12, <2>1, <2>2, <2>3
    <2>5. ASSUME NEW k \in C!Joints, forwarded[k] + onTopic[0 - k] <= produced[k]
          PROVE  forwarded'[k] + onTopic'[0 - k] <= produced'[k]
        <3>1. /\ k \in 1 .. Segments /\ 0 - k \in C!Topics
              /\ forwarded[k] \in Nat /\ onTopic[0 - k] \in Nat /\ produced[k] \in Nat
            BY <1>1, <1>12
        <3>2. CASE k = i
            BY <1>12, <2>1, <2>2, <2>3, <2>5, <3>1, <3>2
        <3>3. CASE k # i
            BY <1>12, <2>1, <2>2, <2>5, <3>1, <3>3
        <3> QED
            BY <3>2, <3>3
    <2> QED
        BY <1>10, <1>12, <2>1, <2>4, <2>5 DEF ComposedInOrder
<1>14. ASSUME NEW i \in C!Joints, C!Forward(i) PROVE ComposedInv'
    <2>1. /\ onTopic[0 - i] > 0
          /\ onTopic' = [t \in C!Topics |->
                 onTopic[t] - (IF t = 0 - i THEN 1 ELSE 0)
                            + (IF t = C!InputTopic(i + 1) THEN C!Hear(t) ELSE 0)]
          /\ forwarded' = [forwarded EXCEPT ![i] = forwarded[i] + 1]
          /\ UNCHANGED <<composedStatus, starting, joints, running, produced, overtaken>>
        BY <1>14 DEF C!Forward, C!OutputTopic
    <2>2. onTopic' \in [C!Topics -> Nat]
        <3>1. ASSUME NEW t \in C!Topics PROVE onTopic'[t] \in Nat
            <4>1. onTopic[t] \in Nat /\ C!Hear(t) \in {0, 1} /\ (t = 0 - i => onTopic[t] > 0)
                BY <1>11, <1>12, <2>1
            <4>2. onTopic'[t] = onTopic[t] - (IF t = 0 - i THEN 1 ELSE 0)
                                   + (IF t = C!InputTopic(i + 1) THEN C!Hear(t) ELSE 0)
                BY <2>1
            <4> QED
                BY <4>1, <4>2
        <3> QED
            BY <2>1, <3>1
    <2>3. forwarded' \in [1 .. Segments - 1 -> Nat]
        <3>1. i \in 1 .. Segments - 1
            BY <1>1
        <3>2. forwarded[i] + 1 \in Nat
            BY <1>12, <3>1
        <3> QED
            BY <1>12, <2>1, <3>2
    <2>4. ASSUME C!Joints \subseteq {k - 1 : k \in Named}, NEW k \in C!Joints
          PROVE  forwarded'[k] + onTopic'[0 - k] <= produced'[k]
        <3>1. /\ k \in 1 .. Segments /\ 0 - k \in C!Topics
              /\ forwarded[k] \in Nat /\ onTopic[0 - k] \in Nat /\ produced[k] \in Nat
              /\ forwarded[k] + onTopic[0 - k] <= produced[k]
            BY <1>1, <1>12, <2>4 DEF ComposedInOrder
        <3>2. i + 1 \in Named
            <4>1. PICK m \in Named : i = m - 1
                BY <2>4
            <4>2. m \in Int
                BY SegmentsAssumption
            <4> QED
                BY <1>1, <4>1, <4>2
        <3>3. C!InputTopic(i + 1) = i + 1 /\ 0 - k # i + 1
            BY <1>1, <3>1, <3>2 DEF C!InputTopic
        <3>4. onTopic'[0 - k] = onTopic[0 - k] - (IF 0 - k = 0 - i THEN 1 ELSE 0)
            BY <2>1, <3>1, <3>3
        <3>5. CASE k = i
            BY <1>1, <1>12, <2>1, <3>1, <3>4, <3>5
        <3>6. CASE k # i
            <4>1. forwarded'[k] = forwarded[k] /\ produced'[k] = produced[k]
                BY <1>12, <2>1, <3>6
            <4>2. 0 - k # 0 - i
                BY <1>1, <3>1, <3>6
            <4> QED
                BY <3>1, <3>4, <4>1, <4>2
        <3> QED
            BY <3>5, <3>6
    <2> QED
        BY <1>10, <1>12, <2>1, <2>2, <2>3, <2>4
<1>15. CASE C!Stop
    <2>1. /\ composedStatus' = "completed" /\ running' = {} /\ joints' = {}
          /\ onTopic' = [t \in C!Topics |-> 0]
          /\ overtaken' = (starting.step \in {"routing", "segments"})
          /\ UNCHANGED <<starting, produced, forwarded>>
        BY <1>15 DEF C!Stop
    <2>2. C!TypeOK'
        BY <2>1 DEF C!TypeOK, C!Topics, C!Joints
    <2>3. ~overtaken' => starting'.step \in {"none", "done"}
        BY <1>3, <2>1
    <2>4. ASSUME NEW k \in C!Joints, forwarded[k] + onTopic[0 - k] <= produced[k]
          PROVE  forwarded'[k] + onTopic'[0 - k] <= produced'[k]
        <3>1. /\ k \in 1 .. Segments /\ 0 - k \in C!Topics
              /\ forwarded[k] \in Nat /\ onTopic[0 - k] \in Nat /\ produced[k] \in Nat
            BY <1>1, <1>12
        <3> QED
            BY <2>1, <2>4, <3>1
    <2>5. overtaken' \in BOOLEAN
        BY <2>1
    <2> QED
        BY <2>1, <2>2, <2>3, <2>4, <2>5 DEF ComposedInOrder, C!Joints
<1> QED
    BY <1>6, <1>7, <1>8, <1>9, <1>13, <1>14, <1>15 DEF C!Next

LEMMA ComposedStays ==
    ASSUME ComposedInv, UNCHANGED composedVars
    PROVE  ComposedInv'
BY DEF ComposedInv, ComposedInOrder, C!TypeOK, C!Nr, C!Joints, C!Topics, composedVars

--------------------------------------------------------------------------------
(* Hierarchies.  A task is in one place at a time, so that a delegation    *)
(* takes it from the queue and adds it to those at the workers; each       *)
(* worker was given a round of tasks, and one more if its turn has been.   *)

InOnePlace ==
    /\ IsFiniteSet(atWorker) /\ IsInjective(taskQueue)
    /\ Range(taskQueue) \cup atWorker \subseteq seen
    /\ Range(taskQueue) \cap atWorker = {}
    /\ handling # NoTask => handling \in seen \ (Range(taskQueue) \cup atWorker)

RoundRobin ==
    /\ workers \in Nat
    /\ given \in [0 .. workers - 1 -> Nat]
    /\ workers > 0 => \E rounds \in Nat : \A w \in 0 .. workers - 1 :
           given[w] = rounds + (IF w < workerIndex % workers THEN 1 ELSE 0)

HierarchyInv ==
    /\ H!TypeOK /\ lost \in Int /\ surplus \in Int
    /\ InOnePlace /\ RoundRobin /\ H!ActiveIsOnItsWay

\* The model's cardinality and the library's are the same.
LEMMA SameCardinality == \A S : H!Cardinality(S) = Cardinality(S)
BY DEF H!Cardinality, Cardinality, H!IsFiniteSet, IsFiniteSet

LEMMA HierarchyInit ==
    ASSUME H!Init
    PROVE  HierarchyInv
<1> USE DEF H!Init
<1>1. workers \in Nat
    BY HierarchyAssumption
<1>2. <<>> \in Seq(Tasks) /\ Len(<<>>) = 0 /\ DOMAIN <<>> = {} /\ 0 <= QueueSize
    BY EmptySeq, HierarchyAssumption
<1>3. H!TypeOK
    <2>1. {cancelled, subscribed} \subseteq BOOLEAN
        OBVIOUS
    <2>2. workerIndex \in Nat /\ ActiveTasks \in Int /\ CompletedTasks \in Nat /\ FailedTasks \in Nat
        OBVIOUS
    <2>3. taskQueue \in Seq(Tasks) /\ Len(taskQueue) <= QueueSize /\ outputs \in Seq(Tasks)
        BY <1>2
    <2>4. status \in {"pending", "running", "failed"} /\ handling \in Tasks \cup {NoTask}
        OBVIOUS
    <2>5. atWorker \subseteq Tasks /\ results \subseteq Tasks
        OBVIOUS
    <2> QED
        BY <2>1, <2>2, <2>3, <2>4, <2>5 DEF H!TypeOK
<1>4. InOnePlace
    BY <1>2, FS_EmptySet DEF InOnePlace, IsInjective, Range
<1>5. RoundRobin
    <2>1. workers > 0 => workerIndex % workers = 0
        BY <1>1
    <2>2. \A w \in 0 .. workers - 1 : given[w] = 0 + 0
        OBVIOUS
    <2> QED
        BY <1>1, <2>1, <2>2 DEF RoundRobin
<1>6. H!ActiveIsOnItsWay
    BY SameCardinality, <1>2, FS_EmptySet DEF H!ActiveIsOnItsWay, H!OnTheirWay
<1> QED
    BY <1>3, <1>4, <1>5, <1>6 DEF HierarchyInv

\* The turn of a worker comes again after `n` others.
LEMMA NextInTurn ==
    ASSUME NEW i \in Nat, NEW n \in Nat, n > 0
    PROVE  /\ i % n \in 0 .. n - 1
           /\ (i + 1) % n = IF i % n = n - 1 THEN 0 ELSE (i % n) + 1
<1> DEFINE q == i \div n
           r == i % n
<1>1. /\ i = (n * q) + r
      /\ r \in 0 .. n - 1 /\ q \in Nat
    OBVIOUS
<1>2. ASSUME NEW p \in Nat, NEW s \in 0 .. n - 1
      PROVE  ((n * p) + s) % n = s
    OBVIOUS
<1> HIDE DEF q, r
<1>3. CASE r = n - 1
    <2>1. i + 1 = (n * (q + 1)) + 0 /\ q + 1 \in Nat /\ 0 \in 0 .. n - 1
        BY <1>1, <1>3
    <2>2. (i + 1) % n = 0
        BY <1>2, <2>1
    <2> QED
        BY <1>1, <1>3, <2>2 DEF r
<1>4. CASE r # n - 1
    <2>1. i + 1 = (n * q) + (r + 1) /\ r + 1 \in 0 .. n - 1
        BY <1>1, <1>4
    <2>2. (i + 1) % n = r + 1
        BY <1>1, <1>2, <2>1
    <2> QED
        BY <1>1, <1>4, <2>2 DEF r
<1> QED
    BY <1>3, <1>4

LEMMA QueueHead ==
    ASSUME NEW s \in Seq(Tasks), s # <<>>
    PROVE  /\ Len(s) \in Nat /\ Len(Tail(s)) = Len(s) - 1 /\ Tail(s) \in Seq(Tasks)
           /\ Head(s) \in Tasks /\ Head(s) \in Range(s) /\ Range(Tail(s)) \subseteq Range(s)
           /\ IsInjective(s) => IsInjective(Tail(s)) /\ Head(s) \notin Range(Tail(s))
<1>1. Len(s) \in Nat /\ Len(s) > 0 /\ DOMAIN s = 1 .. Len(s)
    BY LenProperties, EmptySeq
<1>2. /\ Tail(s) \in Seq(Tasks) /\ Len(Tail(s)) = Len(s) - 1 /\ Head(s) = s[1]
      /\ DOMAIN Tail(s) = 1 .. (Len(s) - 1)
      /\ \A i \in DOMAIN Tail(s) : i + 1 \in DOMAIN s /\ i + 1 # 1 /\ Tail(s)[i] = s[i + 1]
    BY <1>1
<1>3. 1 \in DOMAIN s
    BY <1>1
<1>4. Head(s) \in Tasks /\ Head(s) \in Range(s) /\ Range(Tail(s)) \subseteq Range(s)
    BY <1>1, <1>2, <1>3 DEF Range
<1>5. ASSUME IsInjective(s) PROVE IsInjective(Tail(s)) /\ Head(s) \notin Range(Tail(s))
    <2>1. \A i, j \in DOMAIN s : s[i] = s[j] => i = j
        BY <1>5 DEF IsInjective
    <2>2. Head(s) \notin Range(Tail(s))
        BY <1>2, <1>3, <2>1 DEF Range
    <2>3. ASSUME NEW i \in DOMAIN Tail(s), NEW j \in DOMAIN Tail(s), Tail(s)[i] = Tail(s)[j]
          PROVE  i = j
        <3>1. i + 1 = j + 1 /\ i \in Int /\ j \in Int
            BY <1>1, <1>2, <2>1, <2>3
        <3> QED
            BY <3>1
    <2> QED
        BY <2>2, <2>3 DEF IsInjective
<1> QED
    BY <1>1, <1>2, <1>4, <1>5

LEMMA QueueAppend ==
    ASSUME NEW s \in Seq(Tasks), NEW t \in Tasks, IsInjective(s), t \notin Range(s)
    PROVE  /\ Append(s, t) \in Seq(Tasks) /\ Len(Append(s, t)) = Len(s) + 1
           /\ Range(Append(s, t)) = Range(s) \cup {t} /\ IsInjective(Append(s, t))
<1> DEFINE r == Append(s, t)
           n == Len(s)
<1>1. /\ n \in Nat /\ DOMAIN s = 1 .. n /\ r \in Seq(Tasks) /\ Len(r) = n + 1
      /\ DOMAIN r = 1 .. n + 1
      /\ \A i \in 1 .. n : r[i] = s[i]
      /\ r[n + 1] = t
    BY AppendProperties, LenProperties
<1> HIDE DEF r, n
<1>2. \A i \in 1 .. n + 1 : i = n + 1 \/ i \in 1 .. n
    BY <1>1
<1>3. n + 1 \in 1 .. n + 1 /\ 1 .. n \subseteq 1 .. n + 1
    BY <1>1
<1>4. Range(r) = Range(s) \cup {t}
    BY <1>1, <1>2, <1>3 DEF Range
<1>5. IsInjective(r)
    BY <1>1, <1>2 DEF IsInjective, Range
<1> QED
    BY <1>1, <1>4, <1>5 DEF r, n

LEMMA HierarchyStep ==
    ASSUME HierarchyInv, H!Next
    PROVE  HierarchyInv'
<1> USE DEF HierarchyInv
<1> DEFINE held == IF handling = NoTask THEN 0 ELSE 1
<1>0. /\ Cardinality(atWorker) \in Nat /\ Len(taskQueue) \in Nat /\ Len(outputs) \in Nat
      /\ ActiveTasks \in Int /\ CompletedTasks \in Nat /\ FailedTasks \in Nat
      /\ taskQueue \in Seq(Tasks) /\ outputs \in Seq(Tasks) /\ NoTask \notin Tasks
      /\ ActiveTasks = held + Len(taskQueue) + Cardinality(atWorker) + Len(outputs) + lost - surplus
      /\ QueueSize \in Nat /\ Len(taskQueue) <= QueueSize
    BY SameCardinality, FS_CardinalityType, LenProperties, HierarchyAssumption
       DEF H!TypeOK, InOnePlace, H!ActiveIsOnItsWay, H!OnTheirWay
<1>a. H!ActiveIsOnItsWay' <=>
          ActiveTasks' = (IF handling' = NoTask THEN 0 ELSE 1) + Len(taskQueue') + Cardinality(atWorker')
                            + Len(outputs') + lost' - surplus'
    BY SameCardinality DEF H!ActiveIsOnItsWay, H!OnTheirWay
<1>b. lost \in Int /\ surplus \in Int
    OBVIOUS
<1>1. UNCHANGED <<workers, workerIndex, given>> => RoundRobin'
    BY DEF RoundRobin
<1>2. UNCHANGED <<handling, taskQueue, atWorker>> /\ seen \subseteq seen' => InOnePlace'
    BY DEF InOnePlace
\* The steps that leave the tasks alone.
<1>3. ASSUME UNCHANGED <<workers, handling, taskQueue, workerIndex, atWorker, outputs, seen, given, lost,
                         surplus>>,
             UNCHANGED <<ActiveTasks, CompletedTasks, FailedTasks>>,
             status' \in {"pending", "running", "failed"}, cancelled' \in BOOLEAN,
             subscribed' \in BOOLEAN, results' \subseteq Tasks
      PROVE  HierarchyInv'
    BY <1>0, <1>a, <1>1, <1>2, <1>3 DEF H!TypeOK
<1>4. ASSUME NEW ok \in BOOLEAN, H!Start(ok) PROVE HierarchyInv'
    BY <1>3, <1>4 DEF H!Start, H!counters, H!history, H!TypeOK
<1>5. CASE H!Stop \/ H!Unsubscribe
    BY <1>3, <1>5 DEF H!Stop, H!Unsubscribe, H!counters, H!history, H!TypeOK
<1>6. ASSUME NEW t \in Tasks, H!CleanupResult(t) PROVE HierarchyInv'
    BY <1>3, <1>6 DEF H!CleanupResult, H!counters, H!history, H!TypeOK
<1>7. ASSUME NEW t \in Tasks, H!Receive(t) PROVE HierarchyInv'
    <2>1. InOnePlace'
        BY <1>0, <1>7 DEF H!Receive, InOnePlace
    <2>2. H!ActiveIsOnItsWay'
        BY <1>0, <1>a, <1>b, <1>7 DEF H!Receive
    <2>3. H!TypeOK'
        BY <1>0, <1>7 DEF H!Receive, H!TypeOK
    <2> QED
        BY <1>1, <1>7, <2>1, <2>2, <2>3 DEF H!Receive
<1>8. CASE H!Enqueue
    <2>1. handling \in Tasks /\ handling \notin Range(taskQueue) /\ IsInjective(taskQueue)
        BY <1>8 DEF H!Enqueue, InOnePlace, H!TypeOK
    <2>2. /\ taskQueue' \in Seq(Tasks) /\ Len(taskQueue') = Len(taskQueue) + 1
          /\ Range(taskQueue') = Range(taskQueue) \cup {handling} /\ IsInjective(taskQueue')
        BY <1>0, <1>8, <2>1, QueueAppend DEF H!Enqueue
    <2>3. InOnePlace'
        BY <1>8, <2>1, <2>2 DEF H!Enqueue, InOnePlace, H!history
    <2>4. H!ActiveIsOnItsWay'
        BY <1>0, <1>a, <1>b, <1>8, <2>1, <2>2 DEF H!Enqueue, H!counters, H!history
    <2>5. H!TypeOK'
        BY <1>0, <1>8, <2>2 DEF H!Enqueue, H!TypeOK, H!counters
    <2> QED
        BY <1>1, <1>8, <2>3, <2>4, <2>5 DEF H!Enqueue, H!history
<1>9. CASE H!GiveUp
    <2>1. InOnePlace'
        BY <1>9 DEF H!GiveUp, InOnePlace, H!history
    <2>2. H!ActiveIsOnItsWay'
        BY <1>0, <1>a, <1>b, <1>9 DEF H!GiveUp, H!history
    <2>3. H!TypeOK'
        BY <1>0, <1>9 DEF H!GiveUp, H!TypeOK
    <2> QED
        BY <1>1, <1>9, <2>1, <2>2, <2>3 DEF H!GiveUp, H!history
<1>10. CASE H!NoWorker
    <2>1. taskQueue # <<>> /\ taskQueue' = Tail(taskQueue) /\ UNCHANGED <<handling, atWorker, seen>>
        BY <1>10 DEF H!NoWorker
    <2>2. InOnePlace'
        BY <1>0, <2>1, QueueHead DEF InOnePlace
    <2>3. Len(taskQueue') = Len(taskQueue) - 1 /\ taskQueue' \in Seq(Tasks)
        BY <1>0, <2>1, QueueHead
    <2>4. H!ActiveIsOnItsWay'
        BY <1>0, <1>a, <1>b, <1>10, <2>3 DEF H!NoWorker, H!counters
    <2>5. H!TypeOK'
        BY <1>0, <1>10, <2>3 DEF H!NoWorker, H!TypeOK, H!counters
    <2> QED
        BY <1>1, <1>10, <2>2, <2>4, <2>5 DEF H!NoWorker
<1>11. ASSUME NEW ok \in BOOLEAN, NEW reached \in BOOLEAN, H!Delegate(ok, reached)
       PROVE  HierarchyInv'
    <2> DEFINE t == Head(taskQueue)
               w == workerIndex % workers
    <2>1. /\ taskQueue # <<>> /\ workers > 0 /\ (ok => reached)
          /\ taskQueue' = Tail(taskQueue) /\ workerIndex' = workerIndex + 1
          /\ given' = [given EXCEPT ![w] = given[w] + 1]
          /\ atWorker' = IF reached THEN atWorker \cup {t} ELSE atWorker
          /\ ActiveTasks' = IF ok THEN ActiveTasks ELSE ActiveTasks - 1
          /\ FailedTasks' = IF ok THEN FailedTasks ELSE FailedTasks + 1
          /\ surplus' = IF reached /\ ~ok THEN surplus + 1 ELSE surplus
          /\ UNCHANGED <<status, cancelled, subscribed, workers, handling, outputs, results,
                         CompletedTasks, seen, lost, doubled>>
        BY <1>11 DEF H!Delegate, H!NextTurn
    <2>2. /\ Len(taskQueue') = Len(taskQueue) - 1 /\ taskQueue' \in Seq(Tasks)
          /\ t \in Tasks /\ t \in Range(taskQueue) /\ Range(taskQueue') \subseteq Range(taskQueue)
          /\ IsInjective(taskQueue') /\ t \notin Range(taskQueue')
        BY <1>0, <2>1, QueueHead DEF InOnePlace
    <2>3. t \notin atWorker /\ t # handling /\ t \in seen
        BY <1>0, <2>2 DEF InOnePlace
    <2>4. /\ IsFiniteSet(atWorker')
          /\ Cardinality(atWorker') = Cardinality(atWorker) + (IF reached THEN 1 ELSE 0)
        <3>1. /\ IsFiniteSet(atWorker \cup {t})
              /\ Cardinality(atWorker \cup {t}) = Cardinality(atWorker) + 1
            BY <2>3, FS_AddElement DEF InOnePlace
        <3> HIDE DEF t
        <3>2. CASE reached
            BY <2>1, <3>1, <3>2
        <3>3. CASE ~reached
            BY <1>0, <2>1, <3>3 DEF InOnePlace
        <3> QED
            BY <3>2, <3>3
    <2> HIDE DEF t
    <2>5. InOnePlace'
        BY <2>1, <2>2, <2>3, <2>4 DEF InOnePlace
    <2>6. H!ActiveIsOnItsWay'
        <3>1. Len(taskQueue') = Len(taskQueue) - 1 /\ UNCHANGED <<handling, outputs, lost>>
            BY <2>1, <2>2
        <3>2. /\ ActiveTasks' = ActiveTasks - (IF ok THEN 0 ELSE 1)
              /\ surplus' = surplus + (IF reached /\ ~ok THEN 1 ELSE 0)
              /\ Cardinality(atWorker') = Cardinality(atWorker) + (IF reached THEN 1 ELSE 0)
              /\ ok => reached
            BY <1>0, <2>1, <2>4
        <3>a. held \in Int /\ (IF handling' = NoTask THEN 0 ELSE 1) = held
            BY <3>1
        <3> HIDE DEF held
        <3>3. CASE ok
            BY <1>0, <1>a, <1>b, <3>1, <3>2, <3>a, <3>3
        <3>4. CASE ~ok /\ reached
            BY <1>0, <1>a, <1>b, <3>1, <3>2, <3>a, <3>4
        <3>5. CASE ~ok /\ ~reached
            <4>1. /\ ActiveTasks' = ActiveTasks - 1 /\ surplus' = surplus
                  /\ Cardinality(atWorker') = Cardinality(atWorker)
                BY <1>0, <1>b, <3>2, <3>5
            <4> QED
                BY <1>0, <1>a, <1>b, <3>1, <3>a, <4>1
        <3> QED
            BY <3>3, <3>4, <3>5
    <2>7. H!TypeOK'
        BY <1>0, <2>1, <2>2 DEF H!TypeOK
    <2>8. RoundRobin'
        <3>1. workerIndex \in Nat /\ workers \in Nat /\ given \in [0 .. workers - 1 -> Nat]
            BY DEF H!TypeOK, RoundRobin
        <3>2. /\ w \in 0 .. workers - 1
              /\ workerIndex' % workers = IF w = workers - 1 THEN 0 ELSE w + 1
            BY <2>1, <3>1, NextInTurn
        <3>3. PICK rounds \in Nat : \A v \in 0 .. workers - 1 :
                  given[v] = rounds + (IF v < w THEN 1 ELSE 0)
            BY <2>1 DEF RoundRobin
        <3> HIDE DEF w
        <3>4. \A v \in 0 .. workers - 1 : given'[v] = given[v] + (IF v = w THEN 1 ELSE 0)
            BY <2>1, <3>1, <3>2
        <3>5. CASE w = workers - 1
            <4>1. \A v \in 0 .. workers - 1 :
                      given'[v] = (rounds + 1) + (IF v < workerIndex' % workers THEN 1 ELSE 0)
                BY <3>1, <3>2, <3>3, <3>4, <3>5
            <4>2. rounds + 1 \in Nat /\ given' \in [0 .. workers - 1 -> Nat]
                BY <2>1, <3>1, <3>2
            <4> QED
                BY <2>1, <3>1, <4>1, <4>2 DEF RoundRobin
        <3>6. CASE w # workers - 1
            <4>1. \A v \in 0 .. workers - 1 :
                      given'[v] = rounds + (IF v < workerIndex' % workers THEN 1 ELSE 0)
                BY <3>1, <3>2, <3>3, <3>4, <3>6
            <4>2. given' \in [0 .. workers - 1 -> Nat]
                BY <2>1, <3>1, <3>2
            <4> QED
                BY <2>1, <3>1, <4>1, <4>2 DEF RoundRobin
        <3> QED
            BY <3>5, <3>6
    <2> QED
        BY <2>1, <2>5, <2>6, <2>7, <2>8
<1>12. ASSUME NEW t \in Tasks PROVE Append(outputs, t) \in Seq(Tasks)
                                   /\ Len(Append(outputs, t)) = Len(outputs) + 1
    BY <1>0, AppendProperties
<1>13. ASSUME NEW t \in Tasks, H!WorkerAnswers(t) PROVE HierarchyInv'
    <2>1. /\ IsFiniteSet(atWorker \ {t})
          /\ Cardinality(atWorker \ {t}) = Cardinality(atWorker) - 1
        BY <1>13, FS_RemoveElement DEF H!WorkerAnswers, InOnePlace
    <2>2. InOnePlace'
        BY <1>13, <2>1 DEF H!WorkerAnswers, InOnePlace, H!history
    <2>3. H!ActiveIsOnItsWay'
        <3>1. /\ Len(outputs') = Len(outputs) + 1
              /\ Cardinality(atWorker') = Cardinality(atWorker) - 1
              /\ UNCHANGED <<handling, taskQueue, ActiveTasks, lost, surplus>>
            BY <1>12, <1>13, <2>1 DEF H!WorkerAnswers, H!counters, H!history
        <3>2. held \in Int /\ (IF handling' = NoTask THEN 0 ELSE 1) = held
            BY <3>1
        <3> HIDE DEF held
        <3> QED
            BY <1>0, <1>a, <1>b, <3>1, <3>2
    <2>4. H!TypeOK'
        BY <1>12, <1>13 DEF H!WorkerAnswers, H!TypeOK, H!counters
    <2> QED
        BY <1>1, <1>13, <2>2, <2>3, <2>4 DEF H!WorkerAnswers, H!history
<1>14. ASSUME NEW t \in Tasks, H!WorkerRepeats(t) PROVE HierarchyInv'
    <2>1. H!ActiveIsOnItsWay'
        <3>1. /\ Len(outputs') = Len(outputs) + 1 /\ surplus' = surplus + 1
              /\ UNCHANGED <<handling, taskQueue, atWorker, ActiveTasks, lost>>
            BY <1>12, <1>14 DEF H!WorkerRepeats, H!counters
        <3>2. held \in Int /\ (IF handling' = NoTask THEN 0 ELSE 1) = held
            BY <3>1
        <3> HIDE DEF held
        <3> QED
            BY <1>0, <1>a, <1>b, <3>1, <3>2
    <2>2. H!TypeOK'
        BY <1>12, <1>14 DEF H!WorkerRepeats, H!TypeOK, H!counters
    <2> QED
        BY <1>1, <1>2, <1>14, <2>1, <2>2 DEF H!WorkerRepeats
<1>15. CASE H!HandleWorkerOutput
    <2>1. /\ Tail(outputs) \in Seq(Tasks) /\ Len(Tail(outputs)) = Len(outputs) - 1
          /\ Head(outputs) \in Tasks
        BY <1>0, <1>15, QueueHead DEF H!HandleWorkerOutput
    <2>2. H!ActiveIsOnItsWay'
        BY <1>0, <1>a, <1>b, <1>15, <2>1 DEF H!HandleWorkerOutput, H!history
    <2>3. H!TypeOK'
        BY <1>0, <1>15, <2>1 DEF H!HandleWorkerOutput, H!TypeOK
    <2> QED
        BY <1>1, <1>2, <1>15, <2>2, <2>3 DEF H!HandleWorkerOutput, H!history
<1> QED
    BY <1>4, <1>5, <1>6, <1>7, <1>8, <1>9, <1>10, <1>11, <1>13, <1>14, <1>15 DEF H!Next

LEMMA HierarchyStays ==
    ASSUME HierarchyInv, UNCHANGED hierarchicalVars
    PROVE  HierarchyInv'
BY DEF HierarchyInv, InOnePlace, RoundRobin, H!TypeOK, H!ActiveIsOnItsWay, H!OnTheirWay,
       hierarchicalVars

--------------------------------------------------------------------------------
(* The orchestrator runs one pattern.                                      *)

Inv ==
    /\ pattern \in Patterns
    /\ PipelineInv /\ HierarchyInv /\ EventsInv /\ ComposedInv

LEMMA Invariant == Spec => []Inv
<1>1. Init => Inv
    BY PipelineInit, HierarchyInit, EventsInit, ComposedInit DEF Init, NewOrchestrator, Inv
<1>2. Inv /\ [Next]_vars => Inv'
    BY PipelineStep, HierarchyStep, EventsStep, ComposedStep,
       PipelineStays, HierarchyStays, EventsStay, ComposedStays DEF Next, vars, Inv
<1> QED
    BY <1>1, <1>2, PTL DEF Spec

\* The variables of all four patterns keep their types; among them, the queue of
\* the hierarchical pattern never holds more tasks than it has room for.
THEOREM TypeCorrect == Spec => [](P!TypeOK /\ H!TypeOK /\ E!TypeOK /\ C!TypeOK)
<1>1. Inv => P!TypeOK /\ H!TypeOK /\ E!TypeOK /\ C!TypeOK
    BY DEF Inv, PipelineInv, HierarchyInv, EventsInv, ComposedInv
<1> QED
    BY <1>1, Invariant, PTL

\* P!OutputIsHeard, for any number of stages and of replicas that answer: the
\* subscription precedes the input, so that no first answer is missed.
THEOREM OutputsAreHeard == Spec => []OutputIsHeard
<1>1. Inv => OutputIsHeard
    BY DEF Inv, PipelineInv, OutputIsHeard
<1> QED
    BY <1>1, Invariant, PTL

\* TasksAccounted, for any tasks, workers and queue: the counter of active
\* tasks drifts only by what found no worker and by answers that were not
\* expected, and the turn passes from worker to worker.
THEOREM TasksAreAccountedFor == Spec => []TasksAccounted
<1>1. Inv => TasksAccounted
    <2> SUFFICES ASSUME Inv PROVE TasksAccounted
        OBVIOUS
    <2>1. H!Balanced
        <3>1. workers \in Nat /\ given \in [0 .. workers - 1 -> Nat]
            BY DEF Inv, HierarchyInv, RoundRobin
        <3> SUFFICES ASSUME NEW v \in 0 .. workers - 1, NEW w \in 0 .. workers - 1
                     PROVE  given[v] - given[w] <= 1
            BY <3>1 DEF H!Balanced
        <3>2. workers > 0
            BY <3>1
        <3>3. PICK rounds \in Nat : \A u \in 0 .. workers - 1 :
                  given[u] = rounds + (IF u < workerIndex % workers THEN 1 ELSE 0)
            BY <3>2 DEF Inv, HierarchyInv, RoundRobin
        <3>4. given[v] \in rounds .. rounds + 1 /\ given[w] \in rounds .. rounds + 1
            BY <3>3
        <3> QED
            BY <3>4
    <2> QED
        BY <2>1 DEF Inv, HierarchyInv, TasksAccounted
<1> QED
    BY <1>1, Invariant, PTL

\* RoutedOnce, for any agents, filters, events and segments: an agent gets an
\* event once for each Start, and a composition that was stopped in time is
\* undone and has forwarded nothing twice.
THEOREM EventsAreRoutedOnce == Spec => []RoutedOnce
<1>1. Inv => RoutedOnce
    <2> SUFFICES ASSUME Inv PROVE RoutedOnce
        OBVIOUS
    <2>1. E!EventOnce
        <3>1. ASSUME NEW a \in Agents, NEW e \in Events
              PROVE  /\ received[<<a, e>>] <= starts
                     /\ received[<<a, e>>] > 0 => <<a, e>> \in Matching
            <4>1. received[<<a, e>>] \in Nat /\ pending[e] \in Nat /\ starts \in Nat
                BY EventsAssumption DEF Inv, EventsInv, E!TypeOK
            <4> QED
                BY <4>1 DEF Inv, EventsInv, EventsInOrder
        <3> QED
            BY <3>1 DEF Inv, EventsInv, EventsInOrder, E!EventOnce
    <2>2. C!StopUndoesStart
        <3>1. ASSUME C!Joints \subseteq {i - 1 : i \in Named}, NEW i \in C!Joints
              PROVE  forwarded[i] <= produced[i]
            <4>1. i \in 1 .. Segments /\ 0 - i \in C!Topics /\ i \in 1 .. Segments - 1
                BY SegmentsAssumption DEF C!Joints, C!Topics
            <4>2. /\ forwarded[i] + onTopic[0 - i] <= produced[i]
                  /\ forwarded[i] \in Nat /\ onTopic[0 - i] \in Nat /\ produced[i] \in Nat
                BY <3>1, <4>1 DEF Inv, ComposedInv, ComposedInOrder, C!TypeOK
            <4> QED
                BY <4>2
        <3> QED
            BY <3>1 DEF Inv, ComposedInv, ComposedInOrder, C!StopUndoesStart
    <2> QED
        BY <2>1, <2>2 DEF Inv, EventsInv, ComposedInv, RoutedOnce
<1> QED
    BY <1>1, Invariant, PTL

================================================================================
