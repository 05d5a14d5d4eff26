----------------------------- MODULE ComposedPattern -----------------------------
(***************************************************************************)
(* The composition of patterns (internal/patterns/composed.go): segments   *)
(* one after the other, each with a topic for its input and one for its    *)
(* output, and a subscription per joint that forwards what comes out of a  *)
(* segment to the input of the next.  Start sets this up step by step      *)
(* without the lock that Stop takes.                                       *)
(***************************************************************************)
EXTENDS Integers, FiniteSets

CONSTANTS
    Segments,          \* number of segments
    Named,             \* segments that name their own InputTopic
    MessageBound       \* bound of the model: outputs of a segment

VARIABLES
    composedStatus,
    starting,          \* where Start is: the joint or the segment it is at
    joints,            \* joints that forward
    running,           \* segments that are started
    onTopic,           \* messages on each topic that a joint has still to see
    produced, forwarded,
    overtaken          \* history: Stop came before Start was done

vars == <<composedStatus, starting, joints, running, onTopic, produced, forwarded, overtaken>>

Nr == 1 .. Segments
Joints == 1 .. Segments - 1

\* Topics by number: -i is the output of segment i, i an input of its own.
OutputTopic(i) == 0 - i
InputTopic(i) == IF i \in Named \/ i = 1 THEN i ELSE OutputTopic(i - 1)
Topics == (0 - Segments) .. Segments

At(step, n) == [step |-> step, at |-> n]

Init ==
    /\ composedStatus = "pending"
    /\ starting = At("none", 0)
    /\ joints = {} /\ running = {}
    /\ onTopic = [t \in Topics |-> 0]
    /\ produced = [i \in Nr |-> 0] /\ forwarded = [i \in Joints |-> 0]
    /\ overtaken = FALSE

Start ==
    /\ composedStatus = "pending" /\ composedStatus' = "running"
    /\ starting' = At("routing", 1)
    /\ UNCHANGED <<joints, running, onTopic, produced, forwarded, overtaken>>

\* Whatever fails, what is set up stays.
StartFails ==
    /\ starting.step \in {"routing", "segments"}
    /\ starting' = At("done", 0)
    /\ composedStatus' = "failed"
    /\ UNCHANGED <<joints, running, onTopic, produced, forwarded, overtaken>>

SetupRouting ==
    LET i == starting.at
    IN  /\ starting.step = "routing"
        /\ joints' = joints \cup ({i} \cap Joints)
        /\ starting' = IF i < Segments - 1 THEN At("routing", i + 1) ELSE At("segments", 1)
        /\ UNCHANGED <<composedStatus, running, onTopic, produced, forwarded, overtaken>>

StartSegment ==
    LET i == starting.at
    IN  /\ starting.step = "segments"
        /\ running' = running \cup {i}
        /\ starting' = IF i < Segments THEN At("segments", i + 1) ELSE At("done", 0)
        /\ UNCHANGED <<composedStatus, joints, onTopic, produced, forwarded, overtaken>>

Hear(t) == IF \E i \in joints : OutputTopic(i) = t THEN 1 ELSE 0

Produce(i) ==
    /\ i \in running /\ produced[i] < MessageBound
    /\ produced' = [produced EXCEPT ![i] = @ + 1]
    /\ onTopic' = [onTopic EXCEPT ![OutputTopic(i)] = @ + Hear(OutputTopic(i))]
    /\ UNCHANGED <<composedStatus, starting, joints, running, forwarded, overtaken>>

Forward(i) ==
    /\ i \in joints /\ onTopic[OutputTopic(i)] > 0
    /\ onTopic' = [t \in Topics |->
          onTopic[t] - (IF t = OutputTopic(i) THEN 1 ELSE 0)
                     + (IF t = InputTopic(i + 1) THEN Hear(t) ELSE 0)]
    /\ forwarded' = [forwarded EXCEPT ![i] = @ + 1]
    /\ UNCHANGED <<composedStatus, starting, joints, running, produced, overtaken>>

\* Mutant: the segments are stopped, the joints stay.
StopSegments ==
    /\ composedStatus' = "completed"
    /\ running' = {}
    /\ overtaken' = (starting.step \in {"routing", "segments"})
    /\ UNCHANGED <<starting, joints, onTopic, produced, forwarded>>

Stop ==
    /\ composedStatus' = "completed"
    /\ running' = {} /\ joints' = {}
    /\ onTopic' = [t \in Topics |-> 0]
    /\ overtaken' = (starting.step \in {"routing", "segments"})
    /\ UNCHANGED <<starting, produced, forwarded>>

Next ==
    \/ Start \/ StartFails \/ SetupRouting \/ StartSegment
    \/ \E i \in Nr : Produce(i)
    \/ \E i \in Joints : Forward(i)
    \/ Stop

--------------------------------------------------------------------------------
TypeOK ==
    /\ composedStatus \in {"pending", "running", "completed", "failed"}
    /\ starting \in [step : {"none", "routing", "segments", "done"}, at : 0 .. Segments]
    /\ joints \subseteq Joints /\ running \subseteq Nr
    /\ onTopic \in [Topics -> Nat]

(***************************************************************************)
(* Stop undoes all that Start did, however far it had come or where it had *)
(* failed, unless it overtakes a Start that is still at work; and with     *)
(* topics of their own no segment's output is forwarded twice.             *)
(***************************************************************************)
StopUndoesStart ==
    /\ composedStatus = "completed" /\ ~overtaken => joints = {} /\ running = {}
    /\ Joints \subseteq {i - 1 : i \in Named} => \A i \in Joints : forwarded[i] <= produced[i]

================================================================================
