------------------------------- MODULE Orchestrator -------------------------------
(***************************************************************************)
(* The patterns of a hive (internal/patterns/orchestrator.go): a hive that *)
(* has segments is a composition, any other runs the one pattern its       *)
(* specification names.                                                    *)
(***************************************************************************)
EXTENDS Integers, Sequences, FiniteSets

CONSTANTS
    Stages, AnswerBound,
    Tasks, Workers, QueueSize, NoTask, DoubleBound,
    Agents, Events, Matching, StartBound, ChangeBound,
    Segments, Named, MessageBound

ASSUME PipelineAssumption == Stages \in Nat \ {0} /\ AnswerBound \in Nat \ {0}
ASSUME HierarchyAssumption ==
    /\ NoTask \notin Tasks /\ Workers \subseteq Nat
    /\ QueueSize \in Nat \ {0} /\ DoubleBound \in Nat
ASSUME EventsAssumption == Matching \subseteq Agents \X Events /\ {StartBound, ChangeBound} \subseteq Nat
ASSUME SegmentsAssumption ==
    Segments \in Nat \ {0} /\ Named \subseteq 1 .. Segments /\ MessageBound \in Nat

VARIABLES
    pattern,
    \* of Pipeline
    runStatus, run, heard, outputCh, runCancelled, working, answers,
    \* of Hierarchical
    status, cancelled, subscribed, workers, handling, taskQueue, workerIndex, atWorker, outputs, results,
    ActiveTasks, CompletedTasks, FailedTasks, seen, given, lost, surplus, doubled,
    \* of EventDriven
    routes, starts, live, tracked, subscribers, pending, routing, received, changes,
    \* of ComposedPattern
    composedStatus, starting, joints, running, onTopic, produced, forwarded, overtaken

P == INSTANCE Pipeline
H == INSTANCE Hierarchical
E == INSTANCE EventDriven
C == INSTANCE ComposedPattern

pipelineVars == <<runStatus, run, heard, outputCh, runCancelled, working, answers>>
hierarchicalVars ==
    <<status, cancelled, subscribed, workers, handling, taskQueue, workerIndex, atWorker, outputs,
      results, ActiveTasks, CompletedTasks, FailedTasks, seen, given, lost, surplus, doubled>>
eventVars ==
    <<routes, starts, live, tracked, subscribers, pending, routing, received, changes>>
composedVars ==
    <<composedStatus, starting, joints, running, onTopic, produced, forwarded, overtaken>>
vars == <<pattern, pipelineVars, hierarchicalVars, eventVars, composedVars>>

Patterns == {"pipeline", "hierarchical", "swarm", "event-driven", "composed"}

\* NewOrchestrator, for a hive that the code can read.
NewOrchestrator == pattern \in Patterns

Init ==
    /\ NewOrchestrator
    /\ P!Init /\ H!Init /\ E!Init /\ C!Init
    /\ pattern \in {"swarm", "event-driven"} => routes = (pattern = "event-driven")
    /\ pattern \notin {"swarm", "event-driven"} => routes

Next ==
    \/ /\ pattern = "pipeline"
       /\ P!Next
       /\ UNCHANGED <<pattern, hierarchicalVars, eventVars, composedVars>>
    \/ /\ pattern = "hierarchical"
       /\ H!Next
       /\ UNCHANGED <<pattern, pipelineVars, eventVars, composedVars>>
    \/ /\ pattern \in {"event-driven", "swarm"}
       /\ E!Next
       /\ UNCHANGED <<pattern, pipelineVars, hierarchicalVars, composedVars>>
    \/ /\ pattern = "composed"
       /\ C!Next
       /\ UNCHANGED <<pattern, pipelineVars, hierarchicalVars, eventVars>>

Spec == Init /\ [][Next]_vars

\* The goroutine that runs a pipeline keeps running, and its timer fires.
FairSpec ==
    /\ Spec
    /\ WF_vars(/\ pattern = "pipeline"
               /\ P!ExecuteStage
               /\ UNCHANGED <<pattern, hierarchicalVars, eventVars, composedVars>>)

--------------------------------------------------------------------------------
(***************************************************************************)
(* Pipelines: a stage's answer is not missed, however fast it comes.       *)
(***************************************************************************)
OutputIsHeard == P!TypeOK /\ P!OutputIsHeard

(***************************************************************************)
(* Hierarchies: the counters tell where the tasks are, and the workers are *)
(* given as many tasks each.                                               *)
(***************************************************************************)
TasksAccounted == H!TypeOK /\ H!ActiveIsOnItsWay /\ H!Balanced

(***************************************************************************)
(* Events go to whom they match, once; composed patterns can be stopped    *)
(* and forward once.                                                       *)
(***************************************************************************)
RoutedOnce == E!TypeOK /\ E!EventOnce /\ C!TypeOK /\ C!StopUndoesStart

(***************************************************************************)
(* A pipeline whose inputs reach the bus ends, with a status that says how.*)
(***************************************************************************)
PipelineEnds == P!Ends

================================================================================
