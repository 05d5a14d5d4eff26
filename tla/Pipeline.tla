-------------------------------- MODULE Pipeline --------------------------------
(***************************************************************************)
(* The pipeline pattern (internal/patterns/pipeline.go).  One goroutine    *)
(* runs the stages: it subscribes to the output of a stage, publishes the  *)
(* input, and waits for the first output, a timeout or the end of its      *)
(* context.  Stop may come at any time; the subscriptions last until the   *)
(* run returns.                                                            *)
(***************************************************************************)
EXTENDS Integers, FiniteSets

CONSTANTS
    Stages,            \* number of stages
    AnswerBound        \* bound of the model: outputs that a stage produces

VARIABLES
    runStatus,            \* PipelineState.Status
    run,               \* where executeStage is, and in which stage
    heard,             \* stages whose output is subscribed to
    outputCh,          \* stages whose channel holds an output
    runCancelled,         \* the context
    working,           \* stages whose agents have an input
    answers            \* outputs each stage has produced, delivered or not

vars == <<runStatus, run, heard, outputCh, runCancelled, working, answers>>

Nr == 1 .. Stages

Init ==
    /\ runStatus = "pending"
    /\ run = [step |-> "none", stage |-> 0]
    /\ heard = {} /\ outputCh = {} /\ working = {}
    /\ runCancelled = FALSE
    /\ answers = [i \in Nr |-> 0]

Return ==
    /\ run' = [run EXCEPT !.step = "returned"]
    /\ heard' = {}

Start ==
    /\ runStatus = "pending"
    /\ runStatus' = "running"
    /\ run' = [step |-> "subscribe", stage |-> 1]
    /\ UNCHANGED <<heard, outputCh, runCancelled, working, answers>>

\* Mutant: the input goes out before anybody listens to the output.
SubscribeLater ==
    /\ run.step = "subscribe"
    /\ run' = [run EXCEPT !.step = "publish"]
    /\ UNCHANGED <<runStatus, heard, outputCh, runCancelled, working, answers>>

Subscribe ==
    /\ run.step = "subscribe"
    /\ run' = [run EXCEPT !.step = "publish"]
    /\ heard' = heard \cup {run.stage}
    /\ UNCHANGED <<runStatus, outputCh, runCancelled, working, answers>>

Publish ==
    /\ run.step = "publish"
    /\ run' = [run EXCEPT !.step = "wait"]
    /\ working' = working \cup {run.stage}
    /\ UNCHANGED <<runStatus, heard, outputCh, runCancelled, answers>>

\* An error of the bus ends the run and leaves the status as it is.
BusFails ==
    /\ run.step \in {"subscribe", "publish"}
    /\ run' = [run EXCEPT !.step = "error"]
    /\ heard' = {}
    /\ UNCHANGED <<runStatus, outputCh, runCancelled, working, answers>>

\* The stage is done, whatever Stop has said meanwhile.
TakeOutput ==
    /\ run.step = "wait" /\ run.stage \in outputCh
    /\ outputCh' = outputCh \ {run.stage}
    /\ \/ /\ run.stage < Stages
          /\ run' = [step |-> "subscribe", stage |-> run.stage + 1]
          /\ UNCHANGED <<runStatus, heard>>
       \/ /\ run.stage = Stages
          /\ runStatus' = "completed"
          /\ Return
    /\ UNCHANGED <<runCancelled, working, answers>>

\* Mutant: the error is returned, but not noted.
TimeOutUnnoted ==
    /\ run.step = "wait"
    /\ Return
    /\ UNCHANGED <<runStatus, outputCh, runCancelled, working, answers>>

TimeOut ==
    /\ run.step = "wait"
    /\ runStatus' = "failed"
    /\ Return
    /\ UNCHANGED <<outputCh, runCancelled, working, answers>>

SeeCancel ==
    /\ run.step = "wait" /\ runCancelled
    /\ runStatus' = "aborted"
    /\ Return
    /\ UNCHANGED <<outputCh, runCancelled, working, answers>>

\* The stage's agents answer, once for every replica.
Answer(i) ==
    /\ i \in working /\ answers[i] < AnswerBound
    /\ answers' = [answers EXCEPT ![i] = @ + 1]
    /\ outputCh' = IF i \in heard THEN outputCh \cup {i} ELSE outputCh
    /\ UNCHANGED <<runStatus, run, heard, runCancelled, working>>

Stop ==
    /\ runStatus # "pending"
    /\ runCancelled' = TRUE
    /\ runStatus' = IF runStatus = "running" THEN "aborted" ELSE runStatus
    /\ UNCHANGED <<run, heard, outputCh, working, answers>>

\* The caller's own context ends.
CallerLeaves ==
    /\ runStatus # "pending" /\ ~runCancelled
    /\ runCancelled' = TRUE
    /\ UNCHANGED <<runStatus, run, heard, outputCh, working, answers>>

ExecuteStage == Subscribe \/ Publish \/ BusFails \/ TakeOutput \/ TimeOut \/ SeeCancel

Next == Start \/ ExecuteStage \/ (\E i \in Nr : Answer(i)) \/ Stop \/ CallerLeaves

--------------------------------------------------------------------------------
TypeOK ==
    /\ runStatus \in {"pending", "running", "completed", "failed", "aborted"}
    /\ run \in [step : {"none", "subscribe", "publish", "wait", "returned", "error"}, stage : 0 .. Stages]
    /\ heard \subseteq Nr /\ outputCh \subseteq Nr /\ working \subseteq Nr
    /\ runCancelled \in BOOLEAN
    /\ answers \in [Nr -> 0 .. AnswerBound]

(***************************************************************************)
(* No first output is missed: while a run waits, an answer that the        *)
(* stage's agents have given is in the channel, however fast they were.    *)
(***************************************************************************)
OutputIsHeard ==
    run.step = "wait" /\ answers[run.stage] > 0 => run.stage \in outputCh

(***************************************************************************)
(* A pipeline whose inputs reach the bus comes to an end, and its status   *)
(* says which: it does not stay "running".                                 *)
(***************************************************************************)
Ends == runStatus = "running" ~> runStatus # "running" \/ run.step = "error"

================================================================================
