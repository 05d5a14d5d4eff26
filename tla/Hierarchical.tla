------------------------------- MODULE Hierarchical -------------------------------
(***************************************************************************)
(* The hierarchical pattern (internal/patterns/hierarchical.go).  The      *)
(* supervisor's messages become tasks in a bounded queue, a goroutine      *)
(* gives them to the workers in turn, and the workers' outputs become      *)
(* results.  The three run concurrently and share the counters.            *)
(***************************************************************************)
EXTENDS Integers, Sequences, FiniteSets, SequencesExt

CONSTANTS
    Tasks,             \* messages of the supervisor, by ID
    Workers,           \* numbers of workers that a hive may have
    QueueSize,         \* of taskQueue, 100 in the code
    NoTask,
    DoubleBound        \* bound of the model: second answers to a task

VARIABLES
    status, cancelled,
    subscribed,        \* to the supervisor's and the workers' topics
    workers,           \* how many workers Initialize was given
    handling,          \* the task in handleSupervisorInput
    taskQueue,
    workerIndex,
    atWorker,          \* tasks that a worker has, or had, to answer
    outputs,           \* answers the handler has still to see
    results,
    ActiveTasks, CompletedTasks, FailedTasks,
    \* History variables:
    seen,              \* tasks received
    given,             \* how many tasks each worker was given
    lost,              \* tasks for which there was no worker
    surplus,           \* outputs that settle what was settled before
    doubled

counters == <<ActiveTasks, CompletedTasks, FailedTasks>>
history == <<seen, given, lost, surplus, doubled>>
vars == <<status, cancelled, subscribed, workers, handling, taskQueue, workerIndex, atWorker, outputs, results,
          counters, history>>

Init ==
    /\ status = "pending" /\ cancelled = FALSE /\ subscribed = FALSE
    /\ workers \in Workers
    /\ handling = NoTask /\ taskQueue = <<>>
    /\ workerIndex = 0
    /\ atWorker = {} /\ outputs = <<>> /\ results = {}
    /\ ActiveTasks = 0 /\ CompletedTasks = 0 /\ FailedTasks = 0
    /\ seen = {} /\ given = [w \in 0 .. workers - 1 |-> 0]
    /\ lost = 0 /\ surplus = 0 /\ doubled = 0

\* A subscription that fails cancels the run, whose status stays "running".
Start(ok) ==
    /\ status = "pending" /\ status' = "running"
    /\ subscribed' = ok /\ cancelled' = ~ok
    /\ UNCHANGED <<workers, handling, taskQueue, workerIndex, atWorker, outputs, results, counters, history>>

--------------------------------------------------------------------------------
(* handleSupervisorInput: counted, then queued, or given up when the       *)
(* context ends first.                                                     *)

Receive(t) ==
    /\ subscribed
    /\ handling = NoTask /\ t \notin seen
    /\ handling' = t /\ seen' = seen \cup {t}
    /\ ActiveTasks' = ActiveTasks + 1
    /\ UNCHANGED <<status, cancelled, subscribed, workers, taskQueue, workerIndex, atWorker, outputs, results,
                   CompletedTasks, FailedTasks, given, lost, surplus, doubled>>

Enqueue ==
    /\ handling # NoTask /\ Len(taskQueue) < QueueSize
    /\ taskQueue' = Append(taskQueue, handling) /\ handling' = NoTask
    /\ UNCHANGED <<status, cancelled, subscribed, workers, workerIndex, atWorker, outputs, results, counters, history>>

\* Mutant: the task is given up and stays counted.
GiveUpCounted ==
    /\ handling # NoTask /\ cancelled
    /\ handling' = NoTask
    /\ UNCHANGED <<status, cancelled, subscribed, workers, taskQueue, workerIndex, atWorker, outputs, results,
                   counters, history>>

GiveUp ==
    /\ handling # NoTask /\ cancelled
    /\ handling' = NoTask
    /\ ActiveTasks' = ActiveTasks - 1
    /\ UNCHANGED <<status, cancelled, subscribed, workers, taskQueue, workerIndex, atWorker, outputs, results,
                   CompletedTasks, FailedTasks, history>>

--------------------------------------------------------------------------------
(* delegateTasks.  A publication that fails may have reached the worker.   *)

\* Mutant: the turn goes on only when the publication worked.
NextTurnIf(reached) == IF reached THEN workerIndex + 1 ELSE workerIndex

NextTurn(reached) == workerIndex + 1

\* The counter of a task without a worker is not put back.
NoWorker ==
    /\ taskQueue # <<>> /\ workers = 0
    /\ taskQueue' = Tail(taskQueue)
    /\ lost' = lost + 1
    /\ UNCHANGED <<status, cancelled, subscribed, workers, handling, workerIndex, atWorker, outputs, results, counters,
                   seen, given, surplus, doubled>>

Delegate(ok, reached) ==
    LET t == Head(taskQueue)
        w == workerIndex % workers
    IN  /\ taskQueue # <<>> /\ workers > 0
        /\ ok => reached
        /\ taskQueue' = Tail(taskQueue)
        /\ workerIndex' = NextTurn(reached)
        /\ given' = [given EXCEPT ![w] = @ + 1]
        /\ atWorker' = IF reached THEN atWorker \cup {t} ELSE atWorker
        /\ ActiveTasks' = IF ok THEN ActiveTasks ELSE ActiveTasks - 1
        /\ FailedTasks' = IF ok THEN FailedTasks ELSE FailedTasks + 1
        /\ surplus' = IF reached /\ ~ok THEN surplus + 1 ELSE surplus
        /\ UNCHANGED <<status, cancelled, subscribed, workers, handling, outputs, results, CompletedTasks, seen, lost,
                       doubled>>

--------------------------------------------------------------------------------
(* handleWorkerOutput: whatever comes is stored as a result and counted.   *)

WorkerAnswers(t) ==
    /\ t \in atWorker
    /\ atWorker' = atWorker \ {t}
    /\ outputs' = Append(outputs, t)
    /\ UNCHANGED <<status, cancelled, subscribed, workers, handling, taskQueue, workerIndex, results, counters, history>>

WorkerRepeats(t) ==
    /\ doubled < DoubleBound /\ doubled' = doubled + 1
    /\ t \in results
    /\ outputs' = Append(outputs, t)
    /\ surplus' = surplus + 1
    /\ UNCHANGED <<status, cancelled, subscribed, workers, handling, taskQueue, workerIndex, atWorker, results, counters,
                   seen, given, lost>>

HandleWorkerOutput ==
    /\ outputs # <<>> /\ subscribed
    /\ outputs' = Tail(outputs)
    /\ results' = results \cup {Head(outputs)}
    /\ ActiveTasks' = ActiveTasks - 1
    /\ CompletedTasks' = CompletedTasks + 1
    /\ UNCHANGED <<status, cancelled, subscribed, workers, handling, taskQueue, workerIndex, atWorker, FailedTasks,
                   history>>

CleanupResult(t) ==
    /\ t \in results /\ ~cancelled
    /\ results' = results \ {t}
    /\ UNCHANGED <<status, cancelled, subscribed, workers, handling, taskQueue, workerIndex, atWorker, outputs, counters,
                   history>>

Stop ==
    /\ status # "pending"
    /\ cancelled' = TRUE
    /\ status' = IF status = "running" THEN "failed" ELSE status
    /\ UNCHANGED <<subscribed, workers, handling, taskQueue, workerIndex, atWorker, outputs, results,
                   counters, history>>

Unsubscribe ==
    /\ cancelled /\ subscribed /\ subscribed' = FALSE
    /\ UNCHANGED <<status, cancelled, workers, handling, taskQueue, workerIndex, atWorker, outputs, results,
                   counters, history>>

Next ==
    \/ \E ok \in BOOLEAN : Start(ok)
    \/ \E t \in Tasks : Receive(t) \/ WorkerAnswers(t) \/ WorkerRepeats(t) \/ CleanupResult(t)
    \/ Enqueue \/ GiveUp
    \/ NoWorker \/ \E ok, reached \in BOOLEAN : Delegate(ok, reached)
    \/ HandleWorkerOutput
    \/ Stop \/ Unsubscribe

--------------------------------------------------------------------------------
TypeOK ==
    /\ status \in {"pending", "running", "failed"} /\ {cancelled, subscribed} \subseteq BOOLEAN
    /\ handling \in Tasks \cup {NoTask}
    /\ taskQueue \in Seq(Tasks) /\ Len(taskQueue) <= QueueSize
    /\ workerIndex \in Nat
    /\ atWorker \subseteq Tasks /\ outputs \in Seq(Tasks) /\ results \subseteq Tasks
    /\ ActiveTasks \in Int /\ CompletedTasks \in Nat /\ FailedTasks \in Nat

(***************************************************************************)
(* ActiveTasks counts the tasks that are somewhere on their way, plus      *)
(* those that found no worker, minus the answers that were not expected    *)
(* any more: nothing else makes the counter drift, and without such        *)
(* answers it is never negative.                                           *)
(***************************************************************************)
OnTheirWay ==
    (IF handling = NoTask THEN 0 ELSE 1) + Len(taskQueue) + Cardinality(atWorker) + Len(outputs)

ActiveIsOnItsWay == ActiveTasks = OnTheirWay + lost - surplus

(***************************************************************************)
(* Round-robin: no worker is given two tasks more than another, also when  *)
(* publications fail.                                                      *)
(***************************************************************************)
Balanced == \A v, w \in DOMAIN given : given[v] - given[w] <= 1

================================================================================
