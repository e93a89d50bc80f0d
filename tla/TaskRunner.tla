----------------------------- MODULE TaskRunner -----------------------------
(***************************************************************************)
(* What the rollout pipeline relies on of areal/infra/async_task_runner.py *)
(* - two bounded queues and a set of coroutines between them.              *)
(*                                                                         *)
(* A task is submitted to the input queue, started by the background       *)
(* thread, returns, and is published once to the output queue.  The module *)
(* hides how the thread is woken, where it suspends and which identifiers  *)
(* it remembers; AsyncTaskRunner has all of that and implements this       *)
(* module.  BatchTaskDispatcher is built on the actions below.             *)
(***************************************************************************)
EXTENDS Naturals, Sequences, FiniteSets, SequencesExt

CONSTANTS
    Tasks,          \* task identifiers
    MaxQueueSize    \* capacity of the input and of the output queue

ASSUME MaxQueueSizeAssumption == MaxQueueSize \in Nat \ {0}

VARIABLES
    input_queue,    \* tasks submitted and not started
    running_tasks,  \* tasks started and not published
    finished,       \* those of running_tasks whose coroutine has returned
    output_queue,   \* tasks published and not taken
    paused,         \* no new task is to be started
    admitting,      \* the thread saw ~paused and may start one more task
    runner_up       \* the thread is neither exiting nor dead

runnerVars == <<input_queue, running_tasks, finished, output_queue,
                paused, admitting, runner_up>>

RunnerInit ==
    /\ input_queue = <<>>
    /\ running_tasks = {}
    /\ finished = {}
    /\ output_queue = <<>>
    /\ paused = FALSE
    /\ admitting = FALSE
    /\ runner_up = TRUE

InFlight == ToSet(input_queue) \cup running_tasks

InputFull == Len(input_queue) >= MaxQueueSize

OutputFull == Len(output_queue) >= MaxQueueSize

-----------------------------------------------------------------------------
(* The client's side. *)

\* Faulty: the input queue has no bound.
SubmitUnbounded(t) ==
    /\ input_queue' = Append(input_queue, t)
    /\ UNCHANGED <<running_tasks, finished, output_queue, paused, admitting,
                   runner_up>>

Submit(t) ==
    /\ ~InputFull
    /\ input_queue' = Append(input_queue, t)
    /\ UNCHANGED <<running_tasks, finished, output_queue, paused, admitting,
                   runner_up>>

Take ==
    /\ output_queue # <<>>
    /\ output_queue' = Tail(output_queue)
    /\ UNCHANGED <<input_queue, running_tasks, finished, paused, admitting,
                   runner_up>>

SetPaused(flag) ==
    /\ paused' = flag
    /\ UNCHANGED <<input_queue, running_tasks, finished, output_queue,
                   admitting, runner_up>>

-----------------------------------------------------------------------------
(* The background thread's side. *)

\* The loop that drains the input queue tests `paused' and only then takes a
\* task: a pause that comes in between does not stop that one task.
Admit ==
    /\ runner_up /\ ~paused /\ ~admitting
    /\ admitting' = TRUE
    /\ UNCHANGED <<input_queue, running_tasks, finished, output_queue, paused,
                   runner_up>>

Start ==
    /\ admitting /\ input_queue # <<>>
    /\ Head(input_queue) \notin running_tasks
    /\ running_tasks' = running_tasks \cup {Head(input_queue)}
    /\ input_queue' = Tail(input_queue)
    /\ admitting' = FALSE
    /\ UNCHANGED <<finished, output_queue, paused, runner_up>>

FoundEmpty ==
    /\ admitting /\ input_queue = <<>>
    /\ admitting' = FALSE
    /\ UNCHANGED <<input_queue, running_tasks, finished, output_queue, paused,
                   runner_up>>

CoroutineReturns(t) ==
    /\ runner_up
    /\ t \in running_tasks \ finished
    /\ finished' = finished \cup {t}
    /\ UNCHANGED <<input_queue, running_tasks, output_queue, paused, admitting,
                   runner_up>>

Publish(t) ==
    /\ t \in finished /\ ~OutputFull
    /\ finished' = finished \ {t}
    /\ running_tasks' = running_tasks \ {t}
    /\ output_queue' = Append(output_queue, t)
    /\ UNCHANGED <<input_queue, paused, admitting, runner_up>>

\* Publishing on a full output queue is fatal, destroy() is deliberate; either
\* way everything still running is cancelled.
RunnerStops ==
    /\ running_tasks' = {} /\ finished' = {}
    /\ admitting' = FALSE
    /\ runner_up' = FALSE
    /\ UNCHANGED <<input_queue, output_queue, paused>>

RunnerNext ==
    \/ \E t \in Tasks : Submit(t) \/ CoroutineReturns(t) \/ Publish(t)
    \/ \E flag \in BOOLEAN : SetPaused(flag)
    \/ Take \/ Admit \/ Start \/ FoundEmpty
    \/ RunnerStops

RunnerSpec == RunnerInit /\ [][RunnerNext]_runnerVars
=============================================================================
