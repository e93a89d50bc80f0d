-------------------------- MODULE AsyncTaskRunner ---------------------------
(***************************************************************************)
(* areal/infra/async_task_runner.py: a background thread that runs an      *)
(* asyncio loop, fed and emptied by other threads through two bounded      *)
(* queues.                                                                 *)
(*                                                                         *)
(* The threads are: producers that call submit(), one consumer that calls  *)
(* wait(), one controller that calls pause(), resume() and destroy(), and  *)
(* the background thread.  An atomic step is what the interpreter does     *)
(* between two operations that other threads can see (a lock, an event or  *)
(* a queue).  Coroutines and scheduled callbacks run only while the main   *)
(* coroutine is suspended.                                                 *)
(***************************************************************************)
EXTENDS Naturals, Sequences, FiniteSets, SequencesExt

CONSTANTS
    Tasks,          \* task identifiers
    Producers,      \* threads that call submit()
    MaxQueueSize,   \* max_queue_size
    MaxWait,        \* largest `count' passed to wait()
    None            \* no task

ASSUME RunnerAssumption ==
    /\ MaxQueueSize \in Nat \ {0}
    /\ MaxWait \in Nat \ {0}
    /\ None \notin Tasks

VARIABLES
    input_queue, output_queue,
    running_tasks,      \* local dict of the background thread
    finished,           \* those of running_tasks that have returned
    done,               \* what asyncio.wait reported and is not handled yet
    active_task_ids,
    paused, exiting,
    input_event,        \* "absent", "clear" or "set"
    set_scheduled,      \* call_soon_threadsafe(input_event.set) is pending
    thread_exception,
    at,                 \* where the background thread is
    current,            \* the task it is publishing
    producer, submitted, \* where each producer is, and with which task
    consumer, want, got, \* where the consumer is, `count', results in hand
    controller

producerVars == <<producer, submitted>>
consumerVars == <<consumer, want, got>>
taskVars == <<running_tasks, finished, done>>
wakeVars == <<input_event, set_scheduled>>
queues == <<input_queue, output_queue>>
flags == <<paused, exiting, thread_exception>>
clientVars == <<producerVars, consumerVars, controller>>
threadVars == <<taskVars, wakeVars, at, current>>
sharedVars == <<queues, active_task_ids, flags>>
vars == <<clientVars, threadVars, sharedVars>>

ThreadPlaces ==
    {"start", "loop", "sleep", "drain", "pop", "check", "recheck", "await",
     "poll", "publish", "discard", "cancel", "forget", "record", "stopping",
     "stopped"}

TypeOK ==
    /\ input_queue \in Seq(Tasks) /\ Len(input_queue) <= MaxQueueSize
    /\ output_queue \in Seq(Tasks) /\ Len(output_queue) <= MaxQueueSize
    /\ running_tasks \subseteq Tasks
    /\ finished \subseteq running_tasks /\ done \subseteq finished
    /\ active_task_ids \subseteq Tasks
    /\ {paused, exiting, set_scheduled, thread_exception} \subseteq BOOLEAN
    /\ input_event \in {"absent", "clear", "set"}
    /\ at \in ThreadPlaces
    /\ current \in Tasks \cup {None}
    /\ producer \in [Producers -> {"idle", "register", "put", "signal",
                                   "unregister"}]
    /\ submitted \in [Producers -> Tasks \cup {None}]
    /\ consumer \in {"idle", "check", "get"}
    /\ want \in 0..MaxWait
    /\ got \in Seq(Tasks) /\ Len(got) <= want
    /\ controller \in {"idle", "resume_signal", "destroy_clear",
                       "destroy_signal", "joining", "destroyed"}

Init ==
    /\ input_queue = <<>> /\ output_queue = <<>>
    /\ running_tasks = {} /\ finished = {} /\ done = {}
    /\ active_task_ids = {}
    /\ paused = FALSE /\ exiting = FALSE
    /\ input_event = "absent" /\ set_scheduled = FALSE
    /\ thread_exception = FALSE
    /\ at = "start" /\ current = None
    /\ producer = [p \in Producers |-> "idle"]
    /\ submitted = [p \in Producers |-> None]
    /\ consumer = "idle" /\ want = 0 /\ got = <<>>
    /\ controller = "idle"

\* _signal_new_input: a no-op until the loop has its event and after it is gone.
Signal ==
    /\ set_scheduled' = (set_scheduled \/ input_event # "absent")
    /\ UNCHANGED <<taskVars, input_event, at, current>>

-----------------------------------------------------------------------------
(* submit(), one step per visible operation. *)

ProducerAt(p, here, next) ==
    /\ producer[p] = here
    /\ producer' = [producer EXCEPT ![p] = next]
    /\ UNCHANGED <<consumerVars, controller>>

\* _check_thread_health passes; when it does not, submit() raises at once.
SubmitBegin(p, t) ==
    /\ ~thread_exception
    /\ ProducerAt(p, "idle", "register")
    /\ submitted' = [submitted EXCEPT ![p] = t]
    /\ UNCHANGED <<threadVars, sharedVars>>

SubmitDuplicate(p) ==
    /\ submitted[p] \in active_task_ids
    /\ ProducerAt(p, "register", "idle")
    /\ UNCHANGED <<threadVars, sharedVars, submitted>>

\* Faulty: the duplicate test is dropped.
SubmitRegisterUntested(p) ==
    /\ ProducerAt(p, "register", "put")
    /\ active_task_ids' = active_task_ids \cup {submitted[p]}
    /\ UNCHANGED <<threadVars, queues, flags, submitted>>

SubmitRegister(p) ==
    /\ submitted[p] \notin active_task_ids
    /\ ProducerAt(p, "register", "put")
    /\ active_task_ids' = active_task_ids \cup {submitted[p]}
    /\ UNCHANGED <<threadVars, queues, flags, submitted>>

\* Faulty: put_nowait on a queue without a bound.
SubmitPutUnbounded(p) ==
    /\ ProducerAt(p, "put", "signal")
    /\ input_queue' = Append(input_queue, submitted[p])
    /\ UNCHANGED <<threadVars, flags, submitted, output_queue, active_task_ids>>

SubmitPut(p) ==
    /\ Len(input_queue) < MaxQueueSize
    /\ ProducerAt(p, "put", "signal")
    /\ input_queue' = Append(input_queue, submitted[p])
    /\ UNCHANGED <<threadVars, flags, submitted, output_queue, active_task_ids>>

SubmitFull(p) ==
    /\ Len(input_queue) >= MaxQueueSize
    /\ ProducerAt(p, "put", "unregister")
    /\ UNCHANGED <<threadVars, sharedVars, submitted>>

SubmitUnregister(p) ==
    /\ ProducerAt(p, "unregister", "idle")
    /\ active_task_ids' = active_task_ids \ {submitted[p]}
    /\ UNCHANGED <<threadVars, queues, flags, submitted>>

\* Faulty: submit() returns without waking the loop.
SubmitSilently(p) ==
    /\ ProducerAt(p, "signal", "idle")
    /\ UNCHANGED <<threadVars, sharedVars, submitted>>

SubmitSignal(p) ==
    /\ ProducerAt(p, "signal", "idle")
    /\ Signal
    /\ UNCHANGED <<sharedVars, submitted>>

ProducerStep(p) ==
    \/ SubmitDuplicate(p) \/ SubmitRegister(p) \/ SubmitPut(p)
    \/ SubmitFull(p) \/ SubmitUnregister(p) \/ SubmitSignal(p)
-----------------------------------------------------------------------------
(* wait(count, timeout). *)

WaitBegin(count) ==
    /\ consumer = "idle"
    /\ consumer' = "check" /\ want' = count /\ got' = <<>>
    /\ UNCHANGED <<threadVars, sharedVars, producerVars, controller>>

\* The dead or exiting thread raises, and so does the deadline; what the call
\* has already taken from the queue goes with it.
WaitRaises ==
    /\ consumer = "check"
    /\ consumer' = "idle" /\ want' = 0 /\ got' = <<>>
    /\ UNCHANGED <<threadVars, sharedVars, producerVars, controller>>

WaitContinues ==
    /\ consumer = "check"
    /\ ~thread_exception /\ ~exiting
    /\ consumer' = "get"
    /\ UNCHANGED <<threadVars, sharedVars, producerVars, want, got, controller>>

WaitGet ==
    /\ consumer = "get" /\ output_queue # <<>>
    /\ output_queue' = Tail(output_queue)
    /\ IF Len(got) + 1 < want
       THEN /\ consumer' = "check" /\ got' = Append(got, Head(output_queue))
            /\ UNCHANGED want
       ELSE consumer' = "idle" /\ got' = <<>> /\ want' = 0
    /\ UNCHANGED <<threadVars, producerVars, flags, input_queue, controller,
                   active_task_ids>>

WaitFoundEmpty ==
    /\ consumer = "get" /\ output_queue = <<>>
    /\ consumer' = "check"
    /\ UNCHANGED <<threadVars, sharedVars, producerVars, want, got, controller>>

ConsumerStep == WaitRaises \/ WaitContinues \/ WaitGet \/ WaitFoundEmpty

-----------------------------------------------------------------------------
(* pause(), resume() and destroy(). *)

ControllerAt(here, next) ==
    /\ controller = here /\ controller' = next
    /\ UNCHANGED <<producerVars, consumerVars>>

Pause ==
    /\ controller = "idle"
    /\ paused' = TRUE
    /\ UNCHANGED <<clientVars, threadVars, queues, exiting, thread_exception,
                   active_task_ids>>

ResumeClear ==
    /\ ControllerAt("idle", "resume_signal")
    /\ paused' = FALSE
    /\ UNCHANGED <<threadVars, queues, exiting, thread_exception,
                   active_task_ids>>

ResumeSignal ==
    /\ ControllerAt("resume_signal", "idle")
    /\ Signal
    /\ UNCHANGED sharedVars

DestroyExit ==
    /\ ControllerAt("idle", "destroy_clear")
    /\ exiting' = TRUE
    /\ UNCHANGED <<threadVars, queues, paused, thread_exception,
                   active_task_ids>>

DestroyClear ==
    /\ ControllerAt("destroy_clear", "destroy_signal")
    /\ paused' = FALSE
    /\ UNCHANGED <<threadVars, queues, exiting, thread_exception,
                   active_task_ids>>

\* Faulty: destroy() joins without waking the loop.
DestroySilently ==
    /\ ControllerAt("destroy_signal", "joining")
    /\ UNCHANGED <<threadVars, sharedVars>>

DestroySignal ==
    /\ ControllerAt("destroy_signal", "joining")
    /\ Signal
    /\ UNCHANGED sharedVars

\* thread.join(): the 30 s bound is longer than any step of the thread.
DestroyJoined ==
    /\ at = "stopped"
    /\ ControllerAt("joining", "destroyed")
    /\ UNCHANGED <<threadVars, sharedVars>>

ControllerStep ==
    ResumeSignal \/ DestroyClear \/ DestroySignal \/ DestroyJoined

-----------------------------------------------------------------------------
(* The background thread.  `at' names the statement it is about to run.     *)

ThreadAt(here, next) == at = here /\ at' = next

\* Where the main coroutine is suspended and the event loop runs the others.
Suspended == at \in {"sleep", "await", "poll"}

LoopStart ==
    /\ ThreadAt("start", "loop")
    /\ input_event' = "set"
    /\ UNCHANGED <<clientVars, sharedVars, taskVars, set_scheduled, current>>

LoopTop ==
    /\ at = "loop"
    /\ at' = IF exiting THEN "cancel" ELSE IF paused THEN "sleep" ELSE "drain"
    /\ UNCHANGED <<clientVars, sharedVars, taskVars, wakeVars, current>>

WakeFromSleep ==
    /\ ThreadAt("sleep", "loop")
    /\ UNCHANGED <<clientVars, sharedVars, taskVars, wakeVars, current>>

\* _drain_pending_inputs: `while not self.paused.is_set()', and then get_nowait.
AfterDrain == IF running_tasks = {} THEN "check" ELSE "poll"

\* Faulty: the drain loop does not look at `paused'.
DrainUntested ==
    /\ ThreadAt("drain", "pop")
    /\ UNCHANGED <<clientVars, sharedVars, taskVars, wakeVars, current>>

DrainTest ==
    /\ at = "drain"
    /\ at' = IF paused THEN AfterDrain ELSE "pop"
    /\ UNCHANGED <<clientVars, sharedVars, taskVars, wakeVars, current>>

DrainEmpty ==
    /\ input_queue = <<>>
    /\ ThreadAt("pop", AfterDrain)
    /\ UNCHANGED <<clientVars, sharedVars, taskVars, wakeVars, current>>

\* The defensive ValueError on a task that runs already leaves through the
\* `finally'.
DrainTake ==
    /\ at = "pop" /\ input_queue # <<>>
    /\ input_queue' = Tail(input_queue)
    /\ IF Head(input_queue) \in running_tasks
       THEN /\ at' = "cancel" /\ current' = Head(input_queue)
            /\ UNCHANGED running_tasks
       ELSE /\ at' = "drain" /\ UNCHANGED current
            /\ running_tasks' = running_tasks \cup {Head(input_queue)}
    /\ UNCHANGED <<clientVars, wakeVars, flags, finished, done, output_queue,
                   active_task_ids>>

\* _wait_for_new_tasks: test, clear the event, test again, and suspend.
WaitTest ==
    /\ at = "check"
    /\ IF exiting \/ paused \/ input_queue # <<>>
       THEN at' = "loop" /\ UNCHANGED input_event
       ELSE at' = "recheck" /\ input_event' = "clear"
    /\ UNCHANGED <<clientVars, sharedVars, taskVars, set_scheduled, current>>

WaitRetest ==
    /\ at = "recheck"
    /\ at' = IF input_queue # <<>> \/ exiting THEN "loop" ELSE "await"
    /\ UNCHANGED <<clientVars, sharedVars, taskVars, wakeVars, current>>

Woken ==
    /\ input_event = "set"
    /\ ThreadAt("await", "check")
    /\ UNCHANGED <<clientVars, sharedVars, taskVars, wakeVars, current>>

DeliverSet ==
    /\ Suspended /\ set_scheduled
    /\ set_scheduled' = FALSE /\ input_event' = "set"
    /\ UNCHANGED <<clientVars, sharedVars, taskVars, at, current>>

CoroutineReturns(t) ==
    /\ Suspended /\ t \in running_tasks \ finished
    /\ finished' = finished \cup {t}
    /\ UNCHANGED <<clientVars, sharedVars, wakeVars, running_tasks, done, at,
                   current>>

\* Faulty: only a timeout of asyncio.wait ends the poll.
PollIgnoresDone ==
    /\ ThreadAt("poll", "loop")
    /\ UNCHANGED <<clientVars, sharedVars, taskVars, wakeVars, current>>

\* asyncio.wait returns, on the first completion or on its timeout.
PollReturns ==
    /\ at = "poll"
    /\ at' = IF finished = {} THEN "loop" ELSE "publish"
    /\ done' = finished
    /\ UNCHANGED <<clientVars, sharedVars, wakeVars, running_tasks, finished,
                   current>>

Publish(t) ==
    /\ t \in done /\ Len(output_queue) < MaxQueueSize
    /\ ThreadAt("publish", "discard")
    /\ output_queue' = Append(output_queue, t)
    /\ running_tasks' = running_tasks \ {t}
    /\ finished' = finished \ {t} /\ done' = done \ {t}
    /\ current' = t
    /\ UNCHANGED <<clientVars, wakeVars, flags, input_queue, active_task_ids>>

\* queue.Full: the task is put back and TaskQueueFullError leaves the loop.
PublishFull(t) ==
    /\ t \in done /\ Len(output_queue) >= MaxQueueSize
    /\ ThreadAt("publish", "cancel")
    /\ current' = t
    /\ UNCHANGED <<clientVars, sharedVars, taskVars, wakeVars>>

PublishedAll ==
    /\ done = {}
    /\ ThreadAt("publish", "loop")
    /\ UNCHANGED <<clientVars, sharedVars, taskVars, wakeVars, current>>

DiscardActive ==
    /\ ThreadAt("discard", "publish")
    /\ active_task_ids' = active_task_ids \ {current}
    /\ current' = None
    /\ UNCHANGED <<clientVars, taskVars, wakeVars, queues, flags>>

\* The `finally' of _run_async_loop, then those of _run_thread.  `current' is
\* the task whose handling raised, if one did.
CancelRemaining ==
    /\ ThreadAt("cancel", "forget")
    /\ input_event' = "absent"
    /\ running_tasks' = {} /\ finished' = {} /\ done' = {}
    /\ UNCHANGED <<clientVars, sharedVars, set_scheduled, current>>

ForgetActive ==
    /\ ThreadAt("forget", IF current = None THEN "stopping" ELSE "record")
    /\ active_task_ids' = {}
    /\ UNCHANGED <<clientVars, taskVars, wakeVars, queues, flags, current>>

RecordException ==
    /\ ThreadAt("record", "stopping")
    /\ thread_exception' = TRUE
    /\ UNCHANGED <<clientVars, taskVars, wakeVars, queues, paused, exiting,
                   current, active_task_ids>>

\* Faulty: the dead thread does not raise `exiting'.
StopSilently ==
    /\ ThreadAt("stopping", "stopped")
    /\ UNCHANGED <<clientVars, sharedVars, taskVars, wakeVars, current>>

Stop ==
    /\ ThreadAt("stopping", "stopped")
    /\ exiting' = TRUE
    /\ UNCHANGED <<clientVars, taskVars, wakeVars, queues, paused,
                   thread_exception, current, active_task_ids>>

Harvest ==
    \/ \E t \in Tasks : Publish(t) \/ PublishFull(t)
    \/ PublishedAll \/ DiscardActive

ThreadStep ==
    \/ LoopStart \/ LoopTop \/ WakeFromSleep
    \/ DrainTest \/ DrainEmpty \/ DrainTake
    \/ WaitTest \/ WaitRetest \/ Woken
    \/ PollReturns \/ Harvest
    \/ CancelRemaining \/ ForgetActive \/ RecordException \/ Stop

-----------------------------------------------------------------------------
Next ==
    \/ \E p \in Producers, t \in Tasks : SubmitBegin(p, t)
    \/ \E p \in Producers : ProducerStep(p)
    \/ \E count \in 1..MaxWait : WaitBegin(count)
    \/ ConsumerStep
    \/ Pause \/ ResumeClear \/ DestroyExit \/ ControllerStep
    \/ ThreadStep \/ DeliverSet
    \/ \E t \in Tasks : CoroutineReturns(t)

Spec == Init /\ [][Next]_vars

\* Every thread that is inside a call keeps running, and so does the event
\* loop.  Nothing obliges a client to call again or a coroutine to return.
FairSpec ==
    /\ Spec
    /\ WF_vars(ThreadStep) /\ WF_vars(DeliverSet)
    /\ WF_vars(ControllerStep)
    /\ \A p \in Producers : WF_vars(ProducerStep(p))

-----------------------------------------------------------------------------
(* Properties. *)

\* The thread has not given up its tasks yet.
Live == at \notin {"forget", "record", "stopping", "stopped"}

InFlight == ToSet(input_queue) \cup running_tasks

\* While the thread lives, a task that is queued or running is known to the
\* duplicate test of submit(), and none is in flight twice: the defensive
\* ValueError of _drain_pending_inputs, which would kill the thread, is never
\* reached, however submit() and the publication of results interleave.
NoDuplicateInFlight ==
    Live => /\ InFlight \subseteq active_task_ids
            /\ IsInjective(input_queue)
            /\ ToSet(input_queue) \cap running_tasks = {}

\* A task that waits in the input queue is started, or somebody pauses or ends
\* the thread: the wakeup of the event is never lost, whichever way submit(),
\* pause() and resume() interleave with the suspension of the loop.
QueuedIsStarted ==
    \A t \in Tasks :
        t \in ToSet(input_queue)
            ~> (t \notin ToSet(input_queue) \/ paused \/ exiting)

\* destroy() ends: the thread leaves whatever it is suspended on.
DestroyTerminates == (controller = "joining") ~> (controller = "destroyed")

\* A dead thread does not hang its clients: `exiting' is raised after it.
DeathIsVisible == (at = "cancel") ~> exiting

\* The result of a coroutine that has returned is published, or somebody pauses
\* or ends the thread.
ReturnedIsPublished ==
    \A t \in Tasks : t \in finished ~> (t \notin finished \/ paused \/ exiting)

\* The background thread implements the interface the dispatcher is built on.
Interface ==
    INSTANCE TaskRunner WITH admitting <- (at = "pop"), runner_up <- Live

ImplementsTaskRunner == Interface!RunnerSpec

=============================================================================
