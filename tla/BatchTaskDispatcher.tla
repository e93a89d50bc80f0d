------------------------ MODULE BatchTaskDispatcher -------------------------
(***************************************************************************)
(* areal/infra/workflow_executor.py: the dispatcher between the trainer,   *)
(* which submits prompts and waits for batches, and the task runner, which *)
(* executes rollouts.  The producer thread (_commit_loop) moves inputs to  *)
(* the runner as StalenessManager's capacity allows, the consumer thread   *)
(* (_fetch_loop) moves results from the runner to `_pending_results', and  *)
(* a rollout reports to StalenessManager when its workflow ends.           *)
(*                                                                         *)
(* A critical section of input_cv or result_cv is one action.  Only the    *)
(* producer waits on input_cv without a timeout, so a notify is a move of  *)
(* the producer; a wait on result_cv has a timeout and re-tests, so a      *)
(* client blocked in it is one that takes no step.                         *)
(***************************************************************************)
EXTENDS TaskRunner, StalenessManager

CONSTANTS
    Clients,        \* threads that submit and wait
    MaxFetchBatch,  \* _MAX_FETCH_BATCH_SIZE
    MaxVersion,     \* bound of the model: the last version set
    SlowFetch       \* the 50 ms of a fetch may expire with results in hand

ASSUME DispatcherAssumption ==
    /\ MaxFetchBatch \in Nat \ {0}
    /\ MaxVersion \in Nat /\ RecoveredVersion <= MaxVersion
    /\ SlowFetch \in BOOLEAN
    /\ IsFiniteSet(Tasks) /\ Tasks = 1..Cardinality(Tasks)

VARIABLES
    issued,             \* how many identifiers TaskIdGenerator has given out
    pending_inputs,
    pending_results,    \* keys of _pending_results
    active_task_ids,
    commit, committing, \* where the producer is, and its task
    fetch, fetch_count, fetched, \* where the consumer is, `count', results
    client, request, drained, \* where each client is, its argument, `drained'
    resuming,           \* resume() has cleared `paused' and is to notify
    shutdown, thread_exception,
    create_order,       \* the tasks by create_time
    verdict,            \* how each rollout ended
    delivered, lost     \* results given to a client, results dropped

commitVars == <<commit, committing>>
fetchVars == <<fetch, fetch_count, fetched>>
clientVars == <<client, request, drained>>
inputVars == <<issued, pending_inputs>>
resultVars == <<pending_results, active_task_ids, delivered, lost>>
rolloutVars == <<create_order, verdict>>
controlVars == <<resuming, shutdown, thread_exception>>
statVars == <<rollout_stat, version>>

\* Groups that many actions leave alone.
receiveVars == <<fetchVars, clientVars, resultVars, rolloutVars>>
sendVars == <<clientVars, inputVars, rolloutVars>>
flowVars == <<inputVars, resultVars, rolloutVars>>

dispatcherVars == <<runnerVars, statVars, commitVars, fetchVars, clientVars,
                    inputVars, resultVars, rolloutVars, controlVars>>

DispatcherInit ==
    /\ RunnerInit
    /\ StatInit
    /\ issued = 0 /\ pending_inputs = <<>>
    /\ pending_results = {} /\ active_task_ids = {}
    /\ delivered = {} /\ lost = {}
    /\ commit = "next" /\ committing = 0
    /\ fetch = "poll" /\ fetch_count = 0 /\ fetched = <<>>
    /\ client = [c \in Clients |-> "idle"]
    /\ request = [c \in Clients |-> 0]
    /\ drained = [c \in Clients |-> {}]
    /\ resuming = FALSE /\ shutdown = FALSE /\ thread_exception = FALSE
    /\ create_order = <<>>
    /\ verdict = [t \in Tasks |-> "none"]

\* Faulty: a producer that waits for room in the runner is not notified.
WokenForInputs(place) == IF place = "waiting" THEN "next" ELSE place

\* input_cv.notify(): the producer leaves cv.wait(), if it is in one.
Woken(place) ==
    CASE place = "waiting" -> "next"
      [] place = "waiting_full" -> "recheck_full"
      [] OTHER -> place

NotifyInput == commit' = Woken(commit) /\ UNCHANGED committing

-----------------------------------------------------------------------------
(* The producer thread: _commit_loop and _get_next_task_for_submission. *)

MaySubmit == ~paused /\ HasCapacity /\ pending_inputs # <<>>

HasRunnerCapacity == ~paused /\ HasCapacity /\ ~InputFull

CommitNext ==
    /\ commit = "next" /\ ~shutdown /\ ~thread_exception /\ MaySubmit
    /\ commit' = "submit" /\ committing' = Head(pending_inputs)
    /\ pending_inputs' = Tail(pending_inputs)
    /\ UNCHANGED <<runnerVars, statVars, receiveVars, controlVars, issued>>

CommitWaits ==
    /\ commit = "next" /\ ~shutdown /\ ~thread_exception /\ ~MaySubmit
    /\ commit' = "waiting"
    /\ UNCHANGED <<runnerVars, statVars, receiveVars, inputVars, controlVars,
                   committing>>

\* runner.submit; the counters follow in a step of their own.
CommitSubmit ==
    /\ commit = "submit"
    /\ Submit(committing)
    /\ commit' = "account"
    /\ UNCHANGED <<statVars, receiveVars, inputVars, controlVars, committing>>

CommitAccount ==
    /\ commit = "account"
    /\ OnRolloutSubmitted
    /\ commit' = "next" /\ committing' = 0
    /\ UNCHANGED <<runnerVars, receiveVars, inputVars, controlVars, version>>

CommitQueueFull ==
    /\ commit = "submit" /\ InputFull
    /\ commit' = "full"
    /\ UNCHANGED <<runnerVars, statVars, receiveVars, inputVars, controlVars,
                   committing>>

FullNext == IF shutdown \/ HasRunnerCapacity THEN "next" ELSE "waiting_full"

\* Faulty: the input that met a full queue is forgotten.
CommitForgets ==
    /\ commit = "full"
    /\ commit' = FullNext /\ committing' = 0
    /\ UNCHANGED <<runnerVars, statVars, receiveVars, inputVars, controlVars>>

CommitRequeue ==
    /\ commit = "full"
    /\ pending_inputs' = <<committing>> \o pending_inputs
    /\ commit' = FullNext /\ committing' = 0
    /\ UNCHANGED <<runnerVars, statVars, receiveVars, controlVars, issued>>

CommitRecheckFull ==
    /\ commit = "recheck_full"
    /\ commit' = FullNext
    /\ UNCHANGED <<runnerVars, statVars, receiveVars, inputVars, controlVars,
                   committing>>

CommitExits ==
    /\ commit = "next" /\ shutdown
    /\ commit' = "exited"
    /\ UNCHANGED <<runnerVars, statVars, receiveVars, inputVars, controlVars,
                   committing>>

\* The health check of runner.submit, or the other thread's exception.
CommitFails ==
    /\ \/ commit = "next" /\ ~shutdown /\ thread_exception
       \/ commit = "submit" /\ ~runner_up
    /\ commit' = "failed"
    /\ thread_exception' = TRUE
    /\ UNCHANGED <<runnerVars, statVars, receiveVars, inputVars, committing,
                   resuming, shutdown>>

CommitStep ==
    \/ CommitNext \/ CommitWaits \/ CommitSubmit \/ CommitAccount
    \/ CommitQueueFull \/ CommitRequeue \/ CommitRecheckFull
    \/ CommitExits \/ CommitFails

-----------------------------------------------------------------------------
(* The consumer thread: _fetch_loop around runner.wait(count, 50 ms). *)

\* The loop of wait(): one more result, or all of them are taken.
Collecting(taken, count) == IF taken < count THEN "collect" ELSE "store"

\* Faulty: one result more than there is.
FetchPollGreedy ==
    /\ fetch = "poll" /\ ~shutdown /\ ~thread_exception
    /\ fetch_count' = Min({Len(output_queue) + 1, MaxFetchBatch})
    /\ fetch' = Collecting(0, fetch_count')
    /\ UNCHANGED <<runnerVars, statVars, flowVars, commitVars, clientVars,
                   controlVars, fetched>>

FetchPoll ==
    /\ fetch = "poll" /\ ~shutdown /\ ~thread_exception
    /\ fetch_count' = Max({1, Min({Len(output_queue), MaxFetchBatch})})
    /\ fetch' = Collecting(0, fetch_count')
    /\ UNCHANGED <<runnerVars, statVars, flowVars, commitVars, clientVars,
                   controlVars, fetched>>

FetchGet ==
    /\ fetch = "collect" /\ Len(fetched) < fetch_count
    /\ Take
    /\ fetched' = Append(fetched, Head(output_queue))
    /\ fetch' = Collecting(Len(fetched) + 1, fetch_count)
    /\ UNCHANGED <<statVars, flowVars, commitVars, clientVars, controlVars,
                   fetch_count>>

\* Faulty: a fetch that times out leaves the loop (break instead of continue).
FetchTimeoutLeaves ==
    /\ runner_up
    /\ fetch = "collect" /\ (output_queue = <<>> \/ SlowFetch)
    /\ fetch' = "exited" /\ fetch_count' = 0 /\ fetched' = <<>>
    /\ lost' = lost \cup ToSet(fetched)
    /\ UNCHANGED <<runnerVars, statVars, sendVars, commitVars, controlVars,
                   pending_results, active_task_ids, delivered>>

\* TimeoutError: `continue', and the results already taken are forgotten.  The
\* test of the runner's health precedes that of the deadline.
FetchTimeout ==
    /\ runner_up
    /\ fetch = "collect" /\ (output_queue = <<>> \/ SlowFetch)
    /\ fetch' = "poll" /\ fetch_count' = 0 /\ fetched' = <<>>
    /\ lost' = lost \cup ToSet(fetched)
    /\ UNCHANGED <<runnerVars, statVars, sendVars, commitVars, controlVars,
                   pending_results, active_task_ids, delivered>>

FetchStore ==
    /\ fetch = "store"
    /\ pending_results' = pending_results \cup ToSet(fetched)
    /\ fetch' = "notify" /\ fetch_count' = 0 /\ fetched' = <<>>
    /\ UNCHANGED <<runnerVars, statVars, sendVars, commitVars, controlVars,
                   active_task_ids, delivered, lost>>

\* Faulty: the producer is not told of the capacity that came back.
FetchSilently ==
    /\ fetch = "notify"
    /\ fetch' = "poll"
    /\ UNCHANGED <<runnerVars, statVars, flowVars, commitVars, clientVars,
                   controlVars, fetch_count, fetched>>

FetchNotify ==
    /\ fetch = "notify"
    /\ fetch' = "poll"
    /\ NotifyInput
    /\ UNCHANGED <<runnerVars, statVars, flowVars, clientVars, controlVars,
                   fetch_count, fetched>>

FetchExits ==
    /\ fetch = "poll" /\ shutdown
    /\ fetch' = "exited"
    /\ UNCHANGED <<runnerVars, statVars, flowVars, commitVars, clientVars,
                   controlVars, fetch_count, fetched>>

\* runner.wait raises RuntimeError, or the other thread has failed.
FetchFails ==
    /\ \/ fetch = "poll" /\ ~shutdown /\ thread_exception
       \/ fetch = "collect" /\ ~runner_up
    /\ fetch' = "failed" /\ fetch_count' = 0 /\ fetched' = <<>>
    /\ lost' = lost \cup ToSet(fetched)
    /\ thread_exception' = TRUE
    /\ NotifyInput
    /\ UNCHANGED <<runnerVars, statVars, sendVars, pending_results,
                   active_task_ids, delivered, resuming, shutdown>>

FetchStep ==
    \/ FetchPoll \/ FetchGet \/ FetchTimeout \/ FetchStore \/ FetchNotify
    \/ FetchExits \/ FetchFails

-----------------------------------------------------------------------------
(* The runner's thread, and the rollouts it runs. *)

Idle == UNCHANGED <<commitVars, fetchVars, clientVars, inputVars, controlVars>>

RunnerAdmits ==
    /\ Admit \/ FoundEmpty
    /\ Idle /\ UNCHANGED <<statVars, resultVars, rolloutVars>>

RunnerStarts ==
    /\ Start
    /\ create_order' = Append(create_order, Head(input_queue))
    /\ Idle /\ UNCHANGED <<statVars, resultVars, verdict>>

\* The end of _execute_workflow: a trajectory that is accepted, or None for one
\* that is rejected, missing or failed with an exception.
RolloutAccepted(t) ==
    /\ CoroutineReturns(t)
    /\ OnRolloutAccepted
    /\ verdict' = [verdict EXCEPT ![t] = "accepted"]
    /\ Idle /\ UNCHANGED <<resultVars, create_order, version>>

RolloutRejected(t) ==
    /\ CoroutineReturns(t)
    /\ OnRolloutRejected
    /\ verdict' = [verdict EXCEPT ![t] = "rejected"]
    /\ Idle /\ UNCHANGED <<resultVars, create_order, version>>

RunnerPublishes(t) ==
    /\ Publish(t)
    /\ Idle /\ UNCHANGED <<statVars, resultVars, rolloutVars>>

\* A full output queue kills the runner; destroy() ends it, when it has joined
\* both threads or waited for them for long enough.
RunnerEnds ==
    /\ runner_up
    /\ shutdown \/ (finished # {} /\ OutputFull)
    /\ RunnerStops
    /\ lost' = lost \cup running_tasks
    /\ Idle
    /\ UNCHANGED <<statVars, rolloutVars, pending_results, active_task_ids,
                   delivered>>

-----------------------------------------------------------------------------
(* The calls of the clients. *)

ClientAt(c, here, next) ==
    /\ client[c] = here
    /\ client' = [client EXCEPT ![c] = next]

\* submit_task_input: the input is queued under input_cv, and its identifier
\* becomes active under result_cv, in a second critical section.
SubmitTaskInput(c) ==
    /\ ~thread_exception
    /\ issued + 1 \in Tasks
    /\ ClientAt(c, "idle", "activate")
    /\ issued' = issued + 1
    /\ request' = [request EXCEPT ![c] = issued + 1]
    /\ pending_inputs' = Append(pending_inputs, issued + 1)
    /\ OnRolloutEnqueued
    /\ NotifyInput
    /\ UNCHANGED <<runnerVars, fetchVars, resultVars, rolloutVars, controlVars,
                   drained, version>>

ActivateTask(c) ==
    /\ ClientAt(c, "activate", "idle")
    /\ active_task_ids' = active_task_ids \cup {request[c]}
    /\ request' = [request EXCEPT ![c] = 0]
    /\ UNCHANGED <<runnerVars, statVars, commitVars, fetchVars, inputVars,
                   rolloutVars, controlVars, drained, pending_results,
                   delivered, lost>>

\* wait_results(count), once enough results are there; a client that waits for
\* them, or gives up, changes nothing.
WaitDrains(c, count) ==
    /\ Cardinality(pending_results) >= count
    /\ ClientAt(c, "idle", "select")
    /\ request' = [request EXCEPT ![c] = count]
    /\ drained' = [drained EXCEPT ![c] = pending_results]
    /\ pending_results' = {}
    /\ UNCHANGED <<runnerVars, statVars, commitVars, fetchVars, inputVars,
                   rolloutVars, controlVars, active_task_ids, delivered, lost>>

\* drained.sort(key=create_time) and [:count]
CreatedBefore(t, u) ==
    \E i, j \in DOMAIN create_order :
        i < j /\ create_order[i] = t /\ create_order[j] = u

Oldest(S, count) ==
    {t \in S : Cardinality({u \in S : CreatedBefore(u, t)}) < count}

\* Faulty: a delivered task stays active.
WaitSelectsKeepsActive(c) ==
    LET selected == Oldest(drained[c], request[c])
    IN /\ ClientAt(c, "select", "idle")
       /\ pending_results' = pending_results \cup (drained[c] \ selected)
       /\ delivered' = delivered \cup selected
       /\ drained' = [drained EXCEPT ![c] = {}]
       /\ request' = [request EXCEPT ![c] = 0]
       /\ UNCHANGED <<runnerVars, statVars, commitVars, fetchVars, inputVars,
                      rolloutVars, controlVars, active_task_ids, lost>>

WaitSelects(c) ==
    LET selected == Oldest(drained[c], request[c])
    IN /\ ClientAt(c, "select", "idle")
       /\ pending_results' = pending_results \cup (drained[c] \ selected)
       /\ active_task_ids' = active_task_ids \ selected
       /\ delivered' = delivered \cup selected
       /\ drained' = [drained EXCEPT ![c] = {}]
       /\ request' = [request EXCEPT ![c] = 0]
       /\ UNCHANGED <<runnerVars, statVars, commitVars, fetchVars, inputVars,
                      rolloutVars, controlVars, lost>>

\* wait_for_task(t), once its result is there.
TaskArrives(c, t) ==
    /\ client[c] = "idle"
    /\ t \in active_task_ids \cap pending_results
    /\ pending_results' = pending_results \ {t}
    /\ active_task_ids' = active_task_ids \ {t}
    /\ delivered' = delivered \cup {t}
    /\ UNCHANGED <<runnerVars, statVars, sendVars, commitVars, fetchVars,
                   controlVars, lost>>

ClientStep(c) == ActivateTask(c) \/ WaitSelects(c)

-----------------------------------------------------------------------------
(* pause(), resume(), destroy() and the version provider. *)

Pause ==
    /\ ~shutdown /\ ~paused /\ ~resuming
    /\ SetPaused(TRUE)
    /\ NotifyInput
    /\ UNCHANGED <<statVars, receiveVars, inputVars, controlVars>>

ResumeRunner ==
    /\ paused
    /\ SetPaused(FALSE)
    /\ resuming' = TRUE
    /\ UNCHANGED <<statVars, receiveVars, commitVars, inputVars, shutdown,
                   thread_exception>>

\* Faulty: resume() does not notify the producer.
ResumeSilently ==
    /\ resuming
    /\ resuming' = FALSE
    /\ UNCHANGED <<runnerVars, statVars, receiveVars, commitVars, inputVars,
                   shutdown, thread_exception>>

ResumeNotify ==
    /\ resuming
    /\ resuming' = FALSE
    /\ NotifyInput
    /\ UNCHANGED <<runnerVars, statVars, receiveVars, inputVars, shutdown,
                   thread_exception>>

\* set_version notifies nobody; the trainer calls it between pause and resume.
SetVersion ==
    /\ paused /\ version < MaxVersion
    /\ version' = version + 1
    /\ UNCHANGED <<runnerVars, receiveVars, commitVars, inputVars, controlVars,
                   rollout_stat>>

\* Faulty: destroy() does not notify the producer.
DestroySilently ==
    /\ ~shutdown
    /\ shutdown' = TRUE
    /\ UNCHANGED <<runnerVars, statVars, receiveVars, commitVars, inputVars,
                   resuming, thread_exception>>

\* destroy() sets the event before it notifies under the lock.
Destroy ==
    /\ ~shutdown
    /\ shutdown' = TRUE
    /\ NotifyInput
    /\ UNCHANGED <<runnerVars, statVars, receiveVars, inputVars, resuming,
                   thread_exception>>

-----------------------------------------------------------------------------
RunnerThread ==
    \/ RunnerAdmits \/ RunnerStarts \/ RunnerEnds
    \/ \E t \in Tasks : RunnerPublishes(t)

Rollouts == \E t \in Tasks : RolloutAccepted(t) \/ RolloutRejected(t)

Calls(c) ==
    \/ SubmitTaskInput(c)
    \/ \E count \in Tasks : WaitDrains(c, count)
    \/ \E t \in Tasks : TaskArrives(c, t)

DispatcherNext ==
    \/ CommitStep \/ FetchStep \/ RunnerThread \/ Rollouts
    \/ \E c \in Clients : Calls(c) \/ ClientStep(c)
    \/ Pause \/ ResumeRunner \/ ResumeNotify \/ SetVersion \/ Destroy

Spec == DispatcherInit /\ [][DispatcherNext]_dispatcherVars

\* The background threads run, and a client inside a call does; the runner may
\* sleep for as long as it is paused.  Nothing obliges a rollout to end, a
\* client to call, or a pause to end.
FairSpec ==
    /\ Spec
    /\ WF_dispatcherVars(CommitStep)
    /\ WF_dispatcherVars(FetchStep)
    /\ WF_dispatcherVars(~paused /\ RunnerAdmits)
    /\ WF_dispatcherVars(~paused /\ RunnerStarts)
    /\ \A t \in Tasks : WF_dispatcherVars(~paused /\ RunnerPublishes(t))
    /\ WF_dispatcherVars(RunnerEnds)
    /\ WF_dispatcherVars(ResumeNotify)
    /\ \A c \in Clients : WF_dispatcherVars(ClientStep(c))
-----------------------------------------------------------------------------
(* Properties. *)

CommitPlaces == {"next", "waiting", "submit", "account", "full",
                 "waiting_full", "recheck_full", "failed", "exited"}

Holding == commit \in {"submit", "account", "full"}

RunnerTypeOK ==
    /\ input_queue \in Seq(Tasks) /\ Len(input_queue) <= MaxQueueSize
    /\ output_queue \in Seq(Tasks) /\ Len(output_queue) <= MaxQueueSize
    /\ finished \subseteq running_tasks /\ running_tasks \subseteq Tasks
    /\ paused \in BOOLEAN /\ admitting \in BOOLEAN /\ runner_up \in BOOLEAN

CounterTypeOK ==
    /\ rollout_stat \in StatType
    /\ version \in RecoveredVersion..MaxVersion

CommitTypeOK ==
    /\ commit \in CommitPlaces
    /\ committing \in Tasks \cup {0} /\ (Holding => committing \in Tasks)

FetchTypeOK ==
    /\ fetch \in {"poll", "collect", "store", "notify", "failed", "exited"}
    /\ fetch_count \in 0..MaxFetchBatch
    /\ fetched \in Seq(Tasks) /\ Len(fetched) <= fetch_count
    /\ fetch \notin {"collect", "store"} => fetched = <<>>

ClientTypeOK ==
    /\ client \in [Clients -> {"idle", "activate", "select"}]
    /\ request \in [Clients -> Nat]
    /\ \A c \in Clients : client[c] = "activate" => request[c] \in Tasks

TaskTypeOK ==
    /\ issued \in Nat /\ pending_inputs \in Seq(Tasks)
    /\ drained \in [Clients -> SUBSET Tasks]
    /\ pending_results \subseteq Tasks /\ active_task_ids \subseteq Tasks
    /\ create_order \in Seq(Tasks)
    /\ verdict \in [Tasks -> {"none", "accepted", "rejected"}]
    /\ delivered \subseteq Tasks /\ lost \subseteq Tasks

ControlTypeOK ==
    /\ resuming \in BOOLEAN /\ shutdown \in BOOLEAN
    /\ thread_exception \in BOOLEAN

TypeOK ==
    /\ RunnerTypeOK /\ CounterTypeOK /\ CommitTypeOK /\ FetchTypeOK
    /\ ClientTypeOK /\ TaskTypeOK /\ ControlTypeOK

\* What get_capacity is for: the samples that were accepted or may still be
\* never exceed what the trainer can use within MaxStaleness versions, although
\* the producer tests the capacity in one step and counts the rollout in a
\* later one, and rollouts end and versions change in between.
SampleBound == Samples <= MaxSamples(version)

\* The rollouts the runner holds that have not ended.
Unended == {t \in InFlight : verdict[t] = "none"}

\* "The number of concurrent rollouts doesn't exceed the configured maximum":
\* of the rollouts themselves, not of the counter, which misses the one that is
\* submitted and not yet counted.
ConcurrencyBound == Cardinality(Unended) <= ConcurrencyLimit

\* The counters agree with where the tasks are, up to the step between
\* runner.submit and on_rollout_submitted, in which a rollout may even end and
\* drive the running counter to -1.
CountersMatch ==
    /\ commit # "failed" => rollout_stat.enqueued
          = Len(pending_inputs) + (IF Holding THEN 1 ELSE 0)
    /\ runner_up => rollout_stat.running
          = Cardinality(Unended) - (IF commit = "account" THEN 1 ELSE 0)
    /\ rollout_stat.rejected = Cardinality({t \in Tasks : verdict[t] = "rejected"})
    /\ rollout_stat.accepted
          = RecoveredVersion * BatchSize
               + Cardinality({t \in Tasks : verdict[t] = "accepted"})

\* Where a task that has been issued can be.
Places(t) ==
    << t \in ToSet(pending_inputs), commit # "account" /\ committing = t,
       t \in InFlight, t \in ToSet(output_queue), t \in ToSet(fetched),
       t \in pending_results, \E c \in Clients : t \in drained[c],
       t \in delivered, t \in lost >>

\* No input is executed twice and no result is delivered twice or to two
\* clients: an issued task is in exactly one place, and one queue holds it once.
ExactlyOnePlace ==
    /\ \A t \in Tasks : t <= issued =>
          \E i \in 1..9 : \A j \in 1..9 : Places(t)[j] <=> (i = j)
    /\ \A q \in {pending_inputs, input_queue, output_queue, fetched} :
          IsInjective(q)

\* While the threads are healthy, results are dropped only by a fetch that runs
\* into its deadline although all it asked for was ready: it has taken some of
\* its batch, fewer than it asked for, and the others wait in the queue.  A
\* rollout that is late costs no result, and no other step of the pipeline does.
OnlyDeadlinesDrop ==
    [][lost' # lost /\ runner_up' /\ ~thread_exception' =>
          /\ fetch = "collect" /\ lost' = lost \cup ToSet(fetched)
          /\ Len(fetched) < fetch_count
          /\ Len(fetched) + Len(output_queue) >= fetch_count]_dispatcherVars

\* What _fetch_loop is for, "Collects results from AsyncTaskRunner to
\* _pending_results": while the threads are healthy no result is dropped.
NothingLost == runner_up /\ ~thread_exception => lost = {}

\* _active_task_ids holds no task whose result is gone, on which wait_for_task
\* would wait in vain, and misses none that can still be waited for.
ActiveIsOutstanding ==
    /\ active_task_ids \cap delivered = {}
    /\ \A t \in Tasks : t <= issued /\ t \notin delivered \cup active_task_ids
          => \E c \in Clients : client[c] = "activate" /\ request[c] = t

\* The producer never sleeps on input_cv through a chance to submit: capacity
\* that comes back when a rollout ends, an input, a resumption or a version
\* reaches it, although wait() has no timeout.
ProducerIsWoken ==
    (commit = "waiting" /\ MaySubmit)
        ~> (commit # "waiting" \/ ~MaySubmit)

\* Nor does it sleep for ever after it met a full input queue: the queue that
\* empties tells nobody, but the next rollout that ends does.
FullIsWoken ==
    (commit = "waiting_full" /\ HasRunnerCapacity)
        ~> (commit # "waiting_full" \/ ~HasRunnerCapacity \/ Unended # {})

\* A result that is ready is handed over, or the runner is paused, or a thread
\* is dead or told to stop.
ReadyIsStored ==
    \A t \in Tasks :
        t \in finished
            ~> (t \in pending_results \/ paused \/ thread_exception \/ shutdown)

\* destroy() ends both background threads and the runner.
ShutdownEnds ==
    shutdown ~> /\ {commit, fetch} \subseteq {"exited", "failed"}
                /\ ~runner_up

\* "Check for errors from other threads (fail-fast)": the failure of one
\* background thread ends the other, unless the dispatcher is paused.
FailFast ==
    thread_exception
        ~> ({commit, fetch} \subseteq {"exited", "failed"} \/ paused)
=============================================================================
