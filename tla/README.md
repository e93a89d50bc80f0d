# AReaL: a verification project for the asynchronous rollout system

AReaL trains language models by reinforcement learning with generation and
training decoupled: rollouts (prompts run through a workflow against inference
engines) go on while the model is trained on earlier ones.  What makes that
correct is bookkeeping spread over threads: how many samples may exist at the
current version of the model, which queue holds which rollout, who wakes whom,
what a pause stops.  This directory models that bookkeeping in TLA+, checks it
with TLC and proves its safety properties with TLAPS.  Paths below are relative to the
repository's root, `src/` in PROJECT.json.

## The system

| Component | State | Operations | Talks to |
|---|---|---|---|
| `AsyncTaskRunner` (areal/infra/async_task_runner.py) | input and output queue, running coroutines, active identifiers, `paused`, `exiting`, wake-up event, `thread_exception` | `submit`, `wait`, `pause`, `resume`, `destroy`; the background event loop | called by the dispatcher's two threads; runs rollouts |
| `StalenessManager` (areal/infra/staleness_manager.py) | `RolloutStat`: enqueued, running, accepted, rejected | `get_capacity`, `on_rollout_*`, `on_version_recovered` | reads the engine's version; called by the producer, the clients and the rollouts |
| `BatchTaskDispatcher` (areal/infra/workflow_executor.py) | pending inputs, pending results, active tasks, two conditions, `_shutdown_event`, thread exception | `submit_task_input`, `wait_results`, `wait_for_task`, `active_submit_and_wait`, `pause`, `resume`, `destroy`; `_commit_loop`, `_fetch_loop` | runner, staleness manager |
| `WorkflowExecutor` (same file) | the dispatcher, the data iterator | `submit`, `wait`, `rollout_batch`, `prepare_batch`, `_execute_workflow` | dispatcher, workflows, inference engine |
| Trainer loop (areal/trainer/rl_trainer.py) | step, recovered step | collect, train, pause, update weights, `set_version`, resume | executor or `RolloutController` |
| `RolloutController` (areal/infra/controller/rollout_controller.py) | workers, futures per task, round-robin index, version | submit to workers over RPC, completion callbacks, per-task timeout, fan-out of pause, version and resume | dispatcher, scheduler, workers |
| `RemoteInfEngine` (areal/infra/remote_inf_engine.py) and the servers behind it (areal/engine/vllm_ext) | server addresses, round-robin index, version, pause; on a server the weights, the engine's pause and the event of `areal_pause_generation` | `agenerate` with resubmission of aborted generations, weight updates from disk or bucket by bucket | trainer, name resolution |
| Scheduler and RPC (areal/infra/scheduler, areal/infra/rpc) | workers, ports, engine registry, engine thread | create, call with retry, delete | controllers |
| Inference service (areal/experimental/inference_service) | sessions, trajectories, keys, routes, waiting rollouts | start, ask, reward, export, notify, revoke | agents, users, gateway, router, data proxies, controller |
| Recovery, saver, evaluator, timers (areal/utils) | one recovery checkpoint: weights per model and six files; a frequency control each | `dump`, `load`, `save`, `evaluate`, `check` | trainer, launcher |
| Name resolution (areal/utils/name_resolve.py) | keys and values | `add`, `wait`, `get`, `delete` | everything distributed |
| Training, agent and data services; sequence packing; file lock; shard store | see PROJECT.json | | |
| Numeric engines, models, workflows, rewards, datasets, configuration | tensors and user data | | |

One rollout goes through: client -> `_pending_inputs` -> (producer thread, when
`get_capacity() > 0` and not paused) -> runner's input queue -> coroutine ->
runner's output queue -> (consumer thread) -> `_pending_results` -> client,
sorted by `create_time`.  The staleness manager is told at four points:
enqueued (by the client), submitted (by the producer, after `runner.submit`
returned), accepted or rejected (by the coroutine).  Weight updates happen
between `pause()` and `resume()`, which also changes what `get_capacity`
returns without a lock or a notification.

Around that pipeline, `RolloutController` repeats it one level up: each of its
rollouts is a coroutine that hands the task to a worker by RPC, where a dispatcher
with the same limits runs it.  Servers generate on while the trainer updates their
weights.  Agents and users reach the servers through the inference service, whose
trajectories come back as rollouts.  And a run that crashes is started again from
files that are replaced one after the other.

What is hard here, and so what the properties are about:

* the capacity is tested, used and counted in three steps, with rollouts that
  end and versions that change in between;
* the producer sleeps without a timeout on a condition whose predicate changes
  outside the condition's lock;
* results are drained and put back in two critical sections, an identifier
  becomes active after its task may have finished;
* a full queue is retried on the way in and fatal on the way out;
* the runner's event loop is woken through a callback scheduled by another
  thread, and pausing races with draining the queue;
* a thread that dies must not leave the others waiting;
* a callback may overtake the reply to the call it belongs to, come after the
  timeout, or never; calls that are not idempotent are repeated when an answer is
  lost;
* the version is one number, the weights are on several servers that change one by
  one and bucket by bucket while requests are aborted, held and answered late;
* an export removes what it returns, a session outlives the call that made it, a
  notification is sent until it is acknowledged;
* a crash falls between two files, a frequency control between two saves.

PROJECT.json lists each hazard at its line.

## Modules

| Module | Models | EXTENDS / INSTANCE |
|---|---|---|
| `TaskRunner` | what the pipeline relies on of the runner: two bounded queues, the running set, pause, death | - |
| `AsyncTaskRunner` | the runner itself, one action per statement other threads can see | INSTANCE TaskRunner (refinement) |
| `StalenessManager` | the counters and the capacity | - |
| `BatchTaskDispatcher` | producer and consumer threads, clients, pause, destroy; composes the two above | TaskRunner, StalenessManager |
| `RolloutTraining` | `active_submit_and_wait` and the training loop as the dispatcher's only client | BatchTaskDispatcher |
| `RolloutController` | the controller's coroutines, futures and callbacks; RPC with loss and retry; the workers' own capacity; collective pause, version, resume | StalenessManager |
| `InterruptibleGeneration` | `agenerate`, the servers' two gates, weight updates of both kinds | - |
| `InferenceService` | episodes of agents, the user's session, gateway, router, proxies, waiting rollouts | - |
| `Recovery` | the loop's saves, the checkpoint file by file, crashes, the launcher, `load`, frequency controls | - |
| `QueueLemmas` | sequences without repetition, finite sets of tasks | - |
| `RunnerProofs`, `DispatcherProofs`, `TrainingProofs`, `ControllerProofs`, `GenerationProofs`, `RecoveryProofs`, `ServiceProofs` | theorems | the module they are about |

### State and actions against the code

`AsyncTaskRunner`.  Variables have the names of the attributes; `at` is the
statement the background thread is about to run, `producer`, `consumer` and
`controller` say where the calls of the other threads are.  `submit()` is
`SubmitBegin` (health check), `SubmitRegister`/`SubmitDuplicate` (under
`_active_tasks_lock`), `SubmitPut`/`SubmitFull` (`put_nowait`),
`SubmitUnregister` (the `except queue.Full`) and `SubmitSignal`
(`_signal_new_input`).  The wake-up has two halves, as in asyncio:
`call_soon_threadsafe` sets `set_scheduled`, and the loop runs the callback
(`DeliverSet`) only while the main coroutine is suspended.  Coroutines return
under the same condition; `done` is the snapshot `asyncio.wait` gives.  The
`finally` blocks are `CancelRemaining`, `ForgetActive`, `RecordException` and
`Stop`.  Timeouts are choices: `asyncio.wait` and `asyncio.sleep` may return at
any time, and `wait()` may reach its deadline whenever it tests it.

`TaskRunner` keeps the queues, the running set and three flags, and forgets the
event, the identifiers and the program counters.  `admitting` is the one trace
of a program counter: the thread has seen the flag clear and may start one more
task.  `BatchTaskDispatcher` is built from these actions, so its state space is
small, and `ImplementsTaskRunner` justifies it.

`StalenessManager`.  One action per method, because each holds the lock for its
whole body.  `MaxSamples(v)` is `(max_staleness + v + 1) * batch`, `GetCapacity`
the minimum of the concurrency and the staleness part, `StatInit` a manager
after `on_version_recovered`.

`BatchTaskDispatcher`.  A critical section of `_input_cv` or `_result_cv` is one
action.  `commit` is the place of `_commit_loop`: `CommitNext`/`CommitWaits` are
`_get_next_task_for_submission`, `CommitSubmit` is `runner.submit`,
`CommitAccount` the report that follows it, `CommitQueueFull`, `CommitRequeue`
and `CommitRecheckFull` the `except TaskQueueFullError`.  `fetch` is the place of
`_fetch_loop`: `FetchPoll` computes `count`, `FetchGet` and `FetchTimeout` are
inside `runner.wait`, `FetchStore` and `FetchNotify` the two notifications.  A
waiting producer moves only when `NotifyInput` moves it (`Woken`).  The waits of
clients have timeouts and re-test, so a client that waits is one that takes no
step.  The rollout's end, `RolloutAccepted`/`RolloutRejected`, is the end of
`_execute_workflow`: between the report and the return the rollout touches nothing
that another thread reads, so they are one action.  `issued` is the identifier
generator; `create_order` is the order of `create_time`; `verdict`, `delivered`
and `lost` are history variables.

`RolloutTraining`.  `step` is where the trainer is: a round of submissions
(`BeginRound`, `SubmitOne`, `ActivateOne`, `EndRound`), `wait_results`
(`ArriveInTime` + `CountBatch`, or `ArriveLate` when its second is over), and the
update (`TrainAndPause`, `UpdateVersion`, `Resume`, `Notify`).
`start_version` and `used_version` are history variables.

`RolloutController`.  `task[t].pc` is where the coroutine `_submit_then_wait`
of task `t` is: in the RPC of `submit`, waiting for its future, in the RPC of
`wait_for_task`, or returned.  `Dispatch` is the dispatcher's producer with the
body up to the first await (worker chosen, future in `_pending_futures`, request
sent); `Submitted`, `CalledBack`, `Fetched`, `CallRaises` and `TimesOut` go on from
each await, the last two through the `except` blocks (`GiveUp`).  `CallFails` is
one round of `async_call_engine`'s retries: a request or its reply is lost, and a
request that was only late is carried out all the same.  `Callback` is
`_resolve_task_future`; `WorkerStarts`, `ExecutionEnds` and `WorkerPublishes` are a
worker's dispatcher in three steps, with the `StalenessManager` of the worker
(`WorkerHasCapacity`) and the death of its producer when the runner refuses an
identifier that is in use.  The trainer's pause, `set_version` and resume reach the
workers one by one (`CollectiveReaches`).

`InterruptibleGeneration`.  `request[r]` is a call of `agenerate`: its place
between client and server, the tokens of the HTTP call in progress (`chunk`) and
what has been labelled (`output`).  Each token carries the weights that made it,
counted in buckets.  A server has the engine's pause and the event of the
endpoints; `Aborted` is what a pause or a load does to what is running.  `stage` is
where the trainer is in pause, update, continue, set and resume; with `kind =
"disk"` `SaveCheckpoint`, `Publish` and `LoadCheckpoint` are three processes'
steps, with `"xccl"` `LoadBucket` and `NextBucket` go through the buckets.

`InferenceService`.  `sessions[p]` is the store of a data proxy, a session being the
interactions of its active trajectory, the trajectories that are ready and whether
a reward waits for its timeout.  `route` and `groups` are the router's registries.
An episode (`_run_offline`) goes through `RouteStart`, `CreateSession`, `Register`,
`Ask`, `Answer`, `AgentEnds`, `RewardEpisode`, `ExportEpisode` and `Revoke`, each of
which may lose its answer, and then does what gateway or workflow do.  The user
(`UserAsks`, `UserIsAnswered`, `UserRewards`) works in the session `__hitl__` of the
proxy the admin key is pinned to; `FlushBegins`, `Tell` and `FlushEnds` are
`_flush_ready_trajectories`; `WaitOnline`, `Wakes`, `TimesOut` and `ExportOnline` are
`_run_online` with the controller's two lists.  `credited` and the `result`s are
history variables.

`Recovery`.  `trained[m][s]` is how often step `s` is in the weights of model `m`.
`DumpStage` replaces one stage of the checkpoint (a model's weights, or one of the
six files of `recover_info`), and `Crash` may come before any of them or cut a file
off.  `Checked` is `EpochStepTimeFreqCtl.check` and `Due` its answer, `Launch` is
`RecoverHandler.load`, `Relaunch` the local launcher.

Definitions whose comment begins with "Faulty" are not part of the models: they
are altered forms of the definition below them, and each property is known to
fail with one of them in its place (PROJECT.json, "mutants").

## Runs

| Run | Question | Bounds |
|---|---|---|
| `runner` | Does the runner implement `TaskRunner`; is an identifier ever in flight twice; is each wake-up delivered, does `destroy` end, is a dead thread noticed, is each result published? | 2 tasks, 1 producer, queue of 1, `wait(1)` |
| `dispatcher` | Capacity, concurrency, counters, exactly-once placement, active identifiers, under arbitrary calls | 3 rollouts, concurrency 2, batch 1, staleness 1, queue of 1, recovered at version 1, versions 1..2 |
| `dispatcher_liveness` | Is the producer always woken, are results handed over, does shutdown end? | 2 rollouts, staleness 0: the second waits for a version or a rejection |
| `dispatcher_slow_fetch` (violated) | Is a result ever dropped when the 50 ms of a fetch expire between two results? | 2 rollouts, queue of 2 |
| `dispatcher_fail_fast` (violated) | Does the failure of one thread end the other? | 4 rollouts, queue of 1 |
| `training_async` | Backlog, who may be overtaken, and that training never halts | 4 rollouts, staleness 1, from version 1 to 3, one rejection |
| `training_sync` | Full batches, synchronous training with staleness 0, and when a result may be dropped | 5 rollouts, batch 2, versions 0..2, one rejection, slow fetches |
| `controller` | Is each task counted once and its future neither lost nor left; do controller and worker agree on the result; how far can their capacities drift apart; does each task end without its timeout when nothing is lost? | 2 tasks, 2 workers, 2 attempts, one update, one fault |
| `generation` | What is a token's label worth, does a server ever read a half-written checkpoint, does every call return, within its budget of tokens? | 2 calls, 2 servers, 2 tokens, 2 buckets, 2 updates of either kind, one lost reply |
| `inference_service` | Does an episode return what it was rewarded for, is an interaction ever returned by two rollouts, what is left behind, does every episode end? | 2 episodes or 2 waiting rollouts, 2 proxies, 2 completions each, list of 1, one fault |
| `recovery` | Does a restarted run skip a step, or repeat one twice; are models exported and evaluated on schedule? | 8 steps, epochs of 4; export every 3 steps and every epoch, checkpoint every 2 and every epoch, evaluation every 2; 4 starts |
| `recovery_critic` (violated) | Are all models whose checkpoint is saved restored? | 3 steps, a checkpoint each, one restart |

The bounds are small, and chosen so that each limit is met: queues of one make
the input queue full (the producer takes the `TaskQueueFullError` path) and the
output queue full (the runner dies) with two tasks; a concurrency limit of 2 with
three rollouts and batch 1 with staleness 1 make both parts of `get_capacity` the
smaller one; a version bound of one more than the start changes the capacity
while rollouts run.  Two workers and two tasks let the calls of one task race with
those of the other, and one fault is enough for a task to be run that the controller
has given up, or to be run twice.  Two buckets put an engine back to work in the
middle of an update, and two updates make a label two versions late.  Two proxies
let an export reach the wrong one once the router has forgotten the session.  The
three frequencies of `recovery` do not coincide.  `Tasks` bounds what clients submit
and `MaxVersion` the trainer's steps; `MaxWait`, `MaxFetchBatch`, `MaxRejects`,
`MaxCalls` and `MaxFaults` bound an argument, a constant of the code, rejections,
completions and faults.  `SlowFetch` separates the normal case, in which a fetch
that finds the queue non-empty is done within its 50 ms, from the case in which it
is not.  The liveness properties of the dispatcher and of training are checked
without it, since a rollout that is dropped is never delivered; no theorem assumes
anything about it.

`CHECK_DEADLOCK FALSE` is used where the system really stops: after `destroy`,
after a fatal error, at the end of the last restart, or when the data of the model
are used up.  The run of the runner checks for deadlock.

### Fairness

The background threads are OS threads or an event loop that never blocks for ever
outside the waits that are modelled, hence weak fairness of `ThreadStep`,
`DeliverSet`, `CommitStep` and `FetchStep`; calls in progress go on
(`ProducerStep`, `ControllerStep`, `ClientStep`).  No client is obliged to call,
no coroutine to return and no pause to end.  While paused the runner only sleeps,
so its actions are fair under `~paused` only.  Training adds that rollouts end
(`EndRollout`): requests to engines have a timeout and a failed workflow is a
rejected rollout.

In `RolloutController` a collective call that has begun ends, coroutines, callback
server and workers' threads go on, and every workflow returns; the trainer need not
update and no fault need happen, and `EndsWithoutTimeout` asks for an end only
where none does.  In `InterruptibleGeneration` an update that has begun ends and a
server serves what it was sent.  In `InferenceService` only episodes are fair: an
agent is run with a time limit and every HTTP call has a timeout.  `Recovery` has
safety properties only.

### Where the code disagrees with its own text

Three runs find a counterexample; PROJECT.json ("findings") quotes the lines.

1. `dispatcher_slow_fetch`: `wait(count, timeout)` drops what it has already taken
   when its deadline passes; `_fetch_loop` asks with 50 ms and continues, so an
   accepted rollout can vanish while the counters keep it.
2. `dispatcher_fail_fast`: a producer that waits for room in the runner does not
   look at the other thread's failure; if the runner has died it waits for ever.
3. `recovery_critic`: the critic's weights are saved in every recovery checkpoint
   and never loaded.

Other differences that came up; each has shaped a property, which states what the
code does ensure:

* async_task_runner.py:421: a task may start after `pause()` has returned, since
  the drain loop tests the flag before it takes a task (631-633 promise none).  The
  interface `TaskRunner` has `admitting` for it.
* async_task_runner.py:327: a paused loop does not look at finished coroutines, so
  the class's example (145-149), which waits for results after `pause()`, times
  out.  `ReturnedIsPublished` is about a loop that is not paused.
* staleness_manager.py:108: the capacity bounds how many samples exist, not how old
  one may be, as 95-96 say.  `StaleIsOvertaken` states what holds: a sample is too
  old only if a younger one was used at an earlier version.
* workflow_executor.py:708: with `dynamic_bs` a rejected rollout completes the batch
  and frees capacity, so staleness 0 is not synchronous (docs, async.md:8-9).
  `BacklogBound`, `StaleIsOvertaken`, `FullBatches` and `Synchronous` hold without
  `dynamic_bs` only.
* remote_inf_engine.py:838: a token's version is read when the answer arrives, not
  when it is generated (docs, rollout_workflow.md:68).  `LabelAtMostOneOld` bounds
  the error on one side; there is no bound on the other.
* rl_trainer.py:1086 and 1095: actor and critic share one frequency control, which
  each save advances; with `freq_steps=2` only the critic is ever exported (docs,
  checkpointing.md:90).  `SchedulesSurvive` is about runs without a critic.
* A crash that leaves a file of `recover_info` unreadable makes the run begin at
  step 0 although the weights of a later step are on disk.
* The evaluator's control is saved before its own check, so it falls behind by a
  step at each restart; the local launcher starts a trainer that has finished once
  more.
* inference_service/controller/workflow.py:117: exporting one trajectory of the
  user removes the session with its other trajectories (session.py:128 documents
  one session for many).  All sessions of agents go to the proxy the admin key is
  pinned to.
* inference_service/controller/workflow.py:201: with `set_reward_finish_timeout > 0`
  (cli_args.py:1991, "Timeout in seconds to wait for additional reward updates before
  finalizing a session") `set_reward` leaves the trajectory open (session.py:223-226,
  260-269), the workflow exports at once, finds nothing and removes the session: unless
  the proxy finalizes in between, every rewarded episode is lost without a fault,
  although a session is documented as "one session → one trajectory via
  ``set_reward`` → ``export_trajectory``" (session.py:130).  `RewardedIsReturned`
  therefore allows an empty result with `delayed`, and never a partial one.  The
  default of the timeout is 0.
* With two client threads `_active_task_ids` can keep a task that has been
  delivered, since an identifier becomes active after its input was queued.
  `ActiveIsOutstanding` is checked and proved for one client thread, as the trainer
  uses the dispatcher.

## Proofs

Every theorem holds for all values of the constants that satisfy the modules'
assumptions (`MaxQueueSizeAssumption`, `StalenessAssumption`,
`DispatcherAssumption`, `TrainingAssumption`, `RunnerAssumption`,
`ControllerAssumption`, `GenerationAssumption`, `RecoveryAssumption`,
`ServiceAssumption`): any number of tasks, clients, workers, servers, proxies and
restarts, any queue sizes and limits.  `ServiceAssumption` also says that no episode
has one of the three names the service reserves (admin key, `__hitl__`, user).  Every
safety invariant that a passing run checks is proved.

`DispatcherProofs`.

* `TypeInvariant`: `Spec => []TypeOK`.  `TypeOK` is inductive with its side
  conditions (what `committing` and `request` hold where).
* `SamplesAreBounded`: `Spec => []SampleBound`.  Not inductive: between test and
  count the producer owes a rollout that `Samples` does not have yet.  The invariant
  counts it: samples plus the *permit* of a producer that has passed the test are
  within `MaxSamples(version)` (`CapacityInv`).  A permit is only taken when the
  capacity is positive; a rollout that ends turns running into accepted or frees a
  sample; versions only grow.
* `DispatcherRunsRunner`: `Spec => RunnerSpec`, each dispatcher step is a runner step
  or a stutter; with `RunnerImplementsInterface` it joins the two halves.

* `RolloutsAreBounded` (`ConcurrencyBound`).  The bound is on tasks, the code tests a
  counter.  `CountInv` ties them: the rollouts that wait in the runner or run and
  have not ended are at most the counter `running`, plus one between `runner.submit`
  and its report.  It holds because each rollout ends once, which is `StartInv`: the
  queues hold no task twice, and a task that has not started, or not ended, has no
  verdict.
* `NothingTwice` (`ExactlyOnePlace`).  `PlaceInv` names the nine places as sets; a
  step that moves tasks from one to another keeps them apart (`MoveApart`,
  `MoveTo`), one that moves none keeps them (`StayPut`).  `SeparateInv` has what a
  move needs: queues and drained sets that are disjoint.
* `CountersAreTrue` (`CountersMatch`).  `CountersInv` has one equation per counter,
  each off by the step between an action and its report.
* `ResultsAreKept` (`OnlyDeadlinesDrop`), for slow fetches and others: while the
  threads are healthy the one step that drops results is the deadline of a fetch, it
  drops part of a batch only, and the rest of the batch is still in the output queue
  (`FetchInv`: a fetch never asks for more than there is).
* `ProducerIsTold` (`NoMissedWakeup`), the safety half of `ProducerIsWoken`,
  `FullIsWoken` and `ShutdownEnds`: a producer that sleeps on `input_cv` (whose
  `wait()` has no timeout) through a chance to submit has a living consumer with a
  reason to notify it in hand, or `resume()` is about to.  It also holds when a slow
  fetch drops results: a fetch only drops them while the queue holds more
  (`FetchInv`), so the news is not dropped with them.  What no theorem says is that
  the consumer takes its step, which is fairness.
* `ActiveTasks` (`ActiveIsOutstanding`), assuming one client thread.

`TrainingProofs`.

* `TrainingIsClient`: `TrainingSpec => Spec`, so all of the above holds of training
  (`TrainingIsBounded`).  `BatchInv` keeps what a round still misses a legal argument
  of `wait_results`.
* `LoopTypes` (`LoopTypeOK`).
* `BatchesAreFull` (`FullBatches`).  `UsedInv` counts the samples used: a batch for
  each version, what has been accepted for the batch under way, and the batch
  collected that no version counts yet.  It needs that `[:count]` of the results
  sorted by `create_time` is at most `count` of them (`OldestFits`, a maximal index
  exists), hence that every result was created and once (`CreatedInv`).
* `BacklogIsBounded` (`BacklogBound`): `CapacityInv` bounds the samples, `CountersInv`
  and `CountInv` say which tasks they are, `UsedInv` subtracts what was used.
* `StalenessZeroIsSynchronous` (`Synchronous`): with staleness 0 that bound is 0 when
  the version changes, so nothing is left that an older model made (`FreshInv`).
* `OldSamplesAreOvertaken` (`StaleIsOvertaken`): when a rollout starts at version
  `s`, at most the samples that fit `s` have been created and not rejected
  (`KeptInv`); by version `w` exactly `w` batches were used (`UsedBeforeInv`).  If `w`
  is more than `MaxStaleness` versions later and none of them was younger, they do
  not fit among the older ones.

`RunnerProofs`: `RunnerTypeInvariant`, `NoDuplicates`, `RunnerImplementsInterface`:
types, no identifier in flight twice while the thread lives, and the refinement
`AsyncTaskRunner => TaskRunner`.  `OwnershipInv` is behind the last two: a
registered identifier that is not in flight is owned by one producer, on its way
to the queue or back from it, or by the thread between publication and discard.
`WakeupsAreKept` (`NoLostWakeup`) is the safety half of `QueuedIsStarted` and
`DestroyTerminates`: a loop that awaits its event while a task is queued, or while it
is to exit, has the event set, the callback that sets it scheduled, or the one who
schedules it still inside `submit()` or `destroy()`.  The argument is the order of
`_wait_for_new_tasks`, which clears the event before it tests a second time, and
`EventInv`: a loop that awaits has an event, so the signal is not the no-op it is
outside the loop's life.

`ControllerProofs`: `ControllerTypes`, `FuturesMatch`, `VerdictsMatch`.  The
invariant is a conjunction over tasks (`TaskInv`), since a step moves one task:
where its future is for each place of the coroutine (`FutureInv`), that a trajectory
anybody holds was accepted by the worker (`AcceptedInv`), and, while no fault has
happened, that the task is in exactly one stage of being sent, queued, executed,
stored and called back (`FaultlessInv`).  The counters are set cardinalities
(`CountInv`).  `DriftIsBounded` (`DriftBound`) is about a sum over the tasks of what
their workers hold.  The sum is a fold, and induction over data is out of reach, so
its laws are derived from the well-founded order of the naturals: a least number of
tasks for which a law fails has a smaller one (`SumIs`, `PickFrom`).  `DriftInv`
bounds the sum of the *excess* of each task, what its worker holds beyond the one
sample the controller holds.  The controller lets go of a task when it learns of the
rejection, which is late: the excess is therefore counted as soon as there is an
error or a None that can still reject the task (`Spoiled`), and then only a fault
makes it grow.

`GenerationProofs`: `CheckpointsAreComplete`, from `PublishedInv` (what is announced
has been written), and `LabelsAreBounded`.  The latter's invariant `WeightInv` bounds
how far each server may be at each stage and bucket of an update; `CallInv` carries
the bound to the tokens on their way and the labels.  `GenerationTypes` (`TypeOK`)
needs the lengths of what is labelled and on its way (`CallTypeInv`) and, at each
stage of an update, which versions are saved and announced (`UpdateTypeInv`).

`RecoveryProofs`: `NoStepIsSkipped` (`EveryStepTrained`).  `DiskInv` says that the
weights on disk have every step before the one `step_info` names, in whichever
order a crash leaves the files; `MemoryInv` and `CountInv` say the same of the
trainer, and that a step counts once per start.  `SchedulesAreKept`
(`SchedulesSurvive`): `ScheduleInv` ties each frequency control, in memory
(`MemoryCtlInv`) and on disk (`DiskCtlInv`), to the step it belongs to: a control is
the remainder of the steps counted, so it fires at the same steps in every run that
starts from it.  The arithmetic is about quotients and remainders with the epoch's
and the schedule's length as parameters (`NextMultiple`, `EpochMultiple`).

`ServiceProofs`: `ServiceTypes`, `RewardsAreReturned`, `InteractionsReturnedOnce`,
`LeaksAreBounded`, all from one invariant, `ServiceInv`, since none of the four is
inductive.

* `EpisodePlaced` says where session and group of an episode are at each of its
  places, also after an answer was lost; `EpisodeCredited` that what the reward was
  set on is in the latest trajectory until the export, then in the result (`Cut`).  A
  second reward finds nothing under way and changes nothing.  With a delayed reward
  it stays in the trajectory under way (`Uncut`) until `Finalize`; an export before
  that finds no trajectory, so the result is whole or empty, never a part.
* `IsSession` keeps the trajectories of a session apart and numbered below the number
  of interactions there can be; `Given` says which those are, and excludes what an
  external model has not answered, so a late answer is new to every session and
  result.  `OnlineApart` keeps results apart from each other and from the session.
* `FewLeft` counts the sessions that no episode will export and the groups that none
  will revoke against `faults`: a step without a fault adds none.  Routes are groups
  or the two fixed names (`Placed`).
* `Placed` also says that all sessions are at the proxy the admin key is pinned to.

Only model-checked: every liveness property (fairness and ENABLED are outside the
prover's reach): `QueuedIsStarted`, `ReturnedIsPublished`, `DestroyTerminates`,
`DeathIsVisible`, `ProducerIsWoken`, `FullIsWoken`, `ReadyIsStored`, `ShutdownEnds`,
`TrainingProgress`, `EndsWithoutTimeout`, `EveryCallReturns`, `EpisodesEnd`.  The
three properties of the violated runs are refuted by TLC, not proved.  `NoMissedWakeup`
and `NoLostWakeup` are proved and in no run: they are what the prover can say of
properties the runs check in full.

## Not modelled

Contents of trajectories, payload formats, logging, tracing, dumping of
trajectories to disk and the data iterator; `get_*_queue_size`, `health_check`,
`export_stats` only read.  `on_version_recovered` is modelled only as the initial
state, since it is called before the first submission.  The joins in `destroy` have
timeouts, so the runner of the model may end while the two threads still run.  A
rollout that ends by `CancelledError` without the runner's end
(async_task_runner.py:354) would end without a report; the runner itself
cancels coroutines only when it ends (410).

Controller: initialisation, proxy workers and the collective calls of a weight
update.  Generation: retries that are used up (http.py:220; a call is lost less often
than it is repeated), the timeout of 120 s of `name_resolve.wait`
(remote_inf_engine.py:1327), the affinity cache of `rid` to server, SGLang's endpoints, LoRA,
the launch of servers.  Inference service: groups of several sessions, refreshed
keys, workers that leave (`/unregister`), the pause of proxy and bridge, which is
the protocol of `InterruptibleGeneration`; `cleanup_stale` has no caller; an export
that raises after the trajectory was taken out (session.py:348-357); the round-robin index when a route was forgotten, which nothing
reads once the admin key is pinned.  Recovery: `eval_before_train` (the only use of
`initial_value`), cancellation and interrupts, which end the local launcher
(local.py:427-440) where the model may start the trainer again,
the clocks of the frequency controls (and with them timeutil.py:128), asynchronous
export, learning-rate schedules; the save of one model is atomic.

Numeric code (engines, kernels, losses, sharding), user-level workflows, rewards and
datasets, configuration records and the start of processes have no discrete control
to explore; they are most of the repository.  The shard store is a dictionary behind
one lock.  The other components are listed in PROJECT.json with the reason.

## Plan

1. Name resolution with its keepalive and watch threads, and the lock built on it.
2. Creation, forking and deletion of workers in the local scheduler, and the RPC
   server's engine thread, joined to `RolloutController`.
3. The data service: registration, epochs, round-robin fetches; the dispatch of
   batches in the training service.
4. Sequence packing against its specification.
5. Theorems of the new modules, and `MapThenSumSet`'s laws in a module of their own
   once a second proof needs them.
