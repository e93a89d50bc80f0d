------------------------- MODULE RolloutController --------------------------
(***************************************************************************)
(* areal/infra/controller/rollout_controller.py: a task of the             *)
(* controller's dispatcher is a coroutine that submits the rollout to a    *)
(* worker by RPC, waits for the worker's callback and fetches the result   *)
(* by a second RPC.  Each worker has a dispatcher and a StalenessManager   *)
(* of its own, with the limits of the controller's.                        *)
(*                                                                         *)
(* The faults are those the code handles: an RPC whose request or reply is *)
(* lost is tried again (scheduler/local.py, async_call_engine), a callback *)
(* is posted once, and a task that is not called back within               *)
(* request_timeout is given up.                                            *)
(***************************************************************************)
EXTENDS StalenessManager, FiniteSetsExt

CONSTANTS
    Tasks,          \* identifiers, in the order they are dispatched
    NumWorkers,     \* the workers are their ranks, from 0
    MaxRetries,     \* max_retries of async_call_engine
    MaxVersion,     \* bound of the model: the last version set
    MaxFaults       \* bound of the model: lost messages and timeouts

ASSUME ControllerAssumption ==
    /\ IsFiniteSet(Tasks) /\ Tasks = 1..Cardinality(Tasks)
    /\ NumWorkers \in Nat \ {0} /\ MaxRetries \in Nat \ {0}
    /\ MaxVersion \in Nat /\ RecoveredVersion <= MaxVersion /\ MaxFaults \in Nat

VARIABLES
    task,               \* the coroutine of each task, with its RPC and future
    pending_futures,    \* _pending_futures
    current_worker_idx,
    net,                \* submit requests and callbacks on their way
    work,               \* what the worker of each task has of it
    engine,             \* each worker's version, pause flag and thread health
    stage,              \* the collective RPC the trainer is in, or "run"
    left,               \* the workers it has still to reach
    faults

trainerVars == <<version, stage, left>>
vars == <<task, pending_futures, current_worker_idx, net, work, engine,
          faults, rollout_stat, trainerVars>>

Workers == 0..NumWorkers - 1

Init ==
    /\ StatInit
    /\ task = [t \in Tasks |-> [pc |-> "new", worker |-> 0, attempt |-> 0,
                                reply |-> "none", future |-> "none"]]
    /\ pending_futures = {} /\ current_worker_idx = 0
    /\ net = [t \in Tasks |-> [calls |-> 0, posts |-> 0]]
    /\ work = [t \in Tasks |-> [queued |-> 0, execution |-> "none",
                                accepted |-> 0, result |-> "none",
                                active |-> FALSE, callback |-> FALSE]]
    /\ engine = [w \in Workers |-> [version |-> RecoveredVersion,
                                    paused |-> FALSE, failed |-> FALSE]]
    /\ stage = "run" /\ left = {}
    /\ faults = 0

Fault == faults < MaxFaults /\ faults' = faults + 1

Ended == {t \in Tasks : task[t].pc \in {"accepted", "rejected"}}

-----------------------------------------------------------------------------
(* The coroutine _submit_then_wait.  The dispatcher that starts it is       *)
(* BatchTaskDispatcher; here its producer takes one step.                   *)

Dispatch(t) ==
    /\ task[t].pc = "new" /\ \A u \in Tasks : u < t => task[u].pc # "new"
    /\ HasCapacity /\ stage = "run"
    /\ rollout_stat' = [rollout_stat EXCEPT !.running = @ + 1]
    /\ task' = [task EXCEPT ![t] = [pc |-> "submit", attempt |-> 1,
                                    worker |-> current_worker_idx,
                                    reply |-> "none", future |-> "created"]]
    /\ pending_futures' = pending_futures \cup {t}
    /\ current_worker_idx' = (current_worker_idx + 1) % NumWorkers
    /\ net' = [net EXCEPT ![t].calls = 1]
    /\ UNCHANGED <<work, engine, trainerVars, faults>>

\* Faulty: the future is created when submit has returned.
SubmittedCreatesFuture(t) ==
    /\ task[t].pc = "submit" /\ task[t].reply = "ok"
    /\ task' = [task EXCEPT ![t].pc = "wait", ![t].future = "created"]
    /\ pending_futures' = pending_futures \cup {t}
    /\ UNCHANGED <<current_worker_idx, net, work, engine, trainerVars, faults,
                   rollout_stat>>

Submitted(t) ==
    /\ task[t].pc = "submit" /\ task[t].reply = "ok"
    /\ task' = [task EXCEPT ![t].pc = "wait"]
    /\ UNCHANGED <<pending_futures, current_worker_idx, net, work, engine,
                   trainerVars, faults, rollout_stat>>

CalledBack(t) ==
    /\ task[t].pc = "wait" /\ task[t].future = "set"
    /\ task' = [task EXCEPT ![t].pc = "fetch", ![t].attempt = 1,
                            ![t].reply = "none"]
    /\ UNCHANGED <<pending_futures, current_worker_idx, net, work, engine,
                   trainerVars, faults, rollout_stat>>

\* The coroutine returns: its local state is gone, a late set_result finds the
\* future cancelled.
Finished(coroutine, how) ==
    [coroutine EXCEPT !.pc = how, !.attempt = 0, !.reply = "none",
                      !.future = "none"]

\* Faulty: the future of a task that is given up stays in the dictionary.
GiveUpKeepsFuture(t) ==
    /\ task' = [task EXCEPT ![t] = Finished(@, "rejected")]
    /\ OnRolloutRejected
    /\ UNCHANGED <<pending_futures, current_worker_idx, net, work, engine,
                   trainerVars>>

\* The two exception handlers.
GiveUp(t) ==
    /\ task' = [task EXCEPT ![t] = Finished(@, "rejected")]
    /\ pending_futures' = pending_futures \ {t}
    /\ OnRolloutRejected
    /\ UNCHANGED <<current_worker_idx, net, work, engine, trainerVars>>

\* Faulty: the manager is not told of a timeout.
TimesOutUnreported(t) ==
    /\ task[t].pc = "wait"
    /\ Fault
    /\ task' = [task EXCEPT ![t] = Finished(@, "rejected")]
    /\ pending_futures' = pending_futures \ {t}
    /\ UNCHANGED <<rollout_stat, current_worker_idx, net, work, engine,
                   trainerVars>>

\* The timeout may come first although set_result is scheduled in the event loop.
TimesOut(t) ==
    /\ task[t].pc = "wait"
    /\ Fault
    /\ GiveUp(t)

CallRaises(t) ==
    /\ task[t].pc \in {"submit", "fetch"} /\ task[t].reply = "error"
    /\ GiveUp(t)
    /\ UNCHANGED faults

Fetched(t) ==
    /\ task[t].pc = "fetch"
    /\ \/ /\ task[t].reply = "trajectory"
          /\ task' = [task EXCEPT ![t] = Finished(@, "accepted")]
          /\ OnRolloutAccepted
       \/ /\ task[t].reply = "None"
          /\ task' = [task EXCEPT ![t] = Finished(@, "rejected")]
          /\ OnRolloutRejected
    /\ UNCHANGED <<pending_futures, current_worker_idx, net, work, engine,
                   trainerVars, faults>>

\* async_call_engine: the request or the reply is lost and the call is repeated,
\* at most MaxRetries times in all.  A request that has not been carried out may
\* be lost, or be carried out later.
CallFails(t) ==
    /\ task[t].pc \in {"submit", "fetch"} /\ task[t].reply # "error"
    /\ Fault
    /\ IF task[t].attempt = MaxRetries
       THEN task' = [task EXCEPT ![t].reply = "error"] /\ UNCHANGED net
       ELSE /\ task' = [task EXCEPT ![t].attempt = @ + 1, ![t].reply = "none"]
            /\ \/ /\ task[t].pc = "submit"
                  /\ net' = [net EXCEPT ![t].calls = @ + 1]
               \/ /\ task[t].pc = "submit" => task[t].reply = "none"
                  /\ UNCHANGED net
    /\ UNCHANGED <<pending_futures, current_worker_idx, work, engine,
                   trainerVars, rollout_stat>>

CoroutineStep(t) ==
    \/ Submitted(t) \/ CalledBack(t) \/ CallRaises(t)
    \/ Fetched(t)

-----------------------------------------------------------------------------
(* The callback server of the controller, a thread of its own. *)

\* _resolve_task_future: the future is set by way of call_soon_threadsafe.
Callback(t) ==
    /\ net[t].posts > 0
    /\ net' = [net EXCEPT ![t].posts = @ - 1]
    /\ pending_futures' = pending_futures \ {t}
    /\ IF t \in pending_futures
       THEN task' = [task EXCEPT ![t].future = "set"] ELSE UNCHANGED task
    /\ UNCHANGED <<current_worker_idx, work, engine, trainerVars, faults,
                   rollout_stat>>

\* _send_callback logs a failed request and forgets it.
CallbackLost(t) ==
    /\ net[t].posts > 0
    /\ Fault
    /\ net' = [net EXCEPT ![t].posts = @ - 1]
    /\ UNCHANGED <<task, pending_futures, current_worker_idx, work, engine,
                   trainerVars, rollout_stat>>

-----------------------------------------------------------------------------
(* A worker.  Its engine thread carries out one call at a time. *)

\* The last of the requests is the one the coroutine waits for.
Answered(t, what) ==
    IF net[t].calls > 1 \/ task[t].pc # "submit" \/ task[t].reply # "none"
    THEN UNCHANGED task ELSE task' = [task EXCEPT ![t].reply = what]

\* submit: the callback is registered, then the dispatcher either raises what
\* one of its threads has died of or takes the input.
ServeSubmit(t) ==
    /\ net[t].calls > 0
    /\ net' = [net EXCEPT ![t].calls = @ - 1]
    /\ IF engine[task[t].worker].failed
       THEN /\ Answered(t, "error")
            /\ work' = [work EXCEPT ![t].callback = TRUE]
       ELSE /\ Answered(t, "ok")
            /\ work' = [work EXCEPT ![t].callback = TRUE, ![t].active = TRUE,
                                    ![t].queued = @ + 1]
    /\ UNCHANGED <<pending_futures, current_worker_idx, engine, trainerVars,
                   faults, rollout_stat>>

\* wait_for_task: a result is given once; 0.1 seconds without it give None.
FetchReply(t) ==
    IF ~work[t].active THEN "error"
    ELSE IF work[t].result # "none" THEN work[t].result
    ELSE IF engine[task[t].worker].failed THEN "error" ELSE "None"

ServeFetch(t) ==
    /\ task[t].pc = "fetch" /\ task[t].reply = "none"
    /\ task' = [task EXCEPT ![t].reply = FetchReply(t)]
    /\ work' = IF work[t].active /\ work[t].result # "none"
               THEN [work EXCEPT ![t].result = "none", ![t].active = FALSE]
               ELSE work
    /\ UNCHANGED <<pending_futures, current_worker_idx, net, engine, trainerVars,
                   faults, rollout_stat>>

At(w) == {t \in Tasks : task[t].pc # "new" /\ task[t].worker = w}

WorkerRunning(w) == {t \in At(w) : work[t].execution = "running"}

WorkerSamples(w) ==
    Cardinality(WorkerRunning(w)) + MapThenSumSet(LAMBDA t : work[t].accepted, At(w))

\* The capacity of the worker's own StalenessManager.
WorkerHasCapacity(w) ==
    /\ Cardinality(WorkerRunning(w)) < ConcurrencyLimit
    /\ WorkerSamples(w) < MaxSamples(engine[w].version)

\* Faulty: the input is looked at and left in the queue.
WorkerStartsPeek(t) ==
    LET w == task[t].worker
    IN /\ work[t].queued > 0 /\ ~engine[w].failed /\ ~engine[w].paused
       /\ WorkerHasCapacity(w) /\ work[t].execution = "none"
       /\ work' = [work EXCEPT ![t].execution = "running"]
       /\ UNCHANGED <<task, pending_futures, current_worker_idx, net, engine,
                      trainerVars, faults, rollout_stat>>

\* The worker's producer.  Its runner refuses an identifier that is in use: the
\* producer dies of it and the dispatcher with it.
WorkerStarts(t) ==
    LET w == task[t].worker
    IN /\ work[t].queued > 0 /\ ~engine[w].failed /\ ~engine[w].paused
       /\ WorkerHasCapacity(w)
       /\ \/ /\ work[t].execution = "none"
             /\ work' = [work EXCEPT ![t].queued = @ - 1,
                                     ![t].execution = "running"]
             /\ UNCHANGED engine
          \/ /\ work[t].execution # "none"
             /\ work' = [work EXCEPT ![t].queued = @ - 1]
             /\ engine' = [engine EXCEPT ![w].failed = TRUE]
       /\ UNCHANGED <<task, pending_futures, current_worker_idx, net, trainerVars,
                      faults, rollout_stat>>

\* The workflow returns a trajectory or None and the worker's manager is told.
ExecutionEnds(t) ==
    /\ work[t].execution = "running"
    /\ \/ work' = [work EXCEPT ![t].execution = "trajectory", ![t].accepted = @ + 1]
       \/ work' = [work EXCEPT ![t].execution = "None"]
    /\ UNCHANGED <<task, pending_futures, current_worker_idx, net, engine,
                   trainerVars, faults, rollout_stat>>

\* Faulty: the callback is posted before the result can be fetched.
WorkerPublishesLate(t) ==
    LET w == task[t].worker
    IN \/ /\ work[t].execution \in {"trajectory", "None"} /\ work[t].callback
          /\ net' = [net EXCEPT ![t].posts = @ + 1]
          /\ work' = [work EXCEPT ![t].callback = FALSE]
          /\ UNCHANGED <<task, pending_futures, current_worker_idx, engine,
                         trainerVars, faults, rollout_stat>>
       \/ /\ work[t].execution \in {"trajectory", "None"} /\ ~work[t].callback
          /\ ~engine[w].failed /\ ~engine[w].paused
          /\ work' = [work EXCEPT ![t].result = work[t].execution,
                                  ![t].execution = "none"]
          /\ UNCHANGED <<task, pending_futures, current_worker_idx, net, engine,
                         trainerVars, faults, rollout_stat>>

\* The runner publishes, the worker's consumer stores the result and posts the
\* callback if one is registered.
WorkerPublishes(t) ==
    LET w == task[t].worker
    IN /\ work[t].execution \in {"trajectory", "None"}
       /\ ~engine[w].failed /\ ~engine[w].paused
       /\ work' = [work EXCEPT ![t].result = work[t].execution,
                               ![t].execution = "none", ![t].callback = FALSE]
       /\ net' = IF work[t].callback THEN [net EXCEPT ![t].posts = @ + 1] ELSE net
       /\ UNCHANGED <<task, pending_futures, current_worker_idx, engine,
                      trainerVars, faults, rollout_stat>>

WorkerStep(t) ==
    \/ ServeSubmit(t) \/ ServeFetch(t) \/ WorkerStarts(t) \/ ExecutionEnds(t)
    \/ WorkerPublishes(t)

-----------------------------------------------------------------------------
(* The trainer: pause, set_version and resume, each with its collective RPC. *)

RolloutStays ==
    UNCHANGED <<task, pending_futures, current_worker_idx, net, work, faults,
                rollout_stat>>

\* dispatcher.pause() comes before the RPC.
Pause ==
    /\ stage = "run" /\ version < MaxVersion
    /\ stage' = "pause" /\ left' = Workers
    /\ UNCHANGED <<engine, version>> /\ RolloutStays

\* What the method in progress does to a worker.
EngineAfter(w) ==
    CASE stage = "pause" -> [engine[w] EXCEPT !.paused = TRUE]
      [] stage = "set_version" -> [engine[w] EXCEPT !.version = version]
      [] stage = "resume" -> [engine[w] EXCEPT !.paused = FALSE]

CollectiveReaches(w) ==
    /\ w \in left
    /\ engine' = [engine EXCEPT ![w] = EngineAfter(w)]
    /\ left' = left \ {w}
    /\ UNCHANGED <<stage, version>> /\ RolloutStays

\* gather() has every answer.  The version is the new one before a worker is
\* told; dispatcher.resume() comes after the RPC.
CollectiveReturns ==
    /\ stage # "run" /\ left = {}
    /\ CASE stage = "pause" ->
              stage' = "set_version" /\ left' = Workers /\ version' = version + 1
         [] stage = "set_version" ->
              stage' = "resume" /\ left' = Workers /\ UNCHANGED version
         [] stage = "resume" ->
              stage' = "run" /\ UNCHANGED <<left, version>>
    /\ UNCHANGED engine /\ RolloutStays

TrainerStep == CollectiveReturns \/ \E w \in Workers : CollectiveReaches(w)

-----------------------------------------------------------------------------
Next ==
    \/ Pause \/ TrainerStep
    \/ \E t \in Tasks :
          \/ Dispatch(t) \/ CoroutineStep(t) \/ WorkerStep(t) \/ Callback(t)
          \/ TimesOut(t) \/ CallFails(t) \/ CallbackLost(t)

\* Threads and event loops go on and every workflow returns; no fault has to
\* happen, and the trainer is not bound to update.
Spec ==
    /\ Init /\ [][Next]_vars
    /\ WF_vars(TrainerStep)
    /\ \A t \in Tasks : /\ WF_vars(Dispatch(t)) /\ WF_vars(CoroutineStep(t))
                        /\ WF_vars(Callback(t)) /\ WF_vars(WorkerStep(t))

-----------------------------------------------------------------------------
(* Properties. *)

Replies == {"none", "ok", "error", "trajectory", "None"}

Outcomes == {"none", "trajectory", "None"}

Open == {t \in Tasks : task[t].pc \in {"submit", "wait", "fetch"}}

Coroutine == [pc : {"new", "submit", "wait", "fetch", "accepted", "rejected"},
              worker : Workers, attempt : 0..MaxRetries, reply : Replies,
              future : {"none", "created", "set"}]

Work == [queued : Nat, accepted : Nat, result : Outcomes,
         execution : Outcomes \cup {"running"}, active : BOOLEAN,
         callback : BOOLEAN]

\* Types, and the counters: each task is reported once, whichever of result,
\* timeout and failed call comes first.
TypeOK ==
    /\ task \in [Tasks -> Coroutine]
    /\ pending_futures \subseteq Tasks /\ current_worker_idx \in Workers
    /\ net \in [Tasks -> [calls : Nat, posts : Nat]]
    /\ work \in [Tasks -> Work]
    /\ engine \in [Workers -> [version : 0..MaxVersion, paused : BOOLEAN,
                                failed : BOOLEAN]]
    /\ stage \in {"run", "pause", "set_version", "resume"}
    /\ left \subseteq Workers /\ faults \in 0..MaxFaults
    /\ rollout_stat.running = Cardinality(Open)
    /\ rollout_stat.accepted + rollout_stat.rejected
          = Cardinality(Ended) + RecoveredVersion * BatchSize

\* A future waits in the dictionary only for a task that waits for it, and a
\* task that waits has its future there or on the way to being set.
FuturesAreAwaited ==
    /\ pending_futures \subseteq Open
    /\ \A t \in Tasks : task[t].pc = "wait" =>
          (t \in pending_futures <=> task[t].future = "created")

\* What a worker holds of a task against its own capacity, or will.
Held == [t \in Tasks |-> net[t].calls + work[t].queued + work[t].accepted
                           + (IF work[t].execution = "running" THEN 1 ELSE 0)]

\* What the workers hold against their own capacity, or will, exceeds what the
\* controller holds against its own by at most one sample for each message that
\* was lost and each task that was given up.
DriftBound ==
    MapThenSumSet(LAMBDA t : Held[t], Tasks)
        <= Cardinality({t \in Tasks : task[t].pc \notin {"new", "rejected"}})
             + faults

\* The trainer gets what the worker accepted and nothing else; without a fault it
\* gets all of it.
VerdictsAgree ==
    \A t \in Ended :
        /\ task[t].pc = "accepted" => work[t].accepted > 0
        /\ faults = 0 /\ task[t].pc = "rejected" => work[t].accepted = 0

\* As long as nothing is lost, each task ends without a timeout: no callback is
\* early or forgotten, and no worker's own capacity holds up what the controller
\* had capacity for.
EndsWithoutTimeout ==
    [](faults = 0) => \A t \in Tasks : task[t].pc = "submit" ~> t \in Ended
=============================================================================
