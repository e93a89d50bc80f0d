-------------------------- MODULE ControllerProofs --------------------------
(***************************************************************************)
(* The accounting of the controller, for any number of tasks, workers,     *)
(* retries, lost messages and timeouts.  Each conjunct of ControllerInv is *)
(* about the task by itself (TaskInv), so a step is looked at through the  *)
(* one task it moves.                                                      *)
(***************************************************************************)
EXTENDS RolloutController, FiniteSetTheorems, WellFoundedInduction, TLAPS

Net == [calls : Nat, posts : Nat]

Attempts == 0..MaxRetries

Tops == {"accepted", "rejected"}

TypeInv(t) == task[t] \in Coroutine /\ net[t] \in Net /\ work[t] \in Work

\* The future is in the dictionary from before the submit until it is set or the
\* task is given up.
FutureInv(t) ==
    /\ t \in pending_futures => task[t].pc \in {"submit", "wait"}
    /\ task[t].pc \in {"submit", "wait"} =>
          /\ task[t].future \in {"created", "set"}
          /\ t \in pending_futures <=> task[t].future = "created"

\* A trajectory is accepted by the worker before anybody else has it.
AcceptedInv(t) ==
    \/ work[t].execution = "trajectory" \/ work[t].result = "trajectory"
    \/ task[t].reply = "trajectory" \/ task[t].pc = "accepted"
    => work[t].accepted > 0

\* What the worker may have of a task that it has once, and that no fault has hit.
Nowhere(t) ==
    /\ work[t].queued = 0 /\ work[t].execution = "none"
    /\ work[t].result = "none" /\ net[t].posts = 0

Stored(t) ==
    /\ work[t].active /\ work[t].queued = 0 /\ work[t].execution = "none"
    /\ work[t].result \in {"trajectory", "None"}
    /\ work[t].result = "None" => work[t].accepted = 0

InProgress(t) ==
    /\ work[t].active /\ work[t].result = "none" /\ net[t].posts = 0
    /\ task[t].future # "set"
    /\ work[t].execution # "trajectory" => work[t].accepted = 0
    /\ \/ work[t].queued = 1 /\ work[t].execution = "none"
       \/ work[t].queued = 0 /\ work[t].execution # "none"

Served(t) ==
    \/ InProgress(t)
    \/ /\ Stored(t)
       /\ net[t].posts = 0 \/ (net[t].posts = 1 /\ task[t].future # "set")

\* Without a fault a task is sent once, carried out once and fetched once.
FaultlessInv(t) ==
    /\ net[t].calls = IF task[t].pc = "submit" /\ task[t].reply = "none" THEN 1 ELSE 0
    /\ task[t].pc \in {"new", "submit", "wait"} => task[t].reply \in {"none", "ok"}
    /\ task[t].pc = "new" \/ (task[t].pc = "submit" /\ task[t].reply = "none") =>
          Nowhere(t) /\ work[t].accepted = 0 /\ task[t].future # "set"
    /\ task[t].pc = "wait" \/ (task[t].pc = "submit" /\ task[t].reply = "ok") => Served(t)
    /\ task[t].pc = "fetch" =>
          \/ task[t].reply = "none" /\ Stored(t) /\ net[t].posts = 0
          \/ task[t].reply = "trajectory" /\ Nowhere(t)
          \/ task[t].reply = "None" /\ Nowhere(t) /\ work[t].accepted = 0
    /\ task[t].pc \in Tops => Nowhere(t)
    /\ task[t].pc = "rejected" => work[t].accepted = 0

TaskInv(t) ==
    /\ TypeInv(t) /\ FutureInv(t) /\ AcceptedInv(t)
    /\ faults = 0 => FaultlessInv(t)

\* What belongs to no task.
SharedInv ==
    /\ task = [t \in Tasks |-> task[t]] /\ net = [t \in Tasks |-> net[t]]
    /\ work = [t \in Tasks |-> work[t]]
    /\ pending_futures \subseteq Tasks /\ current_worker_idx \in Workers
    /\ engine \in [Workers -> [version : 0..MaxVersion, paused : BOOLEAN,
                                failed : BOOLEAN]]
    /\ stage \in {"run", "pause", "set_version", "resume"}
    /\ stage = "run" => left = {}
    /\ version \in 0..MaxVersion /\ (stage = "pause" => version < MaxVersion)
    /\ left \subseteq Workers /\ faults \in 0..MaxFaults
    /\ faults = 0 => \A w \in Workers : ~engine[w].failed

ControllerInv == SharedInv /\ \A t \in Tasks : TaskInv(t)

taskVars == <<task, pending_futures, current_worker_idx, net, work>>

\* Attempts and the round-robin index stay in their ranges.
LEMMA AttemptsAre ==
    /\ 0 \in Attempts /\ 1 \in Attempts /\ 0 \in Workers
    /\ \A n \in Attempts : n # MaxRetries => n + 1 \in Attempts
    /\ \A w \in Workers : (w + 1) % NumWorkers \in Workers
BY ControllerAssumption DEF Attempts, Workers

\* The coroutines are records of the type Coroutine.
LEMMA CoroutineIs ==
    Coroutine = [pc : {"new", "submit", "wait", "fetch", "accepted", "rejected"},
                 worker : Workers, attempt : Attempts, reply : Replies,
                 future : {"none", "created", "set"}]
BY DEF Coroutine, Attempts

\* What the steps of a coroutine make of it.
LEMMA CoroutineMoves ==
    ASSUME NEW c \in Coroutine
    PROVE  /\ [c EXCEPT !.pc = "wait"] \in Coroutine
           /\ [c EXCEPT !.pc = "fetch", !.attempt = 1, !.reply = "none"] \in Coroutine
           /\ \A how \in Tops : Finished(c, how) \in Coroutine
           /\ [c EXCEPT !.future = "set"] \in Coroutine
           /\ \A r \in Replies : [c EXCEPT !.reply = r] \in Coroutine
           /\ c.attempt # MaxRetries =>
                 [c EXCEPT !.attempt = @ + 1, !.reply = "none"] \in Coroutine
<1>1. c.attempt # MaxRetries => c.attempt + 1 \in Attempts
  BY CoroutineIs, AttemptsAre
<1>2. \A a \in Attempts : [c EXCEPT !.attempt = a, !.reply = "none"] \in Coroutine
  BY CoroutineIs DEF Replies
<1>3. [c EXCEPT !.pc = "fetch", !.attempt = 1, !.reply = "none"] \in Coroutine
  BY CoroutineIs, AttemptsAre DEF Replies
<1>4. \A how \in Tops : Finished(c, how) \in Coroutine
  BY CoroutineIs, AttemptsAre DEF Replies, Finished, Tops
<1>5. [c EXCEPT !.pc = "wait"] \in Coroutine /\ [c EXCEPT !.future = "set"] \in Coroutine
  BY CoroutineIs
<1>6. \A r \in Replies : [c EXCEPT !.reply = r] \in Coroutine
  BY CoroutineIs
<1> QED
  BY <1>1, <1>2, <1>3, <1>4, <1>5, <1>6

\* Nothing is dispatched at first.
LEMMA InitInv == Init => ControllerInv
<1> SUFFICES ASSUME Init PROVE ControllerInv
  OBVIOUS
<1>1. SharedInv
  BY ControllerAssumption, StalenessAssumption, AttemptsAre DEF Init, StatInit, SharedInv
<1>2. ASSUME NEW t \in Tasks PROVE TaskInv(t)
  <2>1. /\ task[t] = [pc |-> "new", worker |-> 0, attempt |-> 0, reply |-> "none",
                      future |-> "none"]
        /\ net[t] = [calls |-> 0, posts |-> 0] /\ t \notin pending_futures
        /\ work[t] = [queued |-> 0, execution |-> "none", accepted |-> 0, result |-> "none",
                      active |-> FALSE, callback |-> FALSE]
    BY DEF Init
  <2>2. task[t] \in Coroutine
    BY <2>1, CoroutineIs, AttemptsAre DEF Replies
  <2>3. net[t] \in Net /\ work[t] \in Work
    BY <2>1 DEF Net, Work, Outcomes
  <2> QED
    BY <2>1, <2>2, <2>3 DEF TaskInv, TypeInv, FutureInv, AcceptedInv, FaultlessInv, Nowhere,
       Tops
<1> QED
  BY <1>1, <1>2 DEF ControllerInv

\* A step of one task.
LEMMA OneTask ==
    ASSUME ControllerInv, SharedInv', NEW t \in Tasks, TaskInv(t)',
           \A u \in Tasks \ {t} : /\ task'[u] = task[u] /\ net'[u] = net[u]
                                  /\ work'[u] = work[u]
                                  /\ u \in pending_futures' <=> u \in pending_futures,
           faults' = 0 => faults = 0
    PROVE  ControllerInv'
<1>1. ASSUME NEW u \in Tasks \ {t} PROVE TaskInv(u)'
  <2>1. /\ task'[u] = task[u] /\ net'[u] = net[u] /\ work'[u] = work[u]
        /\ u \in pending_futures' <=> u \in pending_futures
        /\ TaskInv(u)
    BY DEF ControllerInv
  <2> QED
    BY <2>1 DEF TaskInv, TypeInv, FutureInv, AcceptedInv, FaultlessInv, Nowhere, Stored,
       InProgress, Served
<1> QED
  BY <1>1 DEF ControllerInv

\* A step that moves no task.
LEMMA NoTask ==
    ASSUME ControllerInv, SharedInv', UNCHANGED <<taskVars, faults>>
    PROVE  ControllerInv'
BY DEF taskVars, ControllerInv, TaskInv, TypeInv, FutureInv, AcceptedInv, FaultlessInv,
       Nowhere, Stored, InProgress, Served

TaskStep(t) ==
    \/ Dispatch(t) \/ CoroutineStep(t) \/ WorkerStep(t) \/ Callback(t)
    \/ TimesOut(t) \/ CallFails(t) \/ CallbackLost(t)

\* What a step of a task leaves of the rest, and that without a fault no worker fails.
LEMMA SharedKept ==
    ASSUME ControllerInv, NEW t \in Tasks, TaskStep(t)
    PROVE  /\ SharedInv'
           /\ faults' = 0 => faults = 0
           /\ \A u \in Tasks \ {t} : /\ task'[u] = task[u] /\ net'[u] = net[u]
                                     /\ work'[u] = work[u]
                                     /\ u \in pending_futures' <=> u \in pending_futures
<1> USE DEF ControllerInv, SharedInv
<1>1. CASE Dispatch(t)
  BY <1>1, AttemptsAre DEF Dispatch, trainerVars
<1>2. CASE CoroutineStep(t)
  BY <1>2 DEF CoroutineStep, Submitted, CalledBack, CallRaises, Fetched, GiveUp, trainerVars
<1>3. CASE TimesOut(t) \/ CallFails(t) \/ CallbackLost(t)
  <2>1. faults' \in 1..MaxFaults
    BY <1>3, ControllerAssumption DEF TimesOut, CallFails, CallbackLost, Fault
  <2> QED
    BY <1>3, <2>1 DEF TimesOut, CallFails, CallbackLost, GiveUp, trainerVars
<1>4. CASE Callback(t)
  BY <1>4 DEF Callback, trainerVars
<1>5. CASE ServeSubmit(t) \/ ServeFetch(t) \/ ExecutionEnds(t) \/ WorkerPublishes(t)
  BY <1>5 DEF ServeSubmit, ServeFetch, ExecutionEnds, WorkerPublishes, Answered, trainerVars
<1>6. CASE WorkerStarts(t)
  <2>1. faults = 0 => ~(work[t].queued > 0 /\ work[t].execution # "none")
    BY DEF TaskInv, TypeInv, Work, FaultlessInv, Nowhere, Stored, InProgress, Served, Tops,
       Coroutine
  <2>2. task[t].worker \in Workers
    BY DEF TaskInv, TypeInv, Coroutine
  <2>3. engine' \in [Workers -> [version : 0..MaxVersion, paused : BOOLEAN, failed : BOOLEAN]]
        /\ (faults = 0 => engine' = engine)
    <3>1. \/ engine' = engine
          \/ /\ engine' = [engine EXCEPT ![task[t].worker].failed = TRUE] /\ faults # 0
      BY <1>6, <2>1 DEF WorkerStarts
    <3> QED
      BY <2>2, <3>1
  <2> QED
    BY <1>6, <2>3 DEF WorkerStarts, trainerVars
<1> QED
  BY <1>1, <1>2, <1>3, <1>4, <1>5, <1>6 DEF TaskStep, WorkerStep

\* The coroutine gives up: the future goes with it, and the worker may have anything.
LEMMA GiveUpInv ==
    ASSUME ControllerInv, NEW t \in Tasks, GiveUp(t), UNCHANGED <<net, work>>,
           faults' = 0 => faults = 0 /\ FALSE
    PROVE  TaskInv(t)'
<1> DEFINE c == task[t]
<1>1. /\ task'[t] = Finished(c, "rejected") /\ t \notin pending_futures'
      /\ net' = net /\ work' = work /\ TaskInv(t)
  BY DEF GiveUp, ControllerInv, SharedInv
<1>2. Finished(c, "rejected") \in Coroutine
  BY <1>1, CoroutineMoves DEF TaskInv, TypeInv, Tops
<1>3. Finished(c, "rejected").pc = "rejected" /\ Finished(c, "rejected").reply = "none"
  BY <1>1 DEF TaskInv, TypeInv, Finished, Coroutine
<1> QED
  BY <1>1, <1>2, <1>3 DEF TaskInv, TypeInv, FutureInv, AcceptedInv

\* Each statement of a task's coroutine keeps what is known of the task.
LEMMA CoroutineInv ==
    ASSUME ControllerInv, NEW t \in Tasks, CoroutineStep(t)
    PROVE  TaskInv(t)'
<1> DEFINE c == task[t]
           d == task'[t]
<1>1. c \in Coroutine /\ TaskInv(t) /\ net' = net /\ work' = work /\ faults' = faults
  BY DEF ControllerInv, TaskInv, TypeInv, CoroutineStep, Submitted, CalledBack, CallRaises,
     Fetched, GiveUp
<1> USE DEF TaskInv, TypeInv
<1>2. CASE Submitted(t)
  <2>1. d = [c EXCEPT !.pc = "wait"] /\ pending_futures' = pending_futures
        /\ c.pc = "submit" /\ c.reply = "ok"
    BY <1>2 DEF Submitted, ControllerInv, SharedInv
  <2>2. d \in Coroutine /\ d.pc = "wait" /\ d.reply = c.reply /\ d.future = c.future
    <3>1. d \in Coroutine
      BY <1>1, <2>1, CoroutineMoves
    <3>2. d.pc = "wait" /\ d.reply = c.reply /\ d.future = c.future
      BY <1>1, <2>1 DEF Coroutine
    <3> QED
      BY <3>1, <3>2
  <2> HIDE DEF c, d
  <2> QED
    BY <1>1, <2>1, <2>2 DEF FutureInv, AcceptedInv, FaultlessInv, Nowhere, Stored,
       InProgress, Served, Tops, c, d
<1>3. CASE CalledBack(t)
  <2>1. d = [c EXCEPT !.pc = "fetch", !.attempt = 1, !.reply = "none"]
        /\ pending_futures' = pending_futures /\ c.pc = "wait" /\ c.future = "set"
    BY <1>3 DEF CalledBack, ControllerInv, SharedInv
  <2>2. d \in Coroutine /\ d.pc = "fetch" /\ d.reply = "none" /\ d.future = c.future
    <3>1. d \in Coroutine
      BY <1>1, <2>1, CoroutineMoves
    <3>2. d.pc = "fetch" /\ d.reply = "none" /\ d.future = c.future
      BY <1>1, <2>1 DEF Coroutine
    <3> QED
      BY <3>1, <3>2
  <2> QED
    BY <1>1, <2>1, <2>2 DEF FutureInv, AcceptedInv, FaultlessInv, Nowhere, Stored,
       InProgress, Served, Tops
<1>4. CASE CallRaises(t)
  <2>1. faults # 0
    BY <1>1, <1>4 DEF CallRaises, FaultlessInv
  <2> QED
    BY <1>1, <1>4, <2>1, GiveUpInv DEF CallRaises
<1>5. CASE Fetched(t)
  <2>1. PICK how \in Tops : /\ d = Finished(c, how) /\ c.pc = "fetch"
                            /\ how = "accepted" => c.reply = "trajectory"
                            /\ how = "rejected" => c.reply = "None"
                            /\ pending_futures' = pending_futures
    BY <1>5 DEF Fetched, Tops, ControllerInv, SharedInv
  <2>2. d \in Coroutine /\ d.pc = how /\ d.reply = "none"
    <3>1. d \in Coroutine
      BY <1>1, <2>1, CoroutineMoves
    <3>2. d.pc = how /\ d.reply = "none"
      BY <1>1, <2>1 DEF Finished, Coroutine
    <3> QED
      BY <3>1, <3>2
  <2> QED
    BY <1>1, <2>1, <2>2 DEF FutureInv, AcceptedInv, FaultlessInv, Nowhere, Stored,
       InProgress, Served, Tops
<1> QED
  BY <1>2, <1>3, <1>4, <1>5 DEF CoroutineStep

\* A task that is dispatched begins without a future and without work.
LEMMA DispatchInv ==
    ASSUME ControllerInv, NEW t \in Tasks, Dispatch(t)
    PROVE  TaskInv(t)'
<1> DEFINE d == [pc |-> "submit", attempt |-> 1, worker |-> current_worker_idx,
                 reply |-> "none", future |-> "created"]
<1>1. /\ task'[t] = d /\ net' = [net EXCEPT ![t].calls = 1] /\ work' = work
      /\ faults' = faults /\ t \in pending_futures' /\ task[t].pc = "new" /\ TaskInv(t)
  BY DEF Dispatch, ControllerInv, SharedInv
<1>2. current_worker_idx \in Workers
  BY DEF ControllerInv, SharedInv
<1>3. d \in Coroutine
  BY <1>2, CoroutineIs, AttemptsAre DEF Replies
<1>4. net'[t] = [net[t] EXCEPT !.calls = 1]
  BY <1>1 DEF ControllerInv, SharedInv
<1>5. net'[t] \in Net /\ net'[t].calls = 1 /\ net'[t].posts = net[t].posts
  BY <1>1, <1>4 DEF TaskInv, TypeInv, Net
<1>6. /\ d.pc = "submit" /\ d.reply = "none" /\ d.future = "created"
  OBVIOUS
<1> HIDE DEF d
<1> QED
  BY <1>1, <1>3, <1>5, <1>6 DEF TaskInv, TypeInv, FutureInv, AcceptedInv, FaultlessInv,
     Nowhere, Tops

\* Timeouts, failed calls and lost callbacks only give a task up or leave it unanswered.
LEMMA FaultInv ==
    ASSUME ControllerInv, NEW t \in Tasks, TimesOut(t) \/ CallFails(t) \/ CallbackLost(t)
    PROVE  TaskInv(t)'
<1> DEFINE c == task[t]
           d == task'[t]
           n == net'[t]
<1>1. faults' # 0 /\ TaskInv(t) /\ c \in Coroutine /\ net[t] \in Net
  BY DEF TimesOut, CallFails, CallbackLost, Fault, ControllerInv, SharedInv, TaskInv, TypeInv
<1>2. CASE TimesOut(t)
  BY <1>1, <1>2, GiveUpInv DEF TimesOut, trainerVars, GiveUp
<1>3. CASE CallFails(t)
  <2>1. /\ c.pc \in {"submit", "fetch"} /\ work' = work /\ pending_futures' = pending_futures
        /\ \/ d = [c EXCEPT !.reply = "error"]
           \/ c.attempt # MaxRetries /\ d = [c EXCEPT !.attempt = @ + 1, !.reply = "none"]
        /\ n = net[t] \/ n = [net[t] EXCEPT !.calls = @ + 1]
    BY <1>3 DEF CallFails, ControllerInv, SharedInv
  <2>2. d \in Coroutine
    BY <1>1, <2>1, CoroutineMoves DEF Replies
  <2>3. d.pc = c.pc /\ d.future = c.future /\ d.reply # "trajectory"
    BY <1>1, <2>1 DEF Coroutine
  <2>4. n \in Net
    BY <1>1, <2>1 DEF Net
  <2> HIDE DEF c, d, n
  <2> QED
    BY <1>1, <2>1, <2>2, <2>3, <2>4 DEF TaskInv, TypeInv, FutureInv, AcceptedInv, c, d, n
<1>4. CASE CallbackLost(t)
  <2>1. /\ task' = task /\ work' = work /\ pending_futures' = pending_futures
        /\ n = [net[t] EXCEPT !.posts = @ - 1] /\ net[t].posts > 0
    BY <1>4 DEF CallbackLost, ControllerInv, SharedInv
  <2>2. n \in Net
    BY <1>1, <2>1 DEF Net
  <2> QED
    BY <1>1, <2>1, <2>2 DEF TaskInv, TypeInv, FutureInv, AcceptedInv
<1> QED
  BY <1>2, <1>3, <1>4

\* The callback finds the future, or the task has been given up.
LEMMA CallbackInv ==
    ASSUME ControllerInv, NEW t \in Tasks, Callback(t)
    PROVE  TaskInv(t)'
<1> DEFINE c == task[t]
           d == task'[t]
           n == net'[t]
<1>1. TaskInv(t) /\ c \in Coroutine /\ net[t] \in Net /\ faults' = faults
  BY DEF Callback, ControllerInv, TaskInv, TypeInv
<1>2. /\ n = [net[t] EXCEPT !.posts = @ - 1] /\ net[t].posts > 0 /\ work' = work
      /\ t \notin pending_futures'
      /\ IF t \in pending_futures THEN d = [c EXCEPT !.future = "set"] ELSE d = c
  BY DEF Callback, ControllerInv, SharedInv
<1>3. n \in Net /\ n.calls = net[t].calls /\ n.posts = net[t].posts - 1
  BY <1>1, <1>2 DEF Net
<1>4. d \in Coroutine
  BY <1>1, <1>2, CoroutineMoves
<1>5. /\ d.pc = c.pc /\ d.reply = c.reply
      /\ d.future = IF t \in pending_futures THEN "set" ELSE c.future
  BY <1>1, <1>2 DEF Coroutine
<1>6. net[t].posts \in Nat
  BY <1>1 DEF Net
<1> HIDE DEF c, d, n
<1> QED
  BY <1>1, <1>2, <1>3, <1>4, <1>5, <1>6 DEF TaskInv, TypeInv, FutureInv, AcceptedInv, FaultlessInv,
     Nowhere, Stored, InProgress, Served, Tops, c, d, n

\* A worker answers what it is asked.
LEMMA ServeInv ==
    ASSUME ControllerInv, NEW t \in Tasks, ServeSubmit(t) \/ ServeFetch(t)
    PROVE  TaskInv(t)'
<1> DEFINE c == task[t]
           d == task'[t]
           n == net'[t]
           k == work[t]
           l == work'[t]
<1>1. TaskInv(t) /\ c \in Coroutine /\ net[t] \in Net /\ k \in Work /\ faults' = faults
      /\ pending_futures' = pending_futures
  BY DEF ServeSubmit, ServeFetch, ControllerInv, TaskInv, TypeInv
<1>2. ASSUME faults = 0 PROVE ~engine[c.worker].failed
  BY <1>1, <1>2 DEF ControllerInv, SharedInv, Coroutine
<1>3. CASE ServeSubmit(t)
  <2> DEFINE Expected == ~(net[t].calls > 1 \/ c.pc # "submit" \/ c.reply # "none")
             answer == IF engine[c.worker].failed THEN "error" ELSE "ok"
  <2>1. /\ n = [net[t] EXCEPT !.calls = @ - 1] /\ net[t].calls > 0
        /\ \/ engine[c.worker].failed /\ l = [k EXCEPT !.callback = TRUE]
           \/ ~engine[c.worker].failed
              /\ l = [k EXCEPT !.callback = TRUE, !.active = TRUE, !.queued = @ + 1]
        /\ d = IF Expected THEN [c EXCEPT !.reply = answer] ELSE c
    BY <1>3 DEF ServeSubmit, Answered, ControllerInv, SharedInv
  <2>2. n \in Net /\ n.calls = net[t].calls - 1 /\ n.posts = net[t].posts
    BY <1>1, <2>1 DEF Net
  <2>3. l \in Work
    <3>1. k.queued + 1 \in Nat /\ TRUE \in BOOLEAN
      BY <1>1 DEF Work
    <3>2. [k EXCEPT !.callback = TRUE] \in Work
      BY <1>1 DEF Work
    <3>3. \A q \in Nat : [k EXCEPT !.callback = TRUE, !.active = TRUE, !.queued = q] \in Work
      BY <1>1 DEF Work
    <3> QED
      BY <2>1, <3>1, <3>2, <3>3
  <2>4. /\ l.execution = k.execution /\ l.result = k.result /\ l.accepted = k.accepted
        /\ ~engine[c.worker].failed => l.active /\ l.queued = k.queued + 1
    BY <1>1, <2>1 DEF Work
  <2>5. d \in Coroutine
    <3>1. answer \in Replies
      BY DEF Replies
    <3> HIDE DEF answer
    <3>2. [c EXCEPT !.reply = answer] \in Coroutine
      BY <1>1, <3>1, CoroutineMoves
    <3> QED
      BY <1>1, <2>1, <3>2
  <2>6. /\ d.pc = c.pc /\ d.future = c.future
        /\ d.reply = c.reply \/ (d.reply \in {"ok", "error"} /\ c.pc = "submit")
        /\ ~engine[c.worker].failed /\ c.pc = "submit" /\ c.reply = "none"
              /\ net[t].calls = 1 => d.reply = "ok"
    BY <1>1, <2>1 DEF Coroutine
  <2>7. net[t].calls \in Nat /\ k.queued \in Nat
    BY <1>1 DEF Net, Work
  <2> HIDE DEF c, d, n, k, l
  <2>8. FutureInv(t)' /\ AcceptedInv(t)'
    BY <1>1, <2>4, <2>6 DEF TaskInv, FutureInv, AcceptedInv, c, d, n, k, l
  <2>9. ASSUME faults = 0 PROVE FaultlessInv(t)'
    <3>1. c.pc = "submit" /\ c.reply = "none" /\ net[t].calls = 1
          /\ net[t].posts = 0 /\ k.queued = 0 /\ k.execution = "none" /\ k.result = "none"
          /\ k.accepted = 0 /\ c.future # "set"
      BY <1>1, <2>1, <2>9 DEF TaskInv, FaultlessInv, Nowhere, FutureInv, c, k
    <3>2. d.pc = "submit" /\ d.reply = "ok" /\ n.calls = 0 /\ n.posts = 0
      BY <1>2, <2>2, <2>6, <2>9, <3>1
    <3>3. l.queued = 1 /\ l.active
      BY <1>2, <2>4, <2>9, <3>1
    <3> QED
      BY <2>4, <2>6, <3>1, <3>2, <3>3 DEF FaultlessInv, Served, InProgress, Tops, c, d, n, k, l
  <2> QED
    BY <1>1, <2>2, <2>3, <2>5, <2>8, <2>9 DEF TaskInv, TypeInv, d, n, l
<1>4. CASE ServeFetch(t)
  <2>1. /\ c.pc = "fetch" /\ c.reply = "none" /\ net' = net
        /\ d = [c EXCEPT !.reply = FetchReply(t)]
        /\ l = IF k.active /\ k.result # "none"
               THEN [k EXCEPT !.result = "none", !.active = FALSE] ELSE k
    BY <1>4 DEF ServeFetch, ControllerInv, SharedInv
  <2>2. FetchReply(t) \in Replies
    BY <1>1 DEF FetchReply, Work, Outcomes, Replies
  <2>3. d \in Coroutine
    BY <1>1, <2>1, <2>2, CoroutineMoves
  <2>4. d.pc = "fetch" /\ d.reply = FetchReply(t) /\ d.future = c.future
    BY <1>1, <2>1 DEF Coroutine
  <2>5. l \in Work
    BY <1>1, <2>1 DEF Work, Outcomes
  <2>6. /\ l.execution = k.execution /\ l.accepted = k.accepted /\ l.queued = k.queued
        /\ l.result = IF k.active THEN "none" ELSE k.result
    BY <1>1, <2>1 DEF Work
  <2>7. FetchReply(t) = "trajectory" => k.result = "trajectory"
    BY DEF FetchReply
  <2>8. k.active /\ k.result # "none" => FetchReply(t) = k.result
    BY DEF FetchReply
  <2> HIDE DEF c, d, n, k, l
  <2>9. FutureInv(t)' /\ AcceptedInv(t)'
    BY <1>1, <2>1, <2>4, <2>6, <2>7 DEF TaskInv, FutureInv, AcceptedInv, c, d, n, k, l
  <2>10. ASSUME faults = 0 PROVE FaultlessInv(t)'
    <3>1. Stored(t) /\ net[t].posts = 0 /\ net[t].calls = 0
      BY <1>1, <2>1, <2>10 DEF TaskInv, FaultlessInv, c
    <3>2. d.reply = k.result /\ k.result \in {"trajectory", "None"}
      BY <2>4, <2>8, <3>1 DEF Stored, k
    <3> QED
      BY <2>1, <2>4, <2>6, <3>1, <3>2 DEF FaultlessInv, Nowhere, Stored, Tops, c, d, n, k, l
  <2> QED
    BY <1>1, <2>1, <2>3, <2>5, <2>9, <2>10 DEF TaskInv, TypeInv, d, n, l
<1> QED
  BY <1>3, <1>4

\* A worker starts a rollout, ends it, and publishes it with its callback.
LEMMA WorkerInv ==
    ASSUME ControllerInv, NEW t \in Tasks,
           WorkerStarts(t) \/ ExecutionEnds(t) \/ WorkerPublishes(t)
    PROVE  TaskInv(t)'
<1> DEFINE n == net'[t]
           k == work[t]
           l == work'[t]
<1>1. /\ TaskInv(t) /\ net[t] \in Net /\ k \in Work /\ faults' = faults
      /\ pending_futures' = pending_futures /\ task' = task
      /\ k.queued \in Nat /\ k.accepted \in Nat /\ net[t].posts \in Nat
  BY DEF WorkerStarts, ExecutionEnds, WorkerPublishes, ControllerInv, TaskInv, TypeInv, Work,
     Net
<1>2. CASE WorkerStarts(t)
  <2>1. /\ net' = net /\ k.queued > 0
        /\ \/ k.execution = "none" /\ l = [k EXCEPT !.queued = @ - 1, !.execution = "running"]
           \/ k.execution # "none" /\ l = [k EXCEPT !.queued = @ - 1]
    BY <1>2 DEF WorkerStarts, ControllerInv, SharedInv
  <2>2. /\ l.queued = k.queued - 1 /\ l.accepted = k.accepted /\ l.result = k.result
        /\ l.execution = IF k.execution = "none" THEN "running" ELSE k.execution
        /\ l.active = k.active
    BY <1>1, <2>1 DEF Work
  <2>3. l \in Work
    <3>1. k.queued - 1 \in Nat
      BY <1>1, <2>1
    <3>2. \A q \in Nat : /\ [k EXCEPT !.queued = q, !.execution = "running"] \in Work
                         /\ [k EXCEPT !.queued = q] \in Work
      BY <1>1 DEF Work
    <3> QED
      BY <2>1, <3>1, <3>2
  <2> HIDE DEF k, l
  <2>4. FutureInv(t)' /\ AcceptedInv(t)'
    BY <1>1, <2>2 DEF TaskInv, FutureInv, AcceptedInv, k, l
  <2>5. ASSUME faults = 0 PROVE FaultlessInv(t)'
    <3>1. InProgress(t)
      BY <1>1, <2>1, <2>5 DEF TaskInv, TypeInv, Coroutine, FaultlessInv, Nowhere, Stored, Served,
         Tops, k
    <3>2. InProgress(t)'
      BY <1>1, <2>1, <2>2, <3>1 DEF InProgress, k, l
    <3> QED
      BY <1>1, <2>1, <2>5, <3>2 DEF TaskInv, FaultlessInv, Served, Nowhere, Stored, Tops, k, l
  <2> QED
    BY <1>1, <2>1, <2>3, <2>4, <2>5 DEF TaskInv, TypeInv, l
<1>3. CASE ExecutionEnds(t)
  <2>1. /\ net' = net /\ k.execution = "running"
        /\ \/ l = [k EXCEPT !.execution = "trajectory", !.accepted = @ + 1]
           \/ l = [k EXCEPT !.execution = "None"]
    BY <1>3 DEF ExecutionEnds, ControllerInv, SharedInv
  <2>2. /\ l.queued = k.queued /\ l.result = k.result /\ l.active = k.active
        /\ \/ l.execution = "trajectory" /\ l.accepted = k.accepted + 1
           \/ l.execution = "None" /\ l.accepted = k.accepted
    BY <1>1, <2>1 DEF Work
  <2>3. l \in Work
    <3>1. k.accepted + 1 \in Nat
      BY <1>1
    <3>2. \A a \in Nat : [k EXCEPT !.execution = "trajectory", !.accepted = a] \in Work
      BY <1>1 DEF Work, Outcomes
    <3>3. [k EXCEPT !.execution = "None"] \in Work
      BY <1>1 DEF Work, Outcomes
    <3> QED
      BY <2>1, <3>1, <3>2, <3>3
  <2> HIDE DEF k, l
  <2>4. FutureInv(t)' /\ AcceptedInv(t)'
    BY <1>1, <2>2 DEF TaskInv, FutureInv, AcceptedInv, k, l
  <2>5. ASSUME faults = 0 PROVE FaultlessInv(t)'
    <3>1. InProgress(t) /\ InProgress(t)'
      BY <1>1, <2>1, <2>2, <2>5 DEF TaskInv, TypeInv, Coroutine, FaultlessInv, Nowhere, Stored,
         Served, InProgress, Tops, k, l
    <3> QED
      BY <1>1, <2>1, <2>5, <3>1 DEF TaskInv, FaultlessInv, Served, Nowhere, Stored, Tops, k
  <2> QED
    BY <1>1, <2>1, <2>3, <2>4, <2>5 DEF TaskInv, TypeInv, l
<1>4. CASE WorkerPublishes(t)
  <2>1. /\ k.execution \in {"trajectory", "None"}
        /\ l = [k EXCEPT !.result = k.execution, !.execution = "none", !.callback = FALSE]
        /\ n = IF k.callback THEN [net[t] EXCEPT !.posts = @ + 1] ELSE net[t]
    BY <1>4 DEF WorkerPublishes, ControllerInv, SharedInv
  <2>2. /\ l.queued = k.queued /\ l.accepted = k.accepted /\ l.active = k.active
        /\ l.result = k.execution /\ l.execution = "none"
    BY <1>1, <2>1 DEF Work
  <2>3. l \in Work
    BY <1>1, <2>1 DEF Work, Outcomes
  <2>4. n \in Net /\ n.calls = net[t].calls /\ n.posts \in {net[t].posts, net[t].posts + 1}
    BY <1>1, <2>1 DEF Net
  <2> HIDE DEF k, l, n
  <2>5. FutureInv(t)' /\ AcceptedInv(t)'
    BY <1>1, <2>1, <2>2 DEF TaskInv, FutureInv, AcceptedInv, k, l
  <2>6. ASSUME faults = 0 PROVE FaultlessInv(t)'
    <3>1. InProgress(t)
      BY <1>1, <2>1, <2>6 DEF TaskInv, TypeInv, Coroutine, FaultlessInv, Nowhere, Stored,
         Served, Tops, k
    <3>2. Stored(t)' /\ n.posts \in {0, 1} /\ task[t].future # "set"
      BY <1>1, <2>1, <2>2, <2>4, <3>1 DEF InProgress, Stored, k, l
    <3>3. Served(t)'
      BY <1>1, <3>2 DEF Served, n
    <3> QED
      BY <1>1, <2>1, <2>4, <2>6, <3>1, <3>3 DEF TaskInv, FaultlessInv, Nowhere, Stored, Tops,
         k, n
  <2> QED
    BY <1>1, <2>3, <2>4, <2>5, <2>6 DEF TaskInv, TypeInv, l, n
<1> QED
  BY <1>2, <1>3, <1>4

-----------------------------------------------------------------------------
(* The counters of the StalenessManager. *)

CountInv ==
    /\ rollout_stat \in StatType
    /\ rollout_stat.running = Cardinality(Open)
    /\ rollout_stat.accepted + rollout_stat.rejected
          = Cardinality(Ended) + RecoveredVersion * BatchSize

\* A constant of the sum.
LEMMA RecoveredTyped == RecoveredVersion * BatchSize \in Nat
BY StalenessAssumption DEF BatchSize, AtLeastOne

\* The sets of tasks that are counted are finite.
LEMMA SetsFinite ==
    /\ IsFiniteSet(Open) /\ IsFiniteSet(Ended)
    /\ Cardinality(Open) \in Nat /\ Cardinality(Ended) \in Nat
<1>1. IsFiniteSet(Tasks) /\ Open \subseteq Tasks /\ Ended \subseteq Tasks
  BY ControllerAssumption DEF Open, Ended
<1> QED
  BY <1>1, FS_Subset, FS_CardinalityType

\* At first the counters hold the recovered versions' samples only.
LEMMA InitCount == Init => CountInv
<1> SUFFICES ASSUME Init PROVE CountInv
  OBVIOUS
<1> DEFINE before == RecoveredVersion * BatchSize
<1>1. Open = {} /\ Ended = {}
  BY DEF Init, Open, Ended
<1>2. rollout_stat = [enqueued |-> 0, running |-> 0, rejected |-> 0, accepted |-> before]
  BY DEF Init, StatInit
<1>3. before \in Nat
  BY RecoveredTyped
<1> HIDE DEF before
<1>4. rollout_stat \in StatType
  BY <1>2, <1>3 DEF StatType
<1> QED
  BY <1>1, <1>2, <1>3, <1>4, FS_EmptySet DEF CountInv, before

\* One counter goes down and another one up.
LEMMA StatMoves ==
    ASSUME NEW s \in StatType
    PROVE  /\ [s EXCEPT !.running = @ + 1] \in StatType
           /\ [s EXCEPT !.running = @ - 1, !.accepted = @ + 1] \in StatType
           /\ [s EXCEPT !.running = @ - 1, !.rejected = @ + 1] \in StatType
<1>1. /\ s.running + 1 \in Int /\ s.running - 1 \in Int
      /\ s.accepted + 1 \in Int /\ s.rejected + 1 \in Int
  BY DEF StatType
<1>2. \A x \in Int, y \in Int : /\ [s EXCEPT !.running = x] \in StatType
                               /\ [s EXCEPT !.running = x, !.accepted = y] \in StatType
                               /\ [s EXCEPT !.running = x, !.rejected = y] \in StatType
  BY DEF StatType
<1> QED
  BY <1>1, <1>2

\* A task that ends is counted once.
LEMMA EndCount ==
    ASSUME ControllerInv, CountInv, NEW t \in Tasks, NEW how \in Tops,
           task[t].pc \in {"submit", "wait", "fetch"},
           task' = [task EXCEPT ![t] = Finished(@, how)],
           OnRolloutAccepted \/ OnRolloutRejected
    PROVE  CountInv'
<1> DEFINE before == RecoveredVersion * BatchSize
<1>1. task'[t].pc = how /\ \A u \in Tasks \ {t} : task'[u] = task[u]
  BY DEF ControllerInv, SharedInv, TaskInv, TypeInv, Finished, Coroutine
<1>2. /\ t \in Open /\ Open' = Open \ {t}
      /\ t \notin Ended /\ Ended' = Ended \cup {t}
  BY <1>1 DEF Open, Ended, Tops
<1>3. /\ Cardinality(Open') = Cardinality(Open) - 1
      /\ Cardinality(Ended') = Cardinality(Ended) + 1
  BY <1>2, SetsFinite, FS_RemoveElement, FS_AddElement
<1>4. rollout_stat \in StatType
  BY DEF CountInv
<1>5. rollout_stat' \in StatType
  BY <1>4, StatMoves DEF OnRolloutAccepted, OnRolloutRejected
<1>6. /\ rollout_stat'.running = rollout_stat.running - 1
      /\ \/ /\ rollout_stat'.accepted = rollout_stat.accepted + 1
            /\ rollout_stat'.rejected = rollout_stat.rejected
         \/ /\ rollout_stat'.accepted = rollout_stat.accepted
            /\ rollout_stat'.rejected = rollout_stat.rejected + 1
  BY <1>4 DEF OnRolloutAccepted, OnRolloutRejected, StatType
<1>7. /\ rollout_stat.running \in Int /\ rollout_stat.accepted \in Int
      /\ rollout_stat.rejected \in Int /\ before \in Nat
  BY <1>4, RecoveredTyped DEF StatType
<1>8. /\ rollout_stat.running = Cardinality(Open)
      /\ rollout_stat.accepted + rollout_stat.rejected = Cardinality(Ended) + before
  BY DEF CountInv
<1>9. before' = before
  OBVIOUS
<1> HIDE DEF before
<1>10. /\ rollout_stat'.running = Cardinality(Open')
       /\ rollout_stat'.accepted + rollout_stat'.rejected = Cardinality(Ended') + before
  BY <1>3, <1>6, <1>7, <1>8, SetsFinite
<1> QED
  BY <1>5, <1>10 DEF CountInv, before

\* A task that is dispatched is counted at once.
LEMMA DispatchCount ==
    ASSUME ControllerInv, CountInv, NEW t \in Tasks, Dispatch(t)
    PROVE  CountInv'
<1>1. /\ task[t].pc = "new" /\ task'[t].pc = "submit"
      /\ \A u \in Tasks \ {t} : task'[u] = task[u]
      /\ rollout_stat' = [rollout_stat EXCEPT !.running = @ + 1]
  BY DEF Dispatch, ControllerInv, SharedInv
<1>2. t \notin Open /\ Open' = Open \cup {t} /\ Ended' = Ended
  BY <1>1 DEF Open, Ended
<1>3. Cardinality(Open') = Cardinality(Open) + 1
  BY <1>2, SetsFinite, FS_AddElement
<1>4. rollout_stat \in StatType /\ rollout_stat' \in StatType
  BY <1>1, StatMoves DEF CountInv
<1>5. /\ rollout_stat'.running = rollout_stat.running + 1
      /\ rollout_stat'.accepted = rollout_stat.accepted
      /\ rollout_stat'.rejected = rollout_stat.rejected
  BY <1>1, <1>4 DEF StatType
<1> QED
  BY <1>2, <1>3, <1>4, <1>5 DEF CountInv

\* The other steps neither begin nor end a task.
LEMMA SameCount ==
    ASSUME CountInv, rollout_stat' = rollout_stat,
           \A u \in Tasks : task'[u].pc = task[u].pc \/ {task[u].pc, task'[u].pc}
                                 \subseteq {"submit", "wait", "fetch"}
    PROVE  CountInv'
<1>1. Open' = Open /\ Ended' = Ended
  BY DEF Open, Ended
<1> QED
  BY <1>1 DEF CountInv

\* Every step of a task keeps the counters equal to the sets.
LEMMA TaskCount ==
    ASSUME ControllerInv, CountInv, NEW t \in Tasks, TaskStep(t)
    PROVE  CountInv'
<1>1. CASE Dispatch(t)
  BY <1>1, DispatchCount
<1>2. CASE TimesOut(t) \/ CallRaises(t)
  <2>1. /\ task[t].pc \in {"submit", "wait", "fetch"} /\ OnRolloutRejected
        /\ task' = [task EXCEPT ![t] = Finished(@, "rejected")]
    BY <1>2 DEF TimesOut, CallRaises, GiveUp
  <2> QED
    BY <2>1, EndCount DEF Tops
<1>3. CASE Fetched(t)
  <2>1. PICK how \in Tops : /\ task' = [task EXCEPT ![t] = Finished(@, how)]
                            /\ task[t].pc = "fetch"
                            /\ OnRolloutAccepted \/ OnRolloutRejected
    BY <1>3 DEF Fetched, Tops
  <2> QED
    BY <2>1, EndCount
<1>4. CASE \/ Submitted(t) \/ CalledBack(t) \/ Callback(t) \/ CallFails(t) \/ CallbackLost(t)
           \/ WorkerStep(t)
  <2>1. rollout_stat' = rollout_stat
    BY <1>4 DEF Submitted, CalledBack, Callback, CallFails, CallbackLost, WorkerStep,
       ServeSubmit, ServeFetch, WorkerStarts, ExecutionEnds, WorkerPublishes
  <2>2. \A u \in Tasks \ {t} : task'[u] = task[u]
    BY SharedKept
  <2>3. task[t] \in Coroutine
    BY DEF ControllerInv, TaskInv, TypeInv
  <2>4. task'[t].pc = task[t].pc \/ {task[t].pc, task'[t].pc} \subseteq {"submit", "wait", "fetch"}
    <3>1. CASE Submitted(t)
      BY <2>3, <3>1 DEF Submitted, Coroutine, ControllerInv, SharedInv
    <3>2. CASE CalledBack(t)
      BY <2>3, <3>2 DEF CalledBack, Coroutine, ControllerInv, SharedInv
    <3>3. CASE Callback(t) \/ CallFails(t) \/ CallbackLost(t)
      BY <2>3, <3>3 DEF Callback, CallFails, CallbackLost, Coroutine, ControllerInv, SharedInv
    <3>4. CASE WorkerStep(t)
      BY <2>3, <3>4 DEF WorkerStep, ServeSubmit, ServeFetch, Answered, WorkerStarts,
         ExecutionEnds, WorkerPublishes, Coroutine, ControllerInv, SharedInv
    <3> QED
      BY <1>4, <3>1, <3>2, <3>3, <3>4
  <2> QED
    BY <2>1, <2>2, <2>4, SameCount
<1> QED
  BY <1>1, <1>2, <1>3, <1>4 DEF TaskStep, CoroutineStep

-----------------------------------------------------------------------------
(* Sums over a finite set of tasks.  MapThenSumSet is a fold that takes an  *)
(* arbitrary element at a time; two sums over the same set take the same.   *)

\* The sum of h over S.
Sum(h, S) == MapThenSumSet(LAMBDA x : h[x], S)

Pick(s) == CHOOSE x \in s : TRUE

\* The equation of the fold.
Sums(g, h, S) ==
    g = [s \in SUBSET S |-> IF s = {} THEN 0 ELSE h[Pick(s)] + g[s \ {Pick(s)}]]

Small(S, n) == {s \in SUBSET S : Cardinality(s) <= n}

SmallSums(g, h, S, n) ==
    /\ g \in [Small(S, n) -> Int]
    /\ \A s \in Small(S, n) :
          g[s] = IF s = {} THEN 0 ELSE h[Pick(s)] + g[s \ {Pick(s)}]

\* MapThenSumSet is the value of its fold at the whole set.
LEMMA SumIs ==
    ASSUME NEW h, NEW S
    PROVE  Sum(h, S) = (CHOOSE g : Sums(g, h, S))[S]
BY DEF Sum, MapThenSumSet, MapThenFoldSet, Sums, Pick

\* Without the element that is taken the set is smaller by one.
LEMMA PickFrom ==
    ASSUME NEW S, IsFiniteSet(S), NEW s \in SUBSET S, s # {}
    PROVE  /\ Pick(s) \in s /\ s \ {Pick(s)} \in SUBSET S
           /\ IsFiniteSet(s) /\ Cardinality(s) \in Nat \ {0}
           /\ Cardinality(s \ {Pick(s)}) = Cardinality(s) - 1
<1>1. Pick(s) \in s
  BY DEF Pick
<1>2. IsFiniteSet(s)
  BY FS_Subset
<1>3. Cardinality(s \ {Pick(s)}) = Cardinality(s) - 1
  BY <1>1, <1>2, FS_RemoveElement
<1>4. Cardinality(s) \in Nat /\ Cardinality(s) # 0
  BY <1>1, <1>2, FS_CardinalityType, FS_EmptySet
<1> QED
  BY <1>1, <1>2, <1>3, <1>4

\* The equation of the fold has a solution for the sets up to any size: a solution
\* for size m - 1 is extended by one element.
LEMMA SmallSumsExist ==
    ASSUME NEW S, IsFiniteSet(S), NEW h \in [S -> Int], NEW n \in Nat
    PROVE  \E g : SmallSums(g, h, S, n)
<1> DEFINE Bad == {m \in Nat : ~\E g : SmallSums(g, h, S, m)}
<1>1. SUFFICES ASSUME Bad # {} PROVE FALSE
  OBVIOUS
<1>2. PICK m \in Bad : \A k \in Bad : ~(<<k, m>> \in OpToRel(<, Nat))
  BY <1>1, NatLessThanWellFounded, WFMin
<1>3. \A k \in Nat : k < m => k \notin Bad
  BY <1>2 DEF OpToRel
<1>4. CASE m = 0
  <2> DEFINE g == [s \in Small(S, 0) |-> 0]
  <2>1. ASSUME NEW s \in Small(S, 0), s # {} PROVE FALSE
    <3>1. s \in SUBSET S /\ Cardinality(s) <= 0
      BY DEF Small
    <3>2. Cardinality(s) \in Nat \ {0}
      BY <2>1, <3>1, PickFrom
    <3> QED
      BY <3>1, <3>2
  <2>2. SmallSums(g, h, S, 0)
    BY <2>1 DEF SmallSums
  <2> QED
    BY <1>2, <1>4, <2>2
<1>5. CASE m # 0
  <2>1. m \in Nat /\ m - 1 \in Nat /\ m - 1 < m
    BY <1>5
  <2>2. PICK f : SmallSums(f, h, S, m - 1)
    BY <1>3, <2>1
  <2> DEFINE g == [s \in Small(S, m) |->
                      IF s = {} THEN 0 ELSE h[Pick(s)] + f[s \ {Pick(s)}]]
  <2>3. ASSUME NEW s \in Small(S, m), s # {}
        PROVE  /\ s \ {Pick(s)} \in Small(S, m - 1) /\ s \ {Pick(s)} \in Small(S, m)
               /\ h[Pick(s)] \in Int
    BY <2>1, <2>3, PickFrom DEF Small
  <2>4. g \in [Small(S, m) -> Int]
    BY <2>2, <2>3 DEF SmallSums
  <2>5. ASSUME NEW s \in Small(S, m - 1), s \in Small(S, m) PROVE g[s] = f[s]
    BY <2>2, <2>5 DEF SmallSums
  <2>6. SmallSums(g, h, S, m)
    BY <2>3, <2>4, <2>5 DEF SmallSums
  <2> QED
    BY <1>2, <2>6
<1> QED
  BY <1>4, <1>5

\* Hence the fold satisfies its equation, and its values are integers.
LEMMA SumsExist ==
    ASSUME NEW S, IsFiniteSet(S), NEW h \in [S -> Int]
    PROVE  LET g == CHOOSE g : Sums(g, h, S)
           IN  /\ g[{}] = 0 /\ \A s \in SUBSET S : g[s] \in Int
               /\ \A s \in (SUBSET S) \ {{}} : g[s] = h[Pick(s)] + g[s \ {Pick(s)}]
<1>1. PICK n \in Nat : n = Cardinality(S)
  BY FS_CardinalityType
<1>2. Small(S, n) = SUBSET S
  BY <1>1, FS_Subset DEF Small
<1>3. PICK g : SmallSums(g, h, S, n)
  BY SmallSumsExist
<1>4. Sums(g, h, S)
  <2> DEFINE f == [s \in SUBSET S |-> IF s = {} THEN 0 ELSE h[Pick(s)] + g[s \ {Pick(s)}]]
  <2>1. g = [s \in SUBSET S |-> g[s]]
    BY <1>2, <1>3 DEF SmallSums
  <2>2. \A s \in SUBSET S : g[s] = f[s]
    BY <1>2, <1>3 DEF SmallSums
  <2>3. g = f
    BY <2>1, <2>2
  <2> QED
    BY <2>3 DEF Sums
<1> DEFINE it == CHOOSE x : Sums(x, h, S)
<1>5. Sums(it, h, S)
  BY <1>4
<1> HIDE DEF it
<1>6. /\ it[{}] = 0
      /\ \A s \in (SUBSET S) \ {{}} : it[s] = h[Pick(s)] + it[s \ {Pick(s)}]
  BY <1>5 DEF Sums
<1>7. \A s \in SUBSET S : it[s] \in Int
  <2> DEFINE Bad == {m \in Nat : \E s \in SUBSET S : Cardinality(s) = m /\ it[s] \notin Int}
  <2>1. SUFFICES ASSUME NEW s \in SUBSET S, it[s] \notin Int PROVE FALSE
    OBVIOUS
  <2>2. Bad # {}
    BY <2>1, FS_Subset, FS_CardinalityType
  <2>3. PICK m \in Bad : \A k \in Bad : ~(<<k, m>> \in OpToRel(<, Nat))
    BY <2>2, NatLessThanWellFounded, WFMin
  <2>4. \A k \in Nat : k < m => k \notin Bad
    BY <2>3 DEF OpToRel
  <2>5. PICK u \in SUBSET S : Cardinality(u) = m /\ it[u] \notin Int
    BY <2>3
  <2>6. u # {}
    <3>1. it[{}] \in Int
      BY <1>6
    <3> QED
      BY <2>5, <3>1, Zenon
  <2>7. it[u \ {Pick(u)}] \in Int
    BY <2>4, <2>5, <2>6, PickFrom
  <2>8. h[Pick(u)] \in Int
    BY <2>6, PickFrom
  <2>9. it[u] = h[Pick(u)] + it[u \ {Pick(u)}]
    BY <1>6, <2>6, Zenon
  <2>10. h[Pick(u)] + it[u \ {Pick(u)}] \in Int
    BY <2>7, <2>8
  <2> QED
    BY <2>5, <2>9, <2>10, Zenon
<1> QED
  BY <1>6, <1>7 DEF it

\* When no term is larger than its counterpart, but for the terms of X, which are by
\* at most one, then the sum is larger by at most the size of X.
LEMMA SumCompare ==
    ASSUME NEW S, IsFiniteSet(S), NEW h \in [S -> Int], NEW k \in [S -> Int],
           NEW X \in SUBSET S,
           \A x \in S : h[x] <= k[x] + (IF x \in X THEN 1 ELSE 0)
    PROVE  /\ Sum(h, S) \in Int /\ Sum(k, S) \in Int
           /\ Sum(h, S) <= Sum(k, S) + Cardinality(X)
<1> DEFINE H == CHOOSE g : Sums(g, h, S)
           K == CHOOSE g : Sums(g, k, S)
<1>1. /\ H[{}] = 0 /\ \A s \in SUBSET S : H[s] \in Int
      /\ \A s \in (SUBSET S) \ {{}} : H[s] = h[Pick(s)] + H[s \ {Pick(s)}]
  BY SumsExist
<1>2. /\ K[{}] = 0 /\ \A s \in SUBSET S : K[s] \in Int
      /\ \A s \in (SUBSET S) \ {{}} : K[s] = k[Pick(s)] + K[s \ {Pick(s)}]
  BY SumsExist
<1>3. Sum(h, S) = H[S] /\ Sum(k, S) = K[S]
  BY SumIs
<1> HIDE DEF H, K
<1> DEFINE Fits(s) == H[s] <= K[s] + Cardinality(X \cap s)
           Bad == {m \in Nat : \E s \in SUBSET S : Cardinality(s) = m /\ ~Fits(s)}
<1>4. Bad = {}
  <2>1. SUFFICES ASSUME Bad # {} PROVE FALSE
    OBVIOUS
  <2>3. PICK m \in Bad : \A l \in Bad : ~(<<l, m>> \in OpToRel(<, Nat))
    BY <2>1, NatLessThanWellFounded, WFMin
  <2>4. \A l \in Nat : l < m => l \notin Bad
    BY <2>3 DEF OpToRel
  <2>5. PICK u \in SUBSET S : Cardinality(u) = m /\ ~Fits(u)
    BY <2>3
  <2>6. u # {}
    <3>1. H[{}] <= K[{}] + Cardinality(X \cap {})
      <4>1. X \cap {} = {} /\ Cardinality({}) = 0
        BY FS_EmptySet
      <4>2. H[{}] = 0 /\ K[{}] = 0
        BY <1>1, <1>2
      <4> QED
        BY <4>1, <4>2
    <3> QED
      BY <2>5, <3>1, Zenon
  <2> DEFINE p == Pick(u)
             v == u \ {Pick(u)}
  <2>7. p \in u /\ p \in S /\ v = u \ {p} /\ v \in SUBSET S /\ Cardinality(v) \in Nat /\ Cardinality(v) < m
    BY <2>5, <2>6, PickFrom
  <2>8. Fits(v)
    BY <2>4, <2>7
  <2>9. /\ H[u] = h[p] + H[v] /\ K[u] = k[p] + K[v]
        /\ H[v] \in Int /\ K[v] \in Int /\ h[p] \in Int /\ k[p] \in Int
    BY <1>1, <1>2, <2>6, <2>7
  <2> HIDE DEF p, v
  <2>10. IsFiniteSet(X \cap v) /\ Cardinality(X \cap v) \in Nat
    BY <2>7, FS_Subset, FS_CardinalityType
  <2>11. Cardinality(X \cap u) = Cardinality(X \cap v) + (IF p \in X THEN 1 ELSE 0)
    <3>1. CASE p \in X
      <4>1. X \cap u = (X \cap v) \cup {p} /\ p \notin X \cap v
        BY <2>7, <3>1
      <4> QED
        BY <2>10, <3>1, <4>1, FS_AddElement
    <3>2. CASE p \notin X
      <4>1. X \cap u = X \cap v
        BY <2>7, <3>2
      <4>2. Cardinality(X \cap u) = Cardinality(X \cap v)
        BY <4>1, Zenon
      <4> QED
        BY <2>10, <3>2, <4>2
    <3> QED
      BY <3>1, <3>2
  <2>12. h[p] <= k[p] + (IF p \in X THEN 1 ELSE 0)
    BY <2>7
  <2>13. Fits(u)
    BY <2>8, <2>9, <2>10, <2>11, <2>12
  <2> QED
    BY <2>5, <2>13
<1>5. Fits(S)
  BY <1>4, FS_CardinalityType
<1>6. X \cap S = X
  OBVIOUS
<1> QED
  BY <1>1, <1>2, <1>3, <1>5, <1>6

\* A sum without a positive term is not positive.
LEMMA SumNotPositive ==
    ASSUME NEW S, IsFiniteSet(S), NEW h \in [S -> Int], \A x \in S : h[x] <= 0
    PROVE  Sum(h, S) <= 0
<1> DEFINE H == CHOOSE g : Sums(g, h, S)
<1>1. /\ H[{}] = 0 /\ \A s \in SUBSET S : H[s] \in Int
      /\ \A s \in (SUBSET S) \ {{}} : H[s] = h[Pick(s)] + H[s \ {Pick(s)}]
  BY SumsExist
<1>2. Sum(h, S) = H[S]
  BY SumIs
<1> HIDE DEF H
<1> DEFINE Fits(s) == H[s] <= 0
           Bad == {m \in Nat : \E s \in SUBSET S : Cardinality(s) = m /\ ~Fits(s)}
<1>3. Bad = {}
  <2>1. SUFFICES ASSUME Bad # {} PROVE FALSE
    OBVIOUS
  <2>2. PICK m \in Bad : \A l \in Bad : ~(<<l, m>> \in OpToRel(<, Nat))
    BY <2>1, NatLessThanWellFounded, WFMin
  <2>3. \A l \in Nat : l < m => l \notin Bad
    BY <2>2 DEF OpToRel
  <2>4. PICK u \in SUBSET S : Cardinality(u) = m /\ ~Fits(u)
    BY <2>2
  <2>5. u # {}
    <3>1. H[{}] <= 0
      BY <1>1
    <3> QED
      BY <2>4, <3>1, Zenon
  <2> DEFINE p == Pick(u)
             v == u \ {Pick(u)}
  <2>6. p \in S /\ v \in SUBSET S /\ Cardinality(v) \in Nat /\ Cardinality(v) < m
    BY <2>4, <2>5, PickFrom
  <2>7. Fits(v)
    BY <2>3, <2>6
  <2>8. /\ H[u] = h[p] + H[v] /\ H[v] \in Int /\ h[p] \in Int /\ h[p] <= 0
    BY <1>1, <2>5, <2>6
  <2> HIDE DEF p, v
  <2>9. Fits(u)
    BY <2>7, <2>8
  <2> QED
    BY <2>4, <2>9
<1>4. Fits(S)
  BY <1>3, FS_CardinalityType
<1> QED
  BY <1>2, <1>4

-----------------------------------------------------------------------------
(* The drift.  A task's excess is what its worker holds of it beyond the one *)
(* sample that the controller holds.  The controller may stop holding it     *)
(* when the task is rejected, so the excess is counted as soon as there is   *)
(* an error or a None that can reject it (Spoiled): then only a fault makes  *)
(* it grow, and by one.                                                      *)

HeldOf(n, k) ==
    n.calls + k.queued + k.accepted + (IF k.execution = "running" THEN 1 ELSE 0)

Spoiled(c, k) ==
    \/ k.execution = "None" \/ k.result = "None" \/ c.reply \in {"error", "None"}
    \/ c.pc = "fetch" /\ c.reply = "none" /\ (k.result = "none" \/ ~k.active)

\* The sample of the controller that is sure to stay.
Backed(c, k) ==
    \/ c.pc = "accepted"
    \/ c.pc \in {"submit", "wait", "fetch"} /\ ~Spoiled(c, k)

ExcessOf(c, n, k) == HeldOf(n, k) - (IF Backed(c, k) THEN 1 ELSE 0)

Excess == [t \in Tasks |-> ExcessOf(task[t], net[t], work[t])]

\* Nothing of a task is anywhere before it is dispatched, and a task is not called
\* back before its result can be fetched.
OrderInv(t) ==
    /\ task[t].pc = "new" =>
          /\ net[t].calls = 0 /\ net[t].posts = 0 /\ work[t].queued = 0
          /\ work[t].execution = "none" /\ work[t].result = "none"
          /\ work[t].accepted = 0
    /\ task[t].pc \in {"submit", "wait"} =>
          /\ net[t].posts > 0 \/ task[t].future = "set" => work[t].result # "none"
          /\ work[t].queued > 0 \/ work[t].execution # "none" \/ work[t].result # "none"
                => work[t].active

DriftInv == Sum(Excess, Tasks) <= faults /\ \A t \in Tasks : OrderInv(t)

ExcessType ==
    /\ Excess \in [Tasks -> Int]
    /\ \A t \in Tasks : Excess[t] = ExcessOf(task[t], net[t], work[t])

\* The excess of a task is an integer.
LEMMA ExcessTyped == ControllerInv => ExcessType
<1> SUFFICES ASSUME ControllerInv PROVE ExcessType
  OBVIOUS
<1>1. ASSUME NEW t \in Tasks PROVE ExcessOf(task[t], net[t], work[t]) \in Int
  <2>1. /\ net[t].calls \in Nat /\ work[t].queued \in Nat /\ work[t].accepted \in Nat
    BY DEF ControllerInv, TaskInv, TypeInv, Net, Work
  <2> QED
    BY <2>1 DEF ExcessOf, HeldOf
<1> QED
  BY <1>1 DEF Excess, ExcessType

\* A step of t adds at most n to its excess.
Adds(t, n) ==
    /\ OrderInv(t)'
    /\ ExcessOf(task'[t], net'[t], work'[t]) <= ExcessOf(task[t], net[t], work[t]) + n

\* The types of the records of a task.
LEMMA TaskTyped ==
    ASSUME ControllerInv, NEW t \in Tasks
    PROVE  /\ task[t] \in Coroutine /\ net[t] \in Net /\ work[t] \in Work
           /\ net[t].calls \in Nat /\ net[t].posts \in Nat
           /\ work[t].queued \in Nat /\ work[t].accepted \in Nat
BY DEF ControllerInv, TaskInv, TypeInv, Net, Work

\* The statements of the coroutine: a task that is called back finds its result.
LEMMA CoroutineDrift ==
    ASSUME ControllerInv, NEW t \in Tasks, OrderInv(t), CoroutineStep(t)
    PROVE  Adds(t, 0)
<1> DEFINE c == task[t]
           d == task'[t]
           held == HeldOf(net[t], work[t])
<1>1. /\ c \in Coroutine /\ net' = net /\ work' = work
      /\ held \in Int
  BY TaskTyped DEF CoroutineStep, Submitted, CalledBack, CallRaises, Fetched, GiveUp, HeldOf
<1>2. ASSUME \/ d.pc \notin {"new", "submit", "wait"}
             \/ c.pc = "submit" /\ d.pc = "wait" /\ d.future = c.future,
             Backed(c, work[t]) => Backed(d, work[t])
      PROVE  Adds(t, 0)
  <2>1. OrderInv(t)'
    BY <1>1, <1>2 DEF OrderInv
  <2> HIDE DEF held
  <2>2. /\ ExcessOf(d, net[t], work[t]) <= ExcessOf(c, net[t], work[t])
        /\ ExcessOf(c, net[t], work[t]) \in Int
    BY <1>1, <1>2 DEF ExcessOf, held
  <2>3. net'[t] = net[t] /\ work'[t] = work[t]
    BY <1>1
  <2>4. ExcessOf(c, net[t], work[t]) + 0 = ExcessOf(c, net[t], work[t])
    BY <2>2
  <2> QED
    BY <2>1, <2>2, <2>3, <2>4 DEF Adds
<1>3. CASE Submitted(t)
  <2>1. d = [c EXCEPT !.pc = "wait"] /\ c.pc = "submit" /\ c.reply = "ok"
    BY <1>3 DEF Submitted, ControllerInv, SharedInv
  <2>2. d.pc = "wait" /\ d.reply = c.reply /\ d.future = c.future
    BY <1>1, <2>1 DEF Coroutine
  <2> QED
    BY <1>2, <2>1, <2>2 DEF Backed, Spoiled
<1>4. CASE CalledBack(t)
  <2>1. /\ d = [c EXCEPT !.pc = "fetch", !.attempt = 1, !.reply = "none"]
        /\ c.pc = "wait" /\ c.future = "set"
    BY <1>4 DEF CalledBack, ControllerInv, SharedInv
  <2>2. d.pc = "fetch" /\ d.reply = "none"
    BY <1>1, <2>1 DEF Coroutine
  <2>3. work[t].result # "none" /\ work[t].active
    BY <2>1 DEF OrderInv
  <2> QED
    BY <1>2, <2>1, <2>2, <2>3 DEF Backed, Spoiled
<1>5. CASE CallRaises(t)
  <2>1. d = Finished(c, "rejected") /\ c.reply = "error" /\ c.pc \in {"submit", "fetch"}
    BY <1>5 DEF CallRaises, GiveUp, ControllerInv, SharedInv
  <2>2. d.pc = "rejected"
    BY <1>1, <2>1 DEF Finished, Coroutine
  <2> QED
    BY <1>2, <2>1, <2>2 DEF Backed, Spoiled
<1>6. CASE Fetched(t)
  <2>1. PICK how \in Tops : /\ d = Finished(c, how) /\ c.pc = "fetch"
                            /\ how = "rejected" => c.reply = "None"
    BY <1>6 DEF Fetched, Tops, ControllerInv, SharedInv
  <2>2. d.pc = how
    BY <1>1, <2>1 DEF Finished, Coroutine
  <2> QED
    BY <1>2, <2>1, <2>2 DEF Backed, Spoiled, Tops
<1> QED
  BY <1>3, <1>4, <1>5, <1>6 DEF CoroutineStep

\* A task that is dispatched: one request, and one sample of the controller.
LEMMA DispatchDrift ==
    ASSUME ControllerInv, NEW t \in Tasks, OrderInv(t), Dispatch(t)
    PROVE  Adds(t, 0)
<1> DEFINE d == [pc |-> "submit", attempt |-> 1, worker |-> current_worker_idx,
                 reply |-> "none", future |-> "created"]
           k == work[t]
<1>1. /\ task'[t] = d /\ net'[t] = [net[t] EXCEPT !.calls = 1] /\ work' = work
      /\ task[t].pc = "new"
  BY DEF Dispatch, ControllerInv, SharedInv
<1>2. net'[t].calls = 1 /\ net'[t].posts = net[t].posts
  BY <1>1, TaskTyped DEF Net
<1>3. d.pc = "submit" /\ d.reply = "none" /\ d.future = "created"
  OBVIOUS
<1> HIDE DEF d, k
<1>4. /\ k.queued = 0 /\ k.execution = "none" /\ k.result = "none" /\ k.accepted = 0
      /\ net[t].calls = 0 /\ net[t].posts = 0
  BY <1>1 DEF OrderInv, k
<1>5. OrderInv(t)'
  BY <1>1, <1>2, <1>3, <1>4 DEF OrderInv, k
<1>6. Backed(d, k) /\ ~Backed(task[t], k)
  BY <1>1, <1>3, <1>4 DEF Backed, Spoiled
<1>7. HeldOf(net'[t], k) = 1 /\ HeldOf(net[t], k) = 0
  BY <1>2, <1>4 DEF HeldOf
<1> QED
  BY <1>1, <1>5, <1>6, <1>7 DEF Adds, ExcessOf, k

\* A fault adds one: a repeated request, or a sample the controller drops.
LEMMA FaultDrift ==
    ASSUME ControllerInv, NEW t \in Tasks, OrderInv(t),
           TimesOut(t) \/ CallFails(t) \/ CallbackLost(t)
    PROVE  Adds(t, 1)
<1> DEFINE c == task[t]
           d == task'[t]
           n == net'[t]
           k == work[t]
           held == HeldOf(net[t], k)
<1>1. /\ c \in Coroutine /\ net[t] \in Net /\ held \in Int /\ work' = work
      /\ net[t].posts \in Nat /\ net[t].calls \in Nat
  BY TaskTyped DEF TimesOut, CallFails, CallbackLost, GiveUp, HeldOf
<1>2. CASE TimesOut(t)
  <2>1. d = Finished(c, "rejected") /\ net' = net
    BY <1>2 DEF TimesOut, GiveUp, ControllerInv, SharedInv
  <2>2. d.pc = "rejected"
    BY <1>1, <2>1 DEF Finished, Coroutine
  <2>3. OrderInv(t)'
    BY <1>1, <2>1, <2>2 DEF OrderInv
  <2> HIDE DEF held, d
  <2> QED
    BY <1>1, <2>1, <2>2, <2>3 DEF Adds, ExcessOf, Backed, held, d
<1>3. CASE CallFails(t)
  <2>1. /\ c.pc \in {"submit", "fetch"}
        /\ \/ d = [c EXCEPT !.reply = "error"] /\ n = net[t]
           \/ /\ d = [c EXCEPT !.attempt = @ + 1, !.reply = "none"] /\ c.reply # "error"
              /\ n = net[t] \/ (c.pc = "submit" /\ n = [net[t] EXCEPT !.calls = @ + 1])
    BY <1>3 DEF CallFails, ControllerInv, SharedInv
  <2>2. /\ d.pc = c.pc /\ d.future = c.future
        /\ d.reply = "error" \/ (d.reply = "none" /\ c.reply # "error")
        /\ d.reply = "error" => n = net[t]
    BY <1>1, <2>1 DEF Coroutine
  <2>3. n.posts = net[t].posts /\ n.calls \in {net[t].calls, net[t].calls + 1}
        /\ (n.calls # net[t].calls => c.pc = "submit" /\ d.reply = "none")
    BY <1>1, <2>1, <2>2 DEF Net, Coroutine
  <2> HIDE DEF c, d, n
  <2>4. OrderInv(t)'
    BY <1>1, <2>1, <2>2, <2>3 DEF OrderInv, c, d, n
  <2>5. n.calls # net[t].calls /\ Backed(c, k) => Backed(d, k)
    BY <2>1, <2>2, <2>3 DEF Backed, Spoiled
  <2>6. HeldOf(n, k) = held + (n.calls - net[t].calls)
    BY <1>1, <2>3, TaskTyped DEF HeldOf
  <2> HIDE DEF held
  <2>7. ExcessOf(d, n, k) <= ExcessOf(c, net[t], k) + 1
    BY <1>1, <2>3, <2>5, <2>6 DEF ExcessOf, held
  <2> QED
    BY <1>1, <2>4, <2>7 DEF Adds, c, d, n
<1>4. CASE CallbackLost(t)
  <2>1. task' = task /\ n = [net[t] EXCEPT !.posts = @ - 1] /\ net[t].posts > 0
    BY <1>4 DEF CallbackLost, ControllerInv, SharedInv
  <2>2. n.posts = net[t].posts - 1 /\ n.calls = net[t].calls
    BY <1>1, <2>1 DEF Net
  <2>3. OrderInv(t)'
    BY <1>1, <2>1, <2>2 DEF OrderInv
  <2>4. HeldOf(n, k) = held
    BY <2>2 DEF HeldOf
  <2> HIDE DEF held
  <2> QED
    BY <1>1, <2>1, <2>3, <2>4 DEF Adds, ExcessOf, held
<1> QED
  BY <1>2, <1>3, <1>4

\* A callback that arrives changes nothing of what is held.
LEMMA CallbackDrift ==
    ASSUME ControllerInv, NEW t \in Tasks, OrderInv(t), Callback(t)
    PROVE  Adds(t, 0)
<1> DEFINE c == task[t]
           d == task'[t]
           n == net'[t]
           k == work[t]
           held == HeldOf(net[t], k)
<1>1. /\ c \in Coroutine /\ net[t] \in Net /\ held \in Int /\ work' = work
      /\ net[t].posts \in Nat
      /\ n = [net[t] EXCEPT !.posts = @ - 1] /\ net[t].posts > 0
      /\ d = c \/ d = [c EXCEPT !.future = "set"]
  BY TaskTyped DEF Callback, HeldOf, ControllerInv, SharedInv
<1>2. d.pc = c.pc /\ d.reply = c.reply /\ n.posts = net[t].posts - 1 /\ n.calls = net[t].calls
  BY <1>1 DEF Net, Coroutine
<1> HIDE DEF c, d, n
<1>3. OrderInv(t)'
  BY <1>1, <1>2 DEF OrderInv, c, d, n
<1>4. HeldOf(n, k) = held /\ (Backed(d, k) <=> Backed(c, k))
  BY <1>2 DEF HeldOf, Backed, Spoiled
<1> HIDE DEF held
<1> QED
  BY <1>1, <1>3, <1>4 DEF Adds, ExcessOf, held, c, d, n

\* A worker that answers: a request is traded for an entry of the queue or for an
\* error, and the result of a task the controller counts on is its trajectory.
LEMMA ServeDrift ==
    ASSUME ControllerInv, NEW t \in Tasks, OrderInv(t), ServeSubmit(t) \/ ServeFetch(t)
    PROVE  Adds(t, 0)
<1> DEFINE c == task[t]
           d == task'[t]
           n == net'[t]
           k == work[t]
           l == work'[t]
           held == HeldOf(net[t], k)
<1>1. /\ c \in Coroutine /\ net[t] \in Net /\ k \in Work
      /\ net[t].calls \in Nat /\ net[t].posts \in Nat
      /\ k.queued \in Nat /\ k.accepted \in Nat
  BY TaskTyped
<1>2. held \in Int
  BY <1>1 DEF HeldOf
<1>3. CASE ServeSubmit(t)
  <2>1. /\ n = [net[t] EXCEPT !.calls = @ - 1] /\ net[t].calls > 0
        /\ \/ d = c
           \/ d = [c EXCEPT !.reply = "ok"] /\ c.pc = "submit" /\ c.reply = "none"
           \/ d = [c EXCEPT !.reply = "error"] /\ c.pc = "submit" /\ l = [k EXCEPT !.callback = TRUE]
        /\ \/ l = [k EXCEPT !.callback = TRUE]
           \/ l = [k EXCEPT !.callback = TRUE, !.active = TRUE, !.queued = @ + 1]
    BY <1>3 DEF ServeSubmit, Answered, ControllerInv, SharedInv
  <2>2. n.posts = net[t].posts /\ n.calls = net[t].calls - 1
    BY <1>1, <2>1 DEF Net
  <2>3. /\ l.execution = k.execution /\ l.accepted = k.accepted /\ l.result = k.result
        /\ \/ l.queued = k.queued /\ l.active = k.active
           \/ l.queued = k.queued + 1 /\ l.active
    BY <1>1, <2>1 DEF Work
  <2>4. /\ d.pc = c.pc /\ d.future = c.future
        /\ d.reply = "error" /\ d.reply # c.reply => l.queued = k.queued
        /\ d.reply # c.reply => d.reply \in {"ok", "error"} /\ c.pc = "submit"
    BY <1>1, <2>1 DEF Coroutine, Work
  <2>5. c.pc # "new"
    BY <1>1, <2>1 DEF OrderInv
  <2> HIDE DEF c, d, n, k, l
  <2>6. OrderInv(t)'
    BY <1>1, <2>2, <2>3, <2>4, <2>5 DEF OrderInv, c, d, n, k, l
  <2>7. HeldOf(n, l) \in {held, held - 1} /\ (l.queued = k.queued => HeldOf(n, l) = held - 1)
    BY <1>1, <2>2, <2>3 DEF HeldOf
  <2>8. Backed(c, k) /\ ~Backed(d, l) => HeldOf(n, l) = held - 1
    <3>1. ASSUME ~(d.reply = "error" /\ d.reply # c.reply), Backed(c, k) PROVE Backed(d, l)
      BY <2>3, <2>4, <3>1 DEF Backed, Spoiled
    <3> QED
      BY <2>4, <2>7, <3>1
  <2> HIDE DEF held
  <2>9. ExcessOf(d, n, l) <= ExcessOf(c, net[t], k) + 0
    BY <1>2, <2>7, <2>8 DEF ExcessOf, held
  <2> QED
    BY <2>6, <2>9 DEF Adds, c, d, n, k, l
<1>4. CASE ServeFetch(t)
  <2>1. /\ c.pc = "fetch" /\ c.reply = "none" /\ d = [c EXCEPT !.reply = FetchReply(t)]
        /\ net' = net
        /\ l = IF k.active /\ k.result # "none"
               THEN [k EXCEPT !.result = "none", !.active = FALSE] ELSE k
    BY <1>4 DEF ServeFetch, ControllerInv, SharedInv
  <2>2. /\ d.pc = "fetch" /\ d.reply = FetchReply(t)
        /\ l.queued = k.queued /\ l.accepted = k.accepted /\ l.execution = k.execution
        /\ l.result = "none" \/ l.result = k.result
    BY <1>1, <2>1 DEF Coroutine, Work
  <2>3. Backed(c, k) => FetchReply(t) = "trajectory" /\ k.result = "trajectory"
    BY <1>1, <2>1 DEF Backed, Spoiled, FetchReply, Work, Outcomes
  <2> HIDE DEF c, d, k, l
  <2>4. Backed(c, k) => Backed(d, l)
    BY <2>1, <2>2, <2>3 DEF Backed, Spoiled
  <2>5. OrderInv(t)'
    BY <2>1, <2>2 DEF OrderInv, d
  <2>6. HeldOf(net[t], l) = held
    BY <2>2 DEF HeldOf
  <2> HIDE DEF held
  <2>7. ExcessOf(d, net[t], l) <= ExcessOf(c, net[t], k) + 0
    BY <1>2, <2>4, <2>6 DEF ExcessOf, held
  <2>8. net'[t] = net[t]
    BY <2>1
  <2> QED
    BY <2>5, <2>7, <2>8 DEF Adds, c, d, k, l
<1> QED
  BY <1>3, <1>4

\* A worker that goes on with a rollout: the entry of the queue becomes the rollout
\* that runs, and that one a sample that is accepted or nothing.
LEMMA WorkerDrift ==
    ASSUME ControllerInv, NEW t \in Tasks, OrderInv(t),
           WorkerStarts(t) \/ ExecutionEnds(t) \/ WorkerPublishes(t)
    PROVE  Adds(t, 0)
<1> DEFINE c == task[t]
           n == net'[t]
           k == work[t]
           l == work'[t]
           held == HeldOf(net[t], k)
<1>1. /\ c \in Coroutine /\ net[t] \in Net /\ k \in Work /\ task' = task
      /\ net[t].calls \in Nat /\ net[t].posts \in Nat
      /\ k.queued \in Nat /\ k.accepted \in Nat
  BY TaskTyped DEF WorkerStarts, ExecutionEnds, WorkerPublishes
<1>2. held \in Int
  BY <1>1 DEF HeldOf
<1>3. ASSUME n.calls = net[t].calls, l.active = k.active,
             Backed(c, k) => Backed(c, l) \/ HeldOf(n, l) <= held - 1,
             HeldOf(n, l) \in Int, HeldOf(n, l) <= held, OrderInv(t)'
      PROVE  Adds(t, 0)
  <2> HIDE DEF held
  <2>1. ExcessOf(c, n, l) <= ExcessOf(c, net[t], k) + 0
    BY <1>2, <1>3 DEF ExcessOf, held
  <2>2. task'[t] = c
    BY <1>1
  <2> QED
    BY <1>3, <2>1, <2>2 DEF Adds
<1>4. CASE WorkerStarts(t)
  <2>1. /\ net' = net /\ k.queued > 0
        /\ \/ k.execution = "none" /\ l = [k EXCEPT !.queued = @ - 1, !.execution = "running"]
           \/ k.execution # "none" /\ l = [k EXCEPT !.queued = @ - 1]
    BY <1>4 DEF WorkerStarts, ControllerInv, SharedInv
  <2>2. /\ l.queued = k.queued - 1 /\ l.accepted = k.accepted /\ l.result = k.result
        /\ l.execution = IF k.execution = "none" THEN "running" ELSE k.execution
        /\ l.active = k.active
    BY <1>1, <2>1 DEF Work
  <2>3. n = net[t]
    BY <2>1
  <2> HIDE DEF c, k, l, n
  <2>4. OrderInv(t)'
    BY <1>1, <2>1, <2>2, <2>3 DEF OrderInv, c, k, l, n
  <2>5. HeldOf(n, l) <= held /\ HeldOf(n, l) \in Int
    BY <1>1, <2>2, <2>3 DEF HeldOf
  <2>6. Backed(c, k) => Backed(c, l)
    BY <2>2 DEF Backed, Spoiled
  <2> QED
    BY <1>3, <2>2, <2>3, <2>4, <2>5, <2>6
<1>5. CASE ExecutionEnds(t)
  <2>1. /\ net' = net /\ k.execution = "running"
        /\ \/ l = [k EXCEPT !.execution = "trajectory", !.accepted = @ + 1]
           \/ l = [k EXCEPT !.execution = "None"]
    BY <1>5 DEF ExecutionEnds, ControllerInv, SharedInv
  <2>2. /\ l.queued = k.queued /\ l.result = k.result /\ l.active = k.active
        /\ \/ l.execution = "trajectory" /\ l.accepted = k.accepted + 1
           \/ l.execution = "None" /\ l.accepted = k.accepted
    BY <1>1, <2>1 DEF Work
  <2>3. n = net[t]
    BY <2>1
  <2> HIDE DEF c, k, l, n
  <2>4. OrderInv(t)'
    BY <1>1, <2>1, <2>2, <2>3 DEF OrderInv, c, k, l, n
  <2>5. /\ HeldOf(n, l) <= held /\ HeldOf(n, l) \in Int
        /\ l.execution = "None" => HeldOf(n, l) <= held - 1
    BY <1>1, <2>1, <2>2, <2>3 DEF HeldOf
  <2>6. Backed(c, k) /\ l.execution # "None" => Backed(c, l)
    BY <2>2 DEF Backed, Spoiled
  <2> QED
    BY <1>3, <2>2, <2>3, <2>4, <2>5, <2>6
<1>6. CASE WorkerPublishes(t)
  <2>1. /\ k.execution \in {"trajectory", "None"}
        /\ l = [k EXCEPT !.result = k.execution, !.execution = "none", !.callback = FALSE]
        /\ n = IF k.callback THEN [net[t] EXCEPT !.posts = @ + 1] ELSE net[t]
    BY <1>6 DEF WorkerPublishes, ControllerInv, SharedInv
  <2>2. /\ l.queued = k.queued /\ l.accepted = k.accepted /\ l.active = k.active
        /\ l.result = k.execution /\ l.execution = "none"
    BY <1>1, <2>1 DEF Work
  <2>3. n.calls = net[t].calls /\ n.posts \in {net[t].posts, net[t].posts + 1}
    BY <1>1, <2>1 DEF Net
  <2> HIDE DEF c, k, l, n
  <2>4. OrderInv(t)'
    BY <1>1, <2>1, <2>2, <2>3 DEF OrderInv, c, k, l, n
  <2>5. HeldOf(n, l) = held
    BY <2>1, <2>2, <2>3 DEF HeldOf
  <2>6. Backed(c, k) => Backed(c, l)
    BY <2>1, <2>2 DEF Backed, Spoiled
  <2>7. HeldOf(n, l) \in Int /\ HeldOf(n, l) <= held
    BY <1>2, <2>5
  <2> QED
    BY <1>3, <2>2, <2>3, <2>4, <2>6, <2>7
<1> QED
  BY <1>4, <1>5, <1>6

\* A fault is one more, and without it a step of a task adds nothing to its excess.
LEMMA TaskAdds ==
    ASSUME ControllerInv, NEW t \in Tasks, OrderInv(t), TaskStep(t)
    PROVE  \/ Adds(t, 0) /\ faults' = faults
           \/ Adds(t, 1) /\ faults' = faults + 1
<1>1. CASE TimesOut(t) \/ CallFails(t) \/ CallbackLost(t)
  BY <1>1, FaultDrift DEF TimesOut, CallFails, CallbackLost, Fault
<1>2. CASE Dispatch(t)
  BY <1>2, DispatchDrift DEF Dispatch
<1>3. CASE CoroutineStep(t)
  BY <1>3, CoroutineDrift
     DEF CoroutineStep, Submitted, CalledBack, CallRaises, Fetched, GiveUp
<1>4. CASE Callback(t)
  BY <1>4, CallbackDrift DEF Callback
<1>5. CASE ServeSubmit(t) \/ ServeFetch(t)
  BY <1>5, ServeDrift DEF ServeSubmit, ServeFetch
<1>6. CASE WorkerStarts(t) \/ ExecutionEnds(t) \/ WorkerPublishes(t)
  BY <1>6, WorkerDrift DEF WorkerStarts, ExecutionEnds, WorkerPublishes
<1> QED
  BY <1>1, <1>2, <1>3, <1>4, <1>5, <1>6 DEF TaskStep, WorkerStep

\* No worker holds anything at first.
LEMMA InitDrift == Init => DriftInv
<1> SUFFICES ASSUME Init PROVE DriftInv
  OBVIOUS
<1>1. ControllerInv /\ faults = 0
  BY InitInv DEF Init
<1>2. ASSUME NEW t \in Tasks PROVE OrderInv(t) /\ Excess[t] = 0
  <2>1. /\ task[t] = [pc |-> "new", worker |-> 0, attempt |-> 0, reply |-> "none",
                      future |-> "none"]
        /\ net[t] = [calls |-> 0, posts |-> 0]
        /\ work[t] = [queued |-> 0, execution |-> "none", accepted |-> 0, result |-> "none",
                      active |-> FALSE, callback |-> FALSE]
    BY DEF Init
  <2>2. HeldOf(net[t], work[t]) = 0 /\ ~Backed(task[t], work[t])
    BY <2>1 DEF HeldOf, Backed
  <2> QED
    BY <2>1, <2>2 DEF OrderInv, Excess, ExcessOf
<1>3. Sum(Excess, Tasks) <= 0
  <2>1. Excess \in [Tasks -> Int] /\ \A t \in Tasks : Excess[t] <= 0
    BY <1>1, <1>2, ExcessTyped DEF ExcessType
  <2> QED
    BY <2>1, SumNotPositive, ControllerAssumption
<1> QED
  BY <1>1, <1>2, <1>3 DEF DriftInv

\* Every step keeps the bound.
LEMMA NextDrift ==
    ASSUME ControllerInv, ControllerInv', DriftInv, [Next]_vars
    PROVE  DriftInv'
<1> DEFINE e == Excess
           f == Excess'
<1>1. /\ e \in [Tasks -> Int] /\ f \in [Tasks -> Int]
      /\ \A t \in Tasks : /\ e[t] = ExcessOf(task[t], net[t], work[t])
                          /\ f[t] = ExcessOf(task'[t], net'[t], work'[t])
  <2>1. ExcessType /\ ExcessType'
    BY ExcessTyped, PTL
  <2> QED
    BY <2>1 DEF ExcessType
<1>2. IsFiniteSet(Tasks) /\ faults \in Int
  BY ControllerAssumption DEF ControllerInv, SharedInv
<1>3. CASE UNCHANGED <<taskVars, faults>>
  <2>1. e = f
    BY <1>3 DEF Excess, taskVars
  <2> QED
    BY <1>3, <2>1 DEF DriftInv, OrderInv, taskVars
<1>4. ASSUME NEW t \in Tasks, TaskStep(t) PROVE DriftInv'
  <2>1. \/ Adds(t, 0) /\ faults' = faults
        \/ Adds(t, 1) /\ faults' = faults + 1
    BY <1>4, TaskAdds DEF DriftInv
  <2>2. \A u \in Tasks \ {t} : task'[u] = task[u] /\ net'[u] = net[u] /\ work'[u] = work[u]
    BY <1>4, SharedKept
  <2>3. ASSUME NEW u \in Tasks PROVE OrderInv(u)'
    <3>1. CASE u = t
      BY <2>1, <3>1 DEF Adds
    <3>2. CASE u # t
      BY <2>2, <3>2 DEF DriftInv, OrderInv
    <3> QED
      BY <3>1, <3>2
  <2>4. \A u \in Tasks \ {t} : f[u] = e[u]
    BY <1>1, <2>2
  <2>5. \/ f[t] <= e[t] /\ faults' = faults
        \/ f[t] <= e[t] + 1 /\ faults' = faults + 1
    BY <1>1, <2>1 DEF Adds
  <2> HIDE DEF e, f
  <2>6. Sum(e, Tasks) \in Int /\ Sum(f, Tasks) \in Int
        /\ Sum(f, Tasks) <= Sum(e, Tasks) + (faults' - faults)
    <3>1. CASE f[t] <= e[t] /\ faults' = faults
      <4>1. \A u \in Tasks : f[u] <= e[u] + (IF u \in {} THEN 1 ELSE 0)
        BY <1>1, <2>4, <3>1
      <4>2. /\ Sum(e, Tasks) \in Int /\ Sum(f, Tasks) \in Int
            /\ Sum(f, Tasks) <= Sum(e, Tasks) + Cardinality({})
        BY <1>1, <1>2, <4>1, SumCompare
      <4> QED
        BY <1>2, <3>1, <4>2, FS_EmptySet
    <3>2. CASE f[t] <= e[t] + 1 /\ faults' = faults + 1
      <4>1. \A u \in Tasks : f[u] <= e[u] + (IF u \in {t} THEN 1 ELSE 0)
        BY <1>1, <2>4, <3>2
      <4>2. {t} \in SUBSET Tasks
        OBVIOUS
      <4>3. /\ Sum(e, Tasks) \in Int /\ Sum(f, Tasks) \in Int
            /\ Sum(f, Tasks) <= Sum(e, Tasks) + Cardinality({t})
        BY <1>1, <1>2, <4>1, <4>2, SumCompare
      <4> QED
        BY <1>2, <3>2, <4>3, FS_Singleton
    <3> QED
      BY <2>5, <3>1, <3>2
  <2>7. Sum(e, Tasks) <= faults
    BY DEF DriftInv, e
  <2>8. faults' \in Int
    BY <1>2, <2>1
  <2>9. Sum(f, Tasks) <= faults'
    BY <1>2, <2>6, <2>7, <2>8
  <2> QED
    BY <2>3, <2>9 DEF DriftInv, f
<1>5. CASE Pause \/ TrainerStep
  BY <1>3, <1>5
     DEF Pause, TrainerStep, CollectiveReaches, CollectiveReturns, RolloutStays, taskVars
<1>6. CASE UNCHANGED vars
  BY <1>3, <1>6 DEF vars, taskVars
<1> QED
  BY <1>4, <1>5, <1>6 DEF Next, TaskStep

\* What is held is the excess and, for the tasks the controller holds, one sample each.
LEMMA DriftImplies ==
    ASSUME ControllerInv, DriftInv
    PROVE  DriftBound
<1> DEFINE X == {t \in Tasks : task[t].pc \notin {"new", "rejected"}}
           e == Excess
           h == Held
<1>1. /\ e \in [Tasks -> Int]
      /\ \A t \in Tasks : e[t] = ExcessOf(task[t], net[t], work[t])
  BY ExcessTyped DEF ExcessType
<1>2. \A t \in Tasks : h[t] = HeldOf(net[t], work[t])
  BY DEF Held, HeldOf
<1>3. \A t \in Tasks : HeldOf(net[t], work[t]) \in Int
  <2>1. ASSUME NEW t \in Tasks PROVE HeldOf(net[t], work[t]) \in Int
    BY TaskTyped DEF HeldOf
  <2> QED
    BY <2>1
<1>4. h \in [Tasks -> Int]
  BY <1>2, <1>3 DEF Held
<1>5. \A t \in Tasks : h[t] <= e[t] + (IF t \in X THEN 1 ELSE 0)
  <2>1. ASSUME NEW t \in Tasks PROVE h[t] <= e[t] + (IF t \in X THEN 1 ELSE 0)
    <3>1. Backed(task[t], work[t]) => t \in X
      BY DEF Backed
    <3>2. h[t] = e[t] + (IF Backed(task[t], work[t]) THEN 1 ELSE 0) /\ e[t] \in Int
      BY <1>1, <1>2, <1>3 DEF ExcessOf
    <3> HIDE DEF X, e, h
    <3> QED
      BY <3>1, <3>2
  <2> QED
    BY <2>1
<1>6. X \in SUBSET Tasks /\ IsFiniteSet(Tasks) /\ IsFiniteSet(X) /\ Cardinality(X) \in Int
  <2>1. X \in SUBSET Tasks /\ IsFiniteSet(Tasks)
    BY ControllerAssumption
  <2> HIDE DEF X
  <2> QED
    BY <2>1, FS_Subset, FS_CardinalityType
<1>7. Sum(e, Tasks) <= faults /\ faults \in Int
  BY DEF DriftInv, ControllerInv, SharedInv
<1> HIDE DEF X, e, h
<1>8. /\ Sum(h, Tasks) \in Int /\ Sum(e, Tasks) \in Int
      /\ Sum(h, Tasks) <= Sum(e, Tasks) + Cardinality(X)
  BY <1>1, <1>4, <1>5, <1>6, SumCompare
<1>9. Sum(h, Tasks) <= Cardinality(X) + faults
  BY <1>6, <1>7, <1>8
<1> QED
  BY <1>9 DEF DriftBound, Sum, X, h

-----------------------------------------------------------------------------
\* A step of a task keeps what is known of all tasks.
LEMMA TaskStepInv ==
    ASSUME ControllerInv, NEW t \in Tasks, TaskStep(t)
    PROVE  ControllerInv'
<1>1. TaskInv(t)'
  BY DispatchInv, CoroutineInv, FaultInv, CallbackInv, ServeInv, WorkerInv
     DEF TaskStep, WorkerStep
<1> QED
  BY <1>1, SharedKept, OneTask

\* The trainer reaches the workers one by one.
LEMMA TrainerInv ==
    ASSUME ControllerInv, Pause \/ TrainerStep
    PROVE  ControllerInv' /\ rollout_stat' = rollout_stat /\ task' = task
<1>1. UNCHANGED <<taskVars, faults, rollout_stat>>
  BY DEF Pause, TrainerStep, CollectiveReaches, CollectiveReturns, RolloutStays, taskVars
<1>2. SharedInv'
  <2>1. CASE Pause
    BY <1>1, <2>1, ControllerAssumption DEF Pause, ControllerInv, SharedInv, taskVars
  <2>2. CASE CollectiveReturns
    <3>1. /\ stage \in {"pause", "set_version", "resume"} /\ engine' = engine
          /\ stage = "pause" =>
                stage' = "set_version" /\ left' = Workers /\ version' = version + 1
          /\ stage = "set_version" =>
                stage' = "resume" /\ left' = Workers /\ version' = version
          /\ stage = "resume" => stage' = "run" /\ left' = left /\ version' = version
          /\ left = {}
      BY <2>2 DEF CollectiveReturns, ControllerInv, SharedInv
    <3>2. version' \in 0..MaxVersion
      BY <3>1, ControllerAssumption DEF ControllerInv, SharedInv
    <3> QED
      BY <1>1, <3>1, <3>2 DEF ControllerInv, SharedInv, taskVars
  <2>3. ASSUME NEW w \in Workers, CollectiveReaches(w) PROVE SharedInv'
    <3>1. w \in left /\ stage # "run" /\ engine' = [engine EXCEPT ![w] = EngineAfter(w)]
          /\ left' = left \ {w} /\ UNCHANGED <<stage, version>>
      BY <2>3 DEF CollectiveReaches, ControllerInv, SharedInv
    <3>2. /\ EngineAfter(w) \in [version : 0..MaxVersion, paused : BOOLEAN, failed : BOOLEAN]
          /\ EngineAfter(w).failed = engine[w].failed
      BY <3>1 DEF EngineAfter, ControllerInv, SharedInv
    <3> QED
      BY <1>1, <3>1, <3>2 DEF ControllerInv, SharedInv, taskVars
  <2> QED
    BY <2>1, <2>2, <2>3 DEF TrainerStep
<1> QED
  BY <1>1, <1>2, NoTask DEF taskVars

\* Every step keeps the invariant.
LEMMA NextInv ==
    ASSUME ControllerInv, CountInv, [Next]_vars
    PROVE  ControllerInv' /\ CountInv'
<1>1. CASE UNCHANGED vars
  <2>1. ControllerInv'
    BY <1>1, NoTask DEF vars, trainerVars, taskVars, ControllerInv, SharedInv
  <2>2. CountInv'
    BY <1>1, SameCount DEF vars
  <2> QED
    BY <2>1, <2>2
<1>2. CASE Pause \/ TrainerStep
  BY <1>2, TrainerInv, SameCount
<1>3. ASSUME NEW t \in Tasks, TaskStep(t) PROVE ControllerInv' /\ CountInv'
  BY <1>3, TaskStepInv, TaskCount
<1> QED
  BY <1>1, <1>2, <1>3 DEF Next, TaskStep

\* The invariant implies the properties.
LEMMA InvImplies ==
    ASSUME ControllerInv, CountInv
    PROVE  TypeOK /\ FuturesAreAwaited /\ VerdictsAgree
<1>1. \A t \in Tasks : TaskInv(t)
  BY DEF ControllerInv
<1>2. TypeOK
  <2>1. task \in [Tasks -> Coroutine]
    BY <1>1 DEF ControllerInv, SharedInv, TaskInv, TypeInv
  <2>2. net \in [Tasks -> [calls : Nat, posts : Nat]] /\ work \in [Tasks -> Work]
    BY <1>1 DEF ControllerInv, SharedInv, TaskInv, TypeInv, Net
  <2> QED
    BY <2>1, <2>2 DEF TypeOK, ControllerInv, SharedInv, CountInv
<1>3. FuturesAreAwaited
  BY <1>1 DEF FuturesAreAwaited, Open, ControllerInv, SharedInv, TaskInv, FutureInv
<1>4. VerdictsAgree
  BY <1>1 DEF VerdictsAgree, Ended, TaskInv, AcceptedInv, FaultlessInv
<1> QED
  BY <1>2, <1>3, <1>4

\* Types, and that each task is counted once, whichever of the result, the timeout
\* and a failed call comes first.
THEOREM ControllerTypes == Spec => []TypeOK
<1>1. Init => ControllerInv /\ CountInv
  BY InitInv, InitCount
<1>2. ControllerInv /\ CountInv /\ [Next]_vars => (ControllerInv /\ CountInv)'
  BY NextInv
<1>3. ControllerInv /\ CountInv => TypeOK
  BY InvImplies
<1> QED
  BY <1>1, <1>2, <1>3, PTL DEF Spec

\* The dictionary of futures and the coroutines agree: no future is left behind, and
\* none that is waited for is missing.
THEOREM FuturesMatch == Spec => []FuturesAreAwaited
<1>1. Init => ControllerInv /\ CountInv
  BY InitInv, InitCount
<1>2. ControllerInv /\ CountInv /\ [Next]_vars => (ControllerInv /\ CountInv)'
  BY NextInv
<1>3. ControllerInv /\ CountInv => FuturesAreAwaited
  BY InvImplies
<1> QED
  BY <1>1, <1>2, <1>3, PTL DEF Spec

\* What the trainer gets a worker has accepted; without a fault the two agree on
\* every task.
THEOREM VerdictsMatch == Spec => []VerdictsAgree
<1>1. Init => ControllerInv /\ CountInv
  BY InitInv, InitCount
<1>2. ControllerInv /\ CountInv /\ [Next]_vars => (ControllerInv /\ CountInv)'
  BY NextInv
<1>3. ControllerInv /\ CountInv => VerdictsAgree
  BY InvImplies
<1> QED
  BY <1>1, <1>2, <1>3, PTL DEF Spec

\* Whatever is lost and given up, the workers' own counts exceed the controller's by at
\* most one sample for each fault.
THEOREM DriftIsBounded == Spec => []DriftBound
<1>1. Init => ControllerInv /\ CountInv /\ DriftInv
  BY InitInv, InitCount, InitDrift
<1>2. ControllerInv /\ CountInv /\ DriftInv /\ [Next]_vars
         => (ControllerInv /\ CountInv /\ DriftInv)'
  BY NextInv, NextDrift
<1>3. ControllerInv /\ CountInv /\ DriftInv => DriftBound
  BY DriftImplies
<1> QED
  BY <1>1, <1>2, <1>3, PTL DEF Spec
=============================================================================
