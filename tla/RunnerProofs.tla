---------------------------- MODULE RunnerProofs ----------------------------
(***************************************************************************)
(* Proofs about AsyncTaskRunner, for any tasks, producers and queue size:  *)
(* no identifier is ever in flight twice, no wakeup of the loop is lost,   *)
(* and the thread with its event, its suspensions and its duplicate test   *)
(* implements TaskRunner.                                                  *)
(*                                                                         *)
(* The duplicate test holds the lock for the test and the registration     *)
(* only, not for the put that follows, so NoDuplicateInFlight is not       *)
(* inductive.  OwnershipInv adds who owns a registered identifier that is  *)
(* not in flight: one producer on its way to the queue or back from it, or *)
(* the thread between the publication and the discard.                     *)
(***************************************************************************)
EXTENDS AsyncTaskRunner, QueueLemmas, FiniteSetTheorems

\* A producer inside submit() holds a task.
SubmittedTyped ==
    \A p \in Producers : producer[p] # "idle" => submitted[p] \in Tasks

\* Registered, and not in the queue yet or not any more to be.
Claims(p) == producer[p] \in {"put", "unregister"}

OwnershipInv ==
    Live =>
        /\ InFlight \subseteq active_task_ids
        /\ IsInjective(input_queue)
        /\ ToSet(input_queue) \cap running_tasks = {}
        /\ \A p \in Producers : Claims(p) =>
              submitted[p] \in active_task_ids \ InFlight
        /\ \A p, q \in Producers :
              Claims(p) /\ Claims(q) /\ submitted[p] = submitted[q] => p = q
        /\ at = "discard" =>
              /\ current \in active_task_ids \ InFlight
              /\ \A p \in Producers : Claims(p) => submitted[p] # current

-----------------------------------------------------------------------------
LEMMA RunnerInitTypes == Init => TypeOK /\ SubmittedTyped
<1> SUFFICES ASSUME Init
             PROVE  TypeOK /\ SubmittedTyped
  OBVIOUS
<1>1. Len(<<>>) = 0 /\ MaxQueueSize \in Nat /\ MaxWait \in Nat
  BY RunnerAssumption
<1>2. input_queue \in Seq(Tasks) /\ Len(input_queue) <= MaxQueueSize
  BY <1>1 DEF Init
<1>3. output_queue \in Seq(Tasks) /\ Len(output_queue) <= MaxQueueSize
  BY <1>1 DEF Init
<1>4. got \in Seq(Tasks) /\ Len(got) <= want /\ want \in 0..MaxWait
  BY <1>1 DEF Init
<1> QED
  BY <1>2, <1>3, <1>4 DEF Init, TypeOK, ThreadPlaces, SubmittedTyped

LEMMA ProducersKeepTypes ==
    ASSUME TypeOK, SubmittedTyped, NEW p \in Producers,
           ProducerStep(p) \/ \E t \in Tasks : SubmitBegin(p, t)
    PROVE  TypeOK' /\ SubmittedTyped'
<1> USE DEF TypeOK, SubmittedTyped, ProducerAt, threadVars, sharedVars,
   producerVars, consumerVars, taskVars, wakeVars, queues, flags, ControllerAt
<1>1. CASE \E t \in Tasks : SubmitBegin(p, t)
  BY <1>1 DEF SubmitBegin
<1>2. CASE SubmitDuplicate(p)
  BY <1>2 DEF SubmitDuplicate
<1>3. CASE SubmitRegister(p)
  BY <1>3 DEF SubmitRegister
<1>4. CASE SubmitPut(p)
  BY <1>4, RunnerAssumption DEF SubmitPut
<1>5. CASE SubmitFull(p)
  BY <1>5 DEF SubmitFull
<1>6. CASE SubmitUnregister(p)
  BY <1>6 DEF SubmitUnregister
<1>7. CASE SubmitSignal(p)
  BY <1>7 DEF SubmitSignal, Signal
<1> QED
  BY <1>1, <1>2, <1>3, <1>4, <1>5, <1>6, <1>7 DEF ProducerStep

LEMMA ConsumerKeepsTypes ==
    ASSUME TypeOK, SubmittedTyped,
           ConsumerStep \/ \E count \in 1..MaxWait : WaitBegin(count)
    PROVE  TypeOK' /\ SubmittedTyped'
<1> USE DEF TypeOK, SubmittedTyped, threadVars, sharedVars, producerVars,
   consumerVars, taskVars, wakeVars, queues, flags, ControllerAt
<1>1. CASE \E count \in 1..MaxWait : WaitBegin(count)
  BY <1>1, RunnerAssumption DEF WaitBegin
<1>2. CASE WaitRaises
  BY <1>2, RunnerAssumption DEF WaitRaises
<1>3. CASE WaitContinues \/ WaitFoundEmpty
  BY <1>3 DEF WaitContinues, WaitFoundEmpty
<1>4. CASE WaitGet
  <2>1. /\ Head(output_queue) \in Tasks /\ Tail(output_queue) \in Seq(Tasks)
        /\ Len(Tail(output_queue)) <= MaxQueueSize
    BY <1>4, RunnerAssumption DEF WaitGet
  <2>2. CASE Len(got) + 1 < want
    <3>1. /\ got' = Append(got, Head(output_queue)) /\ want' = want
          /\ consumer' = "check" /\ output_queue' = Tail(output_queue)
      BY <1>4, <2>2 DEF WaitGet
    <3>2. /\ got' \in Seq(Tasks) /\ Len(got') = Len(got) + 1
      BY <2>1, <3>1
    <3>3. Len(got') <= want'
      BY <2>2, <3>1, <3>2
    <3> QED
      BY <1>4, <2>1, <3>1, <3>2, <3>3 DEF WaitGet
  <2>3. CASE ~(Len(got) + 1 < want)
    BY <1>4, <2>1, <2>3, RunnerAssumption DEF WaitGet
  <2> QED
    BY <2>2, <2>3
<1> QED
  BY <1>1, <1>2, <1>3, <1>4 DEF ConsumerStep

LEMMA ControllerKeepsTypes ==
    ASSUME TypeOK, SubmittedTyped,
           Pause \/ ResumeClear \/ DestroyExit \/ ControllerStep
    PROVE  TypeOK' /\ SubmittedTyped'
<1> USE DEF TypeOK, SubmittedTyped, clientVars, threadVars, sharedVars,
   producerVars, consumerVars, taskVars, wakeVars, queues, flags, ControllerAt
<1>1. CASE Pause \/ ResumeClear \/ DestroyExit
  BY <1>1 DEF Pause, ResumeClear, DestroyExit
<1>2. CASE ResumeSignal \/ DestroySignal
  BY <1>2 DEF ResumeSignal, DestroySignal, Signal
<1>3. CASE DestroyClear \/ DestroyJoined
  BY <1>3 DEF DestroyClear, DestroyJoined
<1> QED
  BY <1>1, <1>2, <1>3 DEF ControllerStep

LEMMA ThreadKeepsTypes ==
    ASSUME TypeOK, SubmittedTyped,
           ThreadStep \/ DeliverSet \/ \E t \in Tasks : CoroutineReturns(t)
    PROVE  TypeOK' /\ SubmittedTyped'
<1> USE DEF TypeOK, SubmittedTyped, clientVars, sharedVars, ThreadAt,
   ThreadPlaces, producerVars, consumerVars, taskVars, wakeVars, queues, flags,
   ControllerAt
<1>1. CASE LoopStart \/ LoopTop \/ WakeFromSleep \/ DrainTest \/ DrainEmpty
  BY <1>1 DEF LoopStart, LoopTop, WakeFromSleep, DrainTest, DrainEmpty,
     AfterDrain
<1>2. CASE DrainTake
  <2>1. /\ Head(input_queue) \in Tasks /\ Tail(input_queue) \in Seq(Tasks)
        /\ Len(Tail(input_queue)) <= MaxQueueSize
    BY <1>2, RunnerAssumption DEF DrainTake
  <2>2. CASE Head(input_queue) \in running_tasks
    BY <1>2, <2>1, <2>2 DEF DrainTake
  <2>3. CASE Head(input_queue) \notin running_tasks
    BY <1>2, <2>1, <2>3 DEF DrainTake
  <2> QED
    BY <2>2, <2>3
<1>3. CASE WaitTest \/ WaitRetest \/ Woken \/ PollReturns
  BY <1>3 DEF WaitTest, WaitRetest, Woken, PollReturns
<1>4. CASE \E t \in Tasks : Publish(t)
  <2>1. PICK t \in Tasks : Publish(t)
    BY <1>4
  <2>2. /\ output_queue' \in Seq(Tasks)
        /\ Len(output_queue') <= MaxQueueSize
    BY <2>1, RunnerAssumption DEF Publish
  <2>3. /\ finished' \subseteq running_tasks' /\ done' \subseteq finished'
        /\ running_tasks' \subseteq Tasks /\ current' \in Tasks
    BY <2>1 DEF Publish
  <2> QED
    BY <2>1, <2>2, <2>3 DEF Publish
<1>5. CASE \/ PublishedAll \/ DiscardActive \/ \E t \in Tasks : PublishFull(t)
  <2>1. CASE PublishedAll \/ DiscardActive
    BY <2>1 DEF PublishedAll, DiscardActive
  <2>2. CASE \E t \in Tasks : PublishFull(t)
    BY <2>2 DEF PublishFull
  <2> QED
    BY <1>5, <2>1, <2>2
<1>6. CASE CancelRemaining \/ ForgetActive \/ RecordException \/ Stop
  BY <1>6 DEF CancelRemaining, ForgetActive, RecordException, Stop
<1>7. CASE DeliverSet \/ \E t \in Tasks : CoroutineReturns(t)
  <2>1. CASE DeliverSet
    BY <2>1 DEF DeliverSet
  <2>2. CASE \E t \in Tasks : CoroutineReturns(t)
    <3>1. PICK t \in Tasks : CoroutineReturns(t)
      BY <2>2
    <3> QED
      BY <3>1 DEF CoroutineReturns
  <2> QED
    BY <1>7, <2>1, <2>2
<1> QED
  BY <1>1, <1>2, <1>3, <1>4, <1>5, <1>6, <1>7 DEF ThreadStep, Harvest

LEMMA RunnerNextTypes ==
    TypeOK /\ SubmittedTyped /\ [Next]_vars => TypeOK' /\ SubmittedTyped'
<1> SUFFICES ASSUME TypeOK, SubmittedTyped, [Next]_vars
             PROVE  TypeOK' /\ SubmittedTyped'
  OBVIOUS
<1>1. CASE UNCHANGED vars
  BY <1>1 DEF vars, clientVars, threadVars, sharedVars, TypeOK, SubmittedTyped,
     producerVars, consumerVars, taskVars, wakeVars, queues, flags, ControllerAt
<1>2. CASE Next
  BY <1>2, ProducersKeepTypes, ConsumerKeepsTypes, ControllerKeepsTypes,
     ThreadKeepsTypes DEF Next
<1> QED
  BY <1>1, <1>2

-----------------------------------------------------------------------------
(* Who owns an identifier.                                                 *)

\* Most steps only move somebody, and nobody to a place that owns.
LEMMA OwnershipSame ==
    ASSUME OwnershipInv, Live' => Live,
           at' = "discard" => at = "discard",
           UNCHANGED <<input_queue, running_tasks, active_task_ids, submitted,
                       current>>,
           \A p \in Producers : Claims(p)' => Claims(p)
    PROVE  OwnershipInv'
BY DEF OwnershipInv, InFlight

LEMMA ProducersKeepOwnership ==
    ASSUME TypeOK, SubmittedTyped, OwnershipInv, NEW p \in Producers,
           ProducerStep(p) \/ \E t \in Tasks : SubmitBegin(p, t)
    PROVE  OwnershipInv'
<1> USE DEF ProducerAt, threadVars, sharedVars, producerVars, consumerVars,
   taskVars, wakeVars, queues, flags, ControllerAt
<1>1. producer \in [Producers -> {"idle", "register", "put", "signal",
                                  "unregister"}]
  BY DEF TypeOK
<1>2. at' = at /\ (Live' <=> Live)
  BY DEF ProducerStep, SubmitBegin, SubmitDuplicate, SubmitRegister, SubmitPut,
     SubmitFull, SubmitUnregister, SubmitSignal, Signal, Live
<1>3. CASE \E t \in Tasks : SubmitBegin(p, t)
  <2>1. /\ UNCHANGED <<input_queue, running_tasks, active_task_ids, current>>
        /\ \A q \in Producers : Claims(q)' => Claims(q) /\ q # p
        /\ \A q \in Producers : q # p => submitted'[q] = submitted[q]
    BY <1>1, <1>3 DEF SubmitBegin, Claims, TypeOK
  <2> QED
    BY <1>2, <2>1 DEF OwnershipInv, InFlight
<1>4. CASE SubmitDuplicate(p) \/ SubmitFull(p) \/ SubmitSignal(p)
  <2>1. /\ UNCHANGED <<input_queue, running_tasks, active_task_ids, submitted,
                       current>>
        /\ \A q \in Producers : Claims(q)' => Claims(q)
    BY <1>1, <1>4 DEF SubmitDuplicate, SubmitFull, SubmitSignal, Signal, Claims
  <2> QED
    BY <1>2, <2>1, OwnershipSame
<1>5. CASE SubmitRegister(p)
  <2>1. /\ submitted[p] \notin active_task_ids
        /\ active_task_ids' = active_task_ids \cup {submitted[p]}
        /\ UNCHANGED <<input_queue, running_tasks, submitted, current>>
        /\ \A q \in Producers : Claims(q)' => Claims(q) \/ q = p
    BY <1>1, <1>5 DEF SubmitRegister, Claims
  <2>2. InFlight' = InFlight
    BY <2>1 DEF InFlight
  <2> QED
    BY <1>2, <2>1, <2>2 DEF OwnershipInv
<1>6. CASE SubmitPut(p)
  <2>1. /\ input_queue' = Append(input_queue, submitted[p])
        /\ UNCHANGED <<active_task_ids, running_tasks, submitted, current>>
        /\ Claims(p)
        /\ \A q \in Producers : Claims(q)' => Claims(q) /\ q # p
    BY <1>1, <1>6 DEF SubmitPut, Claims
  <2>2. input_queue \in Seq(Tasks) /\ submitted[p] \in Tasks
    BY <1>6 DEF SubmitPut, TypeOK, SubmittedTyped
  <2>3. /\ ToSet(input_queue') = ToSet(input_queue) \cup {submitted[p]}
        /\ IsInjective(input_queue) /\ submitted[p] \notin ToSet(input_queue)
              => IsInjective(input_queue')
    BY <2>1, <2>2, AppendElements
  <2>4. InFlight' = InFlight \cup {submitted[p]}
    BY <2>1, <2>3 DEF InFlight
  <2> SUFFICES ASSUME Live
               PROVE  OwnershipInv'
    BY <1>2 DEF OwnershipInv
  <2>5. /\ submitted[p] \in active_task_ids /\ submitted[p] \notin InFlight
        /\ IsInjective(input_queue)
    BY <2>1 DEF OwnershipInv
  <2>6. IsInjective(input_queue') /\ ToSet(input_queue') \cap running_tasks' = {}
    BY <2>1, <2>3, <2>5 DEF OwnershipInv, InFlight
  <2>7. InFlight' \subseteq active_task_ids'
    BY <2>1, <2>4, <2>5 DEF OwnershipInv
  <2>8. \A q \in Producers : Claims(q)' =>
           submitted'[q] \in active_task_ids' \ InFlight'
    BY <2>1, <2>4 DEF OwnershipInv
  <2>9. \A q, r \in Producers :
           Claims(q)' /\ Claims(r)' /\ submitted'[q] = submitted'[r] => q = r
    BY <2>1 DEF OwnershipInv
  <2>10. at' = "discard" =>
            /\ current' \in active_task_ids' \ InFlight'
            /\ \A q \in Producers : Claims(q)' => submitted'[q] # current'
    BY <1>2, <2>1, <2>4 DEF OwnershipInv
  <2> QED
    BY <2>6, <2>7, <2>8, <2>9, <2>10 DEF OwnershipInv
<1>7. CASE SubmitUnregister(p)
  <2>1. /\ active_task_ids' = active_task_ids \ {submitted[p]}
        /\ UNCHANGED <<input_queue, running_tasks, submitted, current>>
        /\ Claims(p)
        /\ \A q \in Producers : Claims(q)' => Claims(q) /\ q # p
    BY <1>1, <1>7 DEF SubmitUnregister, Claims
  <2>2. InFlight' = InFlight
    BY <2>1 DEF InFlight
  <2> QED
    BY <1>2, <2>1, <2>2 DEF OwnershipInv
<1> QED
  BY <1>3, <1>4, <1>5, <1>6, <1>7 DEF ProducerStep

LEMMA ClientsKeepOwnership ==
    ASSUME OwnershipInv,
           \/ ConsumerStep \/ \E count \in 1..MaxWait : WaitBegin(count)
           \/ Pause \/ ResumeClear \/ DestroyExit \/ ControllerStep
           \/ DeliverSet \/ \E t \in Tasks : CoroutineReturns(t)
    PROVE  OwnershipInv'
<1>1. UNCHANGED <<at, input_queue, running_tasks, active_task_ids, submitted,
                  producer, current>>
  BY DEF ConsumerStep, WaitBegin, WaitRaises, WaitContinues, WaitGet,
     WaitFoundEmpty, Pause, ResumeClear, DestroyExit, ControllerStep,
     ResumeSignal, DestroyClear, DestroySignal, DestroyJoined, Signal,
     DeliverSet, CoroutineReturns, clientVars, threadVars, sharedVars,
     producerVars, consumerVars, taskVars, wakeVars, queues, flags, ControllerAt
<1>2. (Live' <=> Live) /\ \A p \in Producers : Claims(p)' <=> Claims(p)
  BY <1>1 DEF Live, Claims
<1> QED
  BY <1>1, <1>2, OwnershipSame

LEMMA ThreadKeepsOwnership ==
    ASSUME TypeOK, OwnershipInv, ThreadStep
    PROVE  OwnershipInv'
<1> USE DEF ThreadAt, clientVars, sharedVars, producerVars, consumerVars,
   taskVars, wakeVars, queues, flags, ControllerAt
<1>1. UNCHANGED <<submitted, producer>>
  BY DEF ThreadStep, LoopStart, LoopTop, WakeFromSleep, DrainTest, DrainEmpty,
     DrainTake, WaitTest, WaitRetest, Woken, PollReturns, Harvest, Publish,
     PublishFull, PublishedAll, DiscardActive, CancelRemaining, ForgetActive,
     RecordException, Stop
<1>2. \A p \in Producers : Claims(p)' <=> Claims(p)
  BY <1>1 DEF Claims
<1>3. CASE \/ LoopStart \/ LoopTop \/ WakeFromSleep \/ DrainTest \/ DrainEmpty
           \/ WaitTest \/ WaitRetest \/ Woken \/ PollReturns \/ PublishedAll
  <2>1. /\ UNCHANGED <<input_queue, running_tasks, active_task_ids, current>>
        /\ Live /\ at' # "discard"
    BY <1>3 DEF LoopStart, LoopTop, WakeFromSleep, DrainTest, DrainEmpty,
       AfterDrain, WaitTest, WaitRetest, Woken, PollReturns, PublishedAll, Live
  <2> QED
    BY <1>1, <1>2, <2>1, OwnershipSame
<1>4. CASE DrainTake
  <2> DEFINE t == Head(input_queue)
  <2>1. /\ input_queue \in Seq(Tasks) /\ input_queue # <<>> /\ at = "pop"
        /\ input_queue' = Tail(input_queue)
        /\ active_task_ids' = active_task_ids
        /\ at' \in {"cancel", "drain"}
        /\ running_tasks' = running_tasks \cup {t}
    BY <1>4 DEF DrainTake, TypeOK
  <2>2. /\ ToSet(input_queue) = ToSet(input_queue') \cup {t}
        /\ IsInjective(input_queue)
              => IsInjective(input_queue') /\ t \notin ToSet(input_queue')
    BY <2>1, TailElements
  <2> HIDE DEF t
  <2>3. InFlight' = InFlight
    BY <2>1, <2>2 DEF InFlight
  <2> QED
    BY <1>1, <1>2, <2>1, <2>2, <2>3 DEF OwnershipInv, Live
<1>5. CASE \E t \in Tasks : Publish(t)
  <2>1. PICK t \in Tasks : Publish(t)
    BY <1>5
  <2>2. /\ t \in running_tasks /\ at = "publish" /\ at' = "discard"
        /\ running_tasks' = running_tasks \ {t} /\ current' = t
        /\ UNCHANGED <<input_queue, active_task_ids>>
    BY <2>1 DEF Publish, TypeOK
  <2>3. Live
    BY <2>2 DEF Live
  <2>4. InFlight' = InFlight \ {t} /\ t \in InFlight
    BY <2>2, <2>3 DEF InFlight, OwnershipInv
  <2> QED
    BY <1>1, <1>2, <2>2, <2>3, <2>4 DEF OwnershipInv
<1>6. CASE \E t \in Tasks : PublishFull(t)
  <2>1. /\ UNCHANGED <<input_queue, running_tasks, active_task_ids>>
        /\ Live /\ at' = "cancel"
    BY <1>6 DEF PublishFull, Live
  <2> QED
    BY <1>1, <1>2, <2>1 DEF OwnershipInv, InFlight
<1>7. CASE DiscardActive
  <2>1. /\ UNCHANGED <<input_queue, running_tasks>>
        /\ active_task_ids' = active_task_ids \ {current}
        /\ at = "discard" /\ at' = "publish" /\ Live
    BY <1>7 DEF DiscardActive, Live
  <2>2. InFlight' = InFlight
    BY <2>1 DEF InFlight
  <2> QED
    BY <1>1, <1>2, <2>1, <2>2 DEF OwnershipInv
<1>8. CASE CancelRemaining \/ ForgetActive \/ RecordException \/ Stop
  BY <1>8 DEF CancelRemaining, ForgetActive, RecordException, Stop, Live,
     OwnershipInv
<1> QED
  BY <1>3, <1>4, <1>5, <1>6, <1>7, <1>8 DEF ThreadStep, Harvest

RunnerInv == TypeOK /\ SubmittedTyped /\ OwnershipInv

LEMMA RunnerInitInv == Init => RunnerInv
<1> SUFFICES ASSUME Init
             PROVE  OwnershipInv
  BY RunnerInitTypes DEF RunnerInv
<1>1. InFlight = {} /\ ToSet(input_queue) = {} /\ IsInjective(input_queue)
  BY DEF Init, InFlight, ToSet, IsInjective
<1>2. at # "discard" /\ \A p \in Producers : ~Claims(p)
  BY DEF Init, Claims
<1> QED
  BY <1>1, <1>2 DEF OwnershipInv

LEMMA RunnerNextInv == RunnerInv /\ [Next]_vars => RunnerInv'
<1> SUFFICES ASSUME RunnerInv, [Next]_vars
             PROVE  OwnershipInv'
  BY RunnerNextTypes DEF RunnerInv
<1> USE DEF RunnerInv
<1>1. CASE UNCHANGED vars
  BY <1>1 DEF vars, clientVars, threadVars, sharedVars, OwnershipInv, Live,
     InFlight, Claims, producerVars, consumerVars, taskVars, wakeVars, queues,
     flags, ControllerAt
<1>2. CASE Next
  BY <1>2, ProducersKeepOwnership, ClientsKeepOwnership, ThreadKeepsOwnership
     DEF Next
<1> QED
  BY <1>1, <1>2

\* The variables keep their types and the queues their bounds.
THEOREM RunnerTypeInvariant == Spec => []TypeOK
BY RunnerInitTypes, RunnerNextTypes, PTL DEF Spec

\* Whatever submit(), the publication and the death of the thread interleave
\* to, no identifier is queued twice, or queued and running: the ValueError of
\* _drain_pending_inputs is never raised.
THEOREM NoDuplicates == Spec => []NoDuplicateInFlight
<1>1. RunnerInv => NoDuplicateInFlight
  BY DEF RunnerInv, OwnershipInv, NoDuplicateInFlight
<1> QED
  BY <1>1, RunnerInitInv, RunnerNextInv, PTL DEF Spec

-----------------------------------------------------------------------------
(* The event that wakes the loop.                                          *)

\* Somebody is about to set the event on which the loop is suspended.
SetOnItsWay ==
    \/ input_event = "set" \/ set_scheduled
    \/ \E p \in Producers : producer[p] = "signal"

ExitOnItsWay ==
    \/ input_event = "set" \/ set_scheduled
    \/ controller \in {"destroy_clear", "destroy_signal"}

\* _wait_for_new_tasks clears the event before it looks at the queue again:
\* whatever reaches the queue after that look comes with a signal.
NoLostWakeup ==
    /\ at = "await" /\ input_queue # <<>> => SetOnItsWay
    /\ at = "await" /\ exiting => ExitOnItsWay

\* Signal is a no-op while there is no event, and a loop that awaits has one.
EventInv ==
    input_event = "absent" <=>
        at \in {"start", "forget", "record", "stopping", "stopped"}

WakeInv == EventInv /\ NoLostWakeup

LEMMA ProducersKeepWakeups ==
    ASSUME TypeOK, WakeInv, NEW p \in Producers,
           ProducerStep(p) \/ \E t \in Tasks : SubmitBegin(p, t)
    PROVE  WakeInv'
<1> USE DEF ProducerAt, threadVars, sharedVars, producerVars, consumerVars,
   taskVars, wakeVars, queues, flags
<1>1. producer \in [Producers -> {"idle", "register", "put", "signal",
                                  "unregister"}]
  BY DEF TypeOK
<1>2. UNCHANGED <<at, input_event, exiting, controller>>
  BY DEF ProducerStep, SubmitBegin, SubmitDuplicate, SubmitRegister, SubmitPut,
     SubmitFull, SubmitUnregister, SubmitSignal, Signal
<1>3. EventInv'
  BY <1>2 DEF WakeInv, EventInv
<1>4. CASE SubmitPut(p)
  <2>1. producer'[p] = "signal" /\ set_scheduled' = set_scheduled
    BY <1>1, <1>4 DEF SubmitPut
  <2> QED
    BY <1>2, <1>3, <2>1 DEF WakeInv, NoLostWakeup, SetOnItsWay, ExitOnItsWay
<1>5. CASE SubmitSignal(p)
  <2>1. at = "await" => set_scheduled'
    BY <1>5 DEF SubmitSignal, Signal, WakeInv, EventInv
  <2> QED
    BY <1>2, <1>3, <2>1 DEF WakeInv, NoLostWakeup, SetOnItsWay, ExitOnItsWay
<1>6. CASE \/ SubmitDuplicate(p) \/ SubmitRegister(p) \/ SubmitFull(p)
           \/ SubmitUnregister(p) \/ \E t \in Tasks : SubmitBegin(p, t)
  <2>1. UNCHANGED <<input_queue, set_scheduled>>
    BY <1>6 DEF SubmitBegin, SubmitDuplicate, SubmitRegister, SubmitFull,
       SubmitUnregister
  <2>2. \A q \in Producers : producer[q] = "signal" => producer'[q] = "signal"
    BY <1>1, <1>6 DEF SubmitBegin, SubmitDuplicate, SubmitRegister, SubmitFull,
       SubmitUnregister
  <2> QED
    BY <1>2, <1>3, <2>1, <2>2
       DEF WakeInv, NoLostWakeup, SetOnItsWay, ExitOnItsWay
<1> QED
  BY <1>4, <1>5, <1>6 DEF ProducerStep

LEMMA ClientsKeepWakeups ==
    ASSUME WakeInv,
           \/ ConsumerStep \/ \E count \in 1..MaxWait : WaitBegin(count)
           \/ Pause \/ ResumeClear \/ DestroyExit \/ ControllerStep
    PROVE  WakeInv'
<1> USE DEF threadVars, sharedVars, clientVars, producerVars, consumerVars,
   taskVars, wakeVars, queues, flags, ControllerAt
<1>1. UNCHANGED <<at, input_event, input_queue, producer>>
  BY DEF ConsumerStep, WaitBegin, WaitRaises, WaitContinues, WaitGet,
     WaitFoundEmpty, Pause, ResumeClear, DestroyExit, ControllerStep,
     ResumeSignal, DestroyClear, DestroySignal, DestroyJoined, Signal
<1>2. EventInv'
  BY <1>1 DEF WakeInv, EventInv
<1>3. set_scheduled => set_scheduled'
  <2>1. CASE \/ ConsumerStep \/ \E count \in 1..MaxWait : WaitBegin(count)
             \/ Pause \/ ResumeClear \/ DestroyExit
    BY <2>1 DEF ConsumerStep, WaitBegin, WaitRaises, WaitContinues, WaitGet,
       WaitFoundEmpty, Pause, ResumeClear, DestroyExit
  <2>2. CASE ControllerStep
    BY <2>2 DEF ControllerStep, ResumeSignal, DestroyClear, DestroySignal,
       DestroyJoined, Signal
  <2> QED
    BY <2>1, <2>2
<1>4. at' = "await" /\ input_queue' # <<>> => SetOnItsWay'
  BY <1>1, <1>3 DEF WakeInv, NoLostWakeup, SetOnItsWay
<1>5. at' = "await" /\ exiting' => ExitOnItsWay'
  <2>1. CASE DestroyExit \/ DestroyClear
    BY <2>1 DEF DestroyExit, DestroyClear, ExitOnItsWay
  <2>2. CASE ResumeSignal \/ DestroySignal
    BY <1>1, <2>2
       DEF ResumeSignal, DestroySignal, Signal, WakeInv, EventInv, ExitOnItsWay
  <2>3. CASE \/ ConsumerStep \/ \E count \in 1..MaxWait : WaitBegin(count)
             \/ Pause
    BY <1>1, <1>3, <2>3 DEF ConsumerStep, WaitBegin, WaitRaises, WaitContinues,
       WaitGet, WaitFoundEmpty, Pause, WakeInv, NoLostWakeup, ExitOnItsWay
  <2>4. CASE ResumeClear \/ DestroyJoined
    BY <1>1, <1>3, <2>4 DEF ResumeClear, DestroyJoined, WakeInv, NoLostWakeup,
       ExitOnItsWay
  <2> QED
    BY <2>1, <2>2, <2>3, <2>4 DEF ControllerStep
<1> QED
  BY <1>2, <1>4, <1>5 DEF WakeInv, NoLostWakeup

LEMMA ThreadKeepsWakeups ==
    ASSUME WakeInv,
           ThreadStep \/ DeliverSet \/ \E t \in Tasks : CoroutineReturns(t)
    PROVE  WakeInv'
<1> USE DEF ThreadAt, clientVars, sharedVars, producerVars, consumerVars,
   taskVars, wakeVars, queues, flags
<1>1. CASE WaitTest
  BY <1>1 DEF WaitTest, WakeInv, EventInv, NoLostWakeup
<1>2. CASE WaitRetest
  BY <1>2 DEF WaitRetest, WakeInv, EventInv, NoLostWakeup
<1>3. CASE DeliverSet
  BY <1>3 DEF DeliverSet, Suspended, WakeInv, EventInv, NoLostWakeup,
     SetOnItsWay, ExitOnItsWay
<1>4. CASE \E t \in Tasks : CoroutineReturns(t)
  <2>1. UNCHANGED <<at, input_event, set_scheduled, input_queue, producer,
                    controller, exiting>>
    BY <1>4 DEF CoroutineReturns
  <2> QED
    BY <2>1 DEF WakeInv, EventInv, NoLostWakeup, SetOnItsWay, ExitOnItsWay
<1>5. CASE \/ LoopStart \/ LoopTop \/ WakeFromSleep
           \/ DrainTest \/ DrainEmpty \/ DrainTake
           \/ Woken \/ PollReturns \/ Harvest
           \/ CancelRemaining \/ ForgetActive \/ RecordException \/ Stop
  <2>1. at' # "await"
    BY <1>5 DEF LoopStart, LoopTop, WakeFromSleep, DrainTest, DrainEmpty,
       DrainTake, AfterDrain, Woken, PollReturns, Harvest, Publish, PublishFull,
       PublishedAll, DiscardActive, CancelRemaining, ForgetActive,
       RecordException, Stop
  <2>2. EventInv'
    BY <1>5 DEF WakeInv, EventInv, LoopStart, LoopTop, WakeFromSleep, DrainTest,
       DrainEmpty, DrainTake, AfterDrain, Woken, PollReturns, Harvest, Publish,
       PublishFull, PublishedAll, DiscardActive, CancelRemaining, ForgetActive,
       RecordException, Stop
  <2> QED
    BY <2>1, <2>2 DEF WakeInv, NoLostWakeup
<1> QED
  BY <1>1, <1>2, <1>3, <1>4, <1>5 DEF ThreadStep

\* A loop suspended on its event while a task waits in the queue, or while the
\* thread is told to exit, has the event set, or scheduled to be set, or its
\* signaller still inside the call: the safety half of QueuedIsStarted and of
\* DestroyTerminates, whatever submit(), pause(), resume() and destroy()
\* interleave to.
THEOREM WakeupsAreKept == Spec => []NoLostWakeup
<1>1. Init => WakeInv
  BY DEF Init, WakeInv, EventInv, NoLostWakeup
<1>2. TypeOK /\ WakeInv /\ [Next]_vars => WakeInv'
  <2> SUFFICES ASSUME TypeOK, WakeInv, [Next]_vars
               PROVE  WakeInv'
    OBVIOUS
  <2>1. CASE UNCHANGED vars
    BY <2>1 DEF vars, clientVars, threadVars, sharedVars, producerVars,
       consumerVars, taskVars, wakeVars, queues, flags, WakeInv, EventInv,
       NoLostWakeup, SetOnItsWay, ExitOnItsWay
  <2>2. CASE Next
    BY <2>2, ProducersKeepWakeups, ClientsKeepWakeups, ThreadKeepsWakeups
       DEF Next
  <2> QED
    BY <2>1, <2>2
<1> QED
  BY <1>1, <1>2, RunnerTypeInvariant, PTL DEF Spec, WakeInv

-----------------------------------------------------------------------------
(* The thread implements TaskRunner.                                       *)

LEMMA InterfaceInit == Init => Interface!RunnerInit
BY DEF Init, Interface!RunnerInit, Live

LEMMA ClientsUseInterface ==
    ASSUME RunnerInv,
           \/ \E p \in Producers : ProducerStep(p)
           \/ \E p \in Producers, t \in Tasks : SubmitBegin(p, t)
           \/ ConsumerStep \/ \E count \in 1..MaxWait : WaitBegin(count)
           \/ Pause \/ ResumeClear \/ DestroyExit \/ ControllerStep
           \/ DeliverSet \/ \E t \in Tasks : CoroutineReturns(t)
    PROVE  Interface!RunnerNext \/ UNCHANGED Interface!runnerVars
<1> USE DEF clientVars, threadVars, sharedVars, Interface!runnerVars,
   producerVars, consumerVars, taskVars, wakeVars, queues, flags, ControllerAt
<1>1. at' = at /\ Live' = Live
  BY DEF ProducerStep, SubmitBegin, SubmitDuplicate, SubmitRegister, SubmitPut,
     SubmitFull, SubmitUnregister, SubmitSignal, Signal, ConsumerStep,
     WaitBegin, WaitRaises, WaitContinues, WaitGet, WaitFoundEmpty, Pause,
     ResumeClear, DestroyExit, ControllerStep, ResumeSignal, DestroyClear,
     DestroySignal, DestroyJoined, DeliverSet, CoroutineReturns, Live
<1>2. ASSUME NEW p \in Producers, SubmitPut(p)
      PROVE  Interface!RunnerNext
  <2>1. submitted[p] \in Tasks
    BY <1>2 DEF SubmitPut, ProducerAt, RunnerInv, SubmittedTyped
  <2>2. Len(input_queue) < MaxQueueSize /\ Len(input_queue) \in Nat
    BY <1>2 DEF SubmitPut, RunnerInv, TypeOK
  <2>3. ~Interface!InputFull
    BY <2>2, RunnerAssumption DEF Interface!InputFull
  <2>4. Interface!Submit(submitted[p])
    BY <1>1, <1>2, <2>3 DEF SubmitPut, Interface!Submit
  <2> QED
    BY <2>1, <2>4 DEF Interface!RunnerNext
<1>3. ASSUME NEW p \in Producers,
             \/ \E t \in Tasks : SubmitBegin(p, t)
             \/ ProducerStep(p) /\ ~SubmitPut(p)
      PROVE  UNCHANGED Interface!runnerVars
  BY <1>1, <1>3 DEF ProducerStep, SubmitBegin, SubmitDuplicate, SubmitRegister,
     SubmitFull, SubmitUnregister, SubmitSignal, Signal
<1>4. CASE WaitGet
  <2>1. Interface!Take
    BY <1>1, <1>4 DEF WaitGet, Interface!Take
  <2> QED
    BY <2>1 DEF Interface!RunnerNext
<1>5. CASE \/ WaitRaises \/ WaitContinues \/ WaitFoundEmpty
           \/ \E count \in 1..MaxWait : WaitBegin(count)
  BY <1>1, <1>5 DEF WaitRaises, WaitContinues, WaitFoundEmpty, WaitBegin
<1>6. CASE Pause \/ ResumeClear \/ DestroyClear
  <2>1. Interface!SetPaused(TRUE) \/ Interface!SetPaused(FALSE)
    BY <1>1, <1>6 DEF Pause, ResumeClear, DestroyClear, Interface!SetPaused
  <2> QED
    BY <2>1 DEF Interface!RunnerNext
<1>7. CASE \/ DestroyExit \/ ResumeSignal \/ DestroySignal \/ DestroyJoined
           \/ DeliverSet
  BY <1>1, <1>7 DEF DestroyExit, ResumeSignal, DestroySignal, DestroyJoined,
     DeliverSet, Signal
<1>8. CASE \E t \in Tasks : CoroutineReturns(t)
  <2>1. PICK t \in Tasks : CoroutineReturns(t)
    BY <1>8
  <2>2. Live
    BY <2>1 DEF CoroutineReturns, Suspended, Live
  <2>3. Interface!CoroutineReturns(t)
    BY <1>1, <2>1, <2>2 DEF CoroutineReturns, Interface!CoroutineReturns
  <2> QED
    BY <2>3 DEF Interface!RunnerNext
<1> QED
  BY <1>2, <1>3, <1>4, <1>5, <1>6, <1>7, <1>8 DEF ConsumerStep, ControllerStep

LEMMA ThreadUsesInterface ==
    ASSUME RunnerInv, ThreadStep
    PROVE  Interface!RunnerNext \/ UNCHANGED Interface!runnerVars
<1> USE DEF clientVars, sharedVars, ThreadAt, producerVars, consumerVars,
   taskVars, wakeVars, queues, flags, ControllerAt
<1>1. CASE DrainTest
  <2>1. CASE paused
    BY <1>1, <2>1 DEF DrainTest, AfterDrain, Live, Interface!runnerVars
  <2>2. CASE ~paused
    <3>1. Interface!Admit
      BY <1>1, <2>2 DEF DrainTest, Live, Interface!Admit
    <3> QED
      BY <3>1 DEF Interface!RunnerNext
  <2> QED
    BY <2>1, <2>2
<1>2. CASE DrainEmpty
  <2>1. Interface!FoundEmpty
    BY <1>2 DEF DrainEmpty, AfterDrain, Live, Interface!FoundEmpty
  <2> QED
    BY <2>1 DEF Interface!RunnerNext
<1>3. CASE DrainTake
  <2>1. Live /\ input_queue \in Seq(Tasks) /\ input_queue # <<>>
    BY <1>3 DEF DrainTake, Live, RunnerInv, TypeOK
  <2>2. Head(input_queue) \in ToSet(input_queue)
    BY <2>1, TailElements
  <2>3. Head(input_queue) \notin running_tasks
    BY <2>1, <2>2 DEF RunnerInv, OwnershipInv
  <2>4. Interface!Start
    BY <1>3, <2>1, <2>3 DEF DrainTake, Live, Interface!Start
  <2> QED
    BY <2>4 DEF Interface!RunnerNext
<1>4. CASE \E t \in Tasks : Publish(t)
  <2>1. PICK t \in Tasks : Publish(t)
    BY <1>4
  <2>2. t \in finished /\ Len(output_queue) < MaxQueueSize
    BY <2>1 DEF Publish, RunnerInv, TypeOK
  <2>3. ~Interface!OutputFull
    BY <2>2, RunnerAssumption DEF Interface!OutputFull, RunnerInv, TypeOK
  <2>4. Interface!Publish(t)
    BY <2>1, <2>2, <2>3 DEF Publish, Live, Interface!Publish
  <2> QED
    BY <2>4 DEF Interface!RunnerNext
<1>5. CASE CancelRemaining
  <2>1. Interface!RunnerStops
    BY <1>5 DEF CancelRemaining, Live, Interface!RunnerStops
  <2> QED
    BY <2>1 DEF Interface!RunnerNext
<1>6. CASE \/ LoopStart \/ LoopTop \/ WakeFromSleep \/ WaitTest \/ WaitRetest
           \/ Woken \/ PollReturns \/ PublishedAll \/ DiscardActive
           \/ \E t \in Tasks : PublishFull(t)
  BY <1>6 DEF LoopStart, LoopTop, WakeFromSleep, WaitTest, WaitRetest, Woken,
     PollReturns, PublishedAll, DiscardActive, PublishFull, Live,
     Interface!runnerVars
<1>7. CASE ForgetActive \/ RecordException \/ Stop
  BY <1>7 DEF ForgetActive, RecordException, Stop, Live, Interface!runnerVars
<1> QED
  BY <1>1, <1>2, <1>3, <1>4, <1>5, <1>6, <1>7 DEF ThreadStep, Harvest

\* The background thread with its event, suspensions and duplicate test
\* implements the two queues and the set of rollouts that the dispatcher is
\* built on.
THEOREM RunnerImplementsInterface == Spec => ImplementsTaskRunner
<1>1. RunnerInv /\ [Next]_vars
         => Interface!RunnerNext \/ UNCHANGED Interface!runnerVars
  <2> SUFFICES ASSUME RunnerInv, [Next]_vars
               PROVE  Interface!RunnerNext \/ UNCHANGED Interface!runnerVars
    OBVIOUS
  <2>1. CASE UNCHANGED vars
    BY <2>1 DEF vars, clientVars, threadVars, sharedVars, Live,
       Interface!runnerVars, producerVars, consumerVars, taskVars, wakeVars,
       queues, flags, ControllerAt
  <2>2. CASE Next
    BY <2>2, ClientsUseInterface, ThreadUsesInterface DEF Next
  <2> QED
    BY <2>1, <2>2
<1> QED
  BY <1>1, RunnerInitInv, RunnerNextInv, InterfaceInit, PTL
     DEF Spec, ImplementsTaskRunner, Interface!RunnerSpec
=============================================================================
