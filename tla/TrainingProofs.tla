--------------------------- MODULE TrainingProofs ---------------------------
(***************************************************************************)
(* The training loop is a client of the dispatcher: each of its steps is   *)
(* one of BatchTaskDispatcher, so what is proved of Spec holds of it.  The *)
(* one call with an argument that has to be shown legal is wait_results:   *)
(* the loop never waits for nothing, nor for more than there can be, which *)
(* rests on the arithmetic of the batch under way (BatchInv).              *)
(*                                                                         *)
(* The properties of the loop itself follow in four steps: what the        *)
(* clients hold has been created, so that [:count] of the results sorted   *)
(* by create_time is at most count of them (CreatedInv, OldestFits); the   *)
(* versions count the batches that were used (UsedInv); samples that exist *)
(* less samples that were used bound the backlog (ReadyIsBounded); and     *)
(* what a rollout finds when it starts bounds its age (AgeInv).            *)
(***************************************************************************)
EXTENDS RolloutTraining, DispatcherProofs, WellFoundedInduction

\* The batch under way is not complete; without dynamic_bs only the accepted
\* results are attempts.
BatchInv ==
    /\ accepted_cnt \in Nat /\ total_attempts \in Nat
    /\ accepted_cnt <= total_attempts /\ total_attempts < ConsumerBatchSize
    /\ ~DynamicBS => total_attempts = accepted_cnt

LEMMA BatchSizePositive == ConsumerBatchSize \in Nat /\ ConsumerBatchSize >= 1
BY StalenessAssumption, TrainingAssumption

\* wait_results is called with at least one and at most all the tasks.
LEMMA WaitIsLegal ==
    ASSUME TypeOK, BatchInv, ArriveInTime
    PROVE  DispatcherNext
<1>1. Trainer \in Clients
  BY TrainingAssumption
<1>2. Missing \in Nat /\ Missing >= 1
  BY BatchSizePositive DEF BatchInv, Missing
<1>3. Cardinality(pending_results) >= Missing /\ WaitDrains(Trainer, Missing)
  BY DEF ArriveInTime, WaitDrains
<1>4. /\ Cardinality(pending_results) \in Nat /\ Cardinality(Tasks) \in Nat
      /\ Cardinality(pending_results) <= Cardinality(Tasks)
  BY DispatcherAssumption, FS_Subset, FS_CardinalityType DEF TypeOK, TaskTypeOK
<1>5. Missing \in 1..Cardinality(Tasks)
  BY <1>2, <1>3, <1>4
<1>6. Missing \in Tasks
  BY <1>5, DispatcherAssumption
<1> QED
  BY <1>1, <1>3, <1>6 DEF Calls, DispatcherNext

LEMMA TrainerIsClient ==
    ASSUME TypeOK, BatchInv, [Next]_vars
    PROVE  [DispatcherNext]_dispatcherVars
<1>1. Trainer \in Clients
  BY TrainingAssumption
<1>2. CASE TrainerStep
  <2>1. CASE BeginRound \/ EndRound \/ ArriveLate
    BY <2>1 DEF BeginRound, EndRound, ArriveLate
  <2>2. CASE SubmitOne
    BY <1>1, <2>2 DEF SubmitOne, Calls, DispatcherNext
  <2>3. CASE ActivateOne
    BY <1>1, <2>3 DEF ActivateOne, ClientStep, DispatcherNext
  <2>4. CASE CountBatch
    BY <1>1, <2>4 DEF CountBatch, ClientStep, DispatcherNext
  <2>5. CASE TrainAndPause \/ UpdateVersion \/ Resume \/ Notify
    BY <2>5 DEF TrainAndPause, UpdateVersion, Resume, Notify, DispatcherNext
  <2>6. CASE ArriveInTime
    BY <2>6, WaitIsLegal
  <2> QED
    BY <1>2, <2>1, <2>2, <2>3, <2>4, <2>5, <2>6 DEF TrainerStep
<1>3. CASE StartRollout
  BY <1>3 DEF StartRollout, RunnerThread, DispatcherNext
<1>4. CASE Background
  BY <1>4 DEF Background, RunnerThread, DispatcherNext
<1>5. CASE \E t \in Tasks : EndRollout(t) \/ PublishResult(t)
  BY <1>5 DEF EndRollout, PublishResult, RunnerThread, Rollouts, DispatcherNext
<1>6. CASE UNCHANGED vars
  BY <1>6 DEF vars
<1> QED
  BY <1>2, <1>3, <1>4, <1>5, <1>6 DEF Next

LEMMA CountKeepsBatch ==
    ASSUME TypeOK, BatchInv, CountBatch
    PROVE  BatchInv'
<1> DEFINE arrived == Oldest(drained[Trainer], Missing)
           good == {t \in arrived : verdict[t] = "accepted"}
           attempts == total_attempts
                          + Cardinality(IF DynamicBS THEN arrived ELSE good)
           complete == IF DynamicBS THEN attempts >= ConsumerBatchSize
                       ELSE accepted_cnt + Cardinality(good) >= ConsumerBatchSize
<1>1. good \subseteq arrived /\ arrived \subseteq Tasks
  BY TrainingAssumption DEF TypeOK, TaskTypeOK, Oldest
<1>2. /\ Cardinality(good) \in Nat /\ Cardinality(arrived) \in Nat
      /\ Cardinality(good) <= Cardinality(arrived)
  <2>1. IsFiniteSet(arrived)
    BY <1>1, DispatcherAssumption, FS_Subset
  <2> HIDE DEF arrived, good
  <2>2. IsFiniteSet(good) /\ Cardinality(good) <= Cardinality(arrived)
    BY <1>1, <2>1, FS_Subset
  <2> QED
    BY <2>1, <2>2, FS_CardinalityType
<1>3. /\ accepted_cnt' = IF complete THEN 0 ELSE accepted_cnt + Cardinality(good)
      /\ total_attempts' = IF complete THEN 0 ELSE attempts
  BY DEF CountBatch, BatchComplete
<1>4. DynamicBS \in BOOLEAN
  BY TrainingAssumption
<1>5. CASE complete
  BY <1>3, <1>5, BatchSizePositive DEF BatchInv
<1>6. CASE ~complete /\ DynamicBS
  <2>1. /\ attempts = total_attempts + Cardinality(arrived)
        /\ attempts < ConsumerBatchSize
        /\ accepted_cnt + Cardinality(good) <= attempts
        /\ attempts \in Nat
    <3> HIDE DEF arrived, good
    <3>1. attempts = total_attempts + Cardinality(arrived)
      BY <1>6
    <3> QED
      BY <1>2, <1>6, <3>1, BatchSizePositive DEF BatchInv
  <2> HIDE DEF arrived, good, attempts
  <2> QED
    BY <1>2, <1>3, <1>6, <2>1 DEF BatchInv
<1>7. CASE ~complete /\ ~DynamicBS
  <2> HIDE DEF arrived, good
  <2>1. attempts = total_attempts + Cardinality(good)
    BY <1>7
  <2>2. accepted_cnt + Cardinality(good) < ConsumerBatchSize
    BY <1>2, <1>7, BatchSizePositive DEF BatchInv
  <2> QED
    BY <1>2, <1>3, <1>7, <2>1, <2>2 DEF BatchInv
<1> QED
  BY <1>5, <1>6, <1>7

LEMMA NextKeepsBatch == TypeOK /\ BatchInv /\ [Next]_vars => BatchInv'
<1> SUFFICES ASSUME TypeOK, BatchInv, [Next]_vars
             PROVE  BatchInv'
  OBVIOUS
<1>1. CASE CountBatch
  BY <1>1, CountKeepsBatch
<1>2. CASE ~CountBatch
  <2>1. accepted_cnt' = accepted_cnt /\ total_attempts' = total_attempts
    BY <1>2 DEF Next, vars, loopVars, TrainerStep, BeginRound, SubmitOne,
       ActivateOne, EndRound, ArriveInTime, ArriveLate, TrainAndPause,
       UpdateVersion, Resume, Notify, StartRollout, EndRollout, PublishResult,
       Background
  <2> QED
    BY <2>1 DEF BatchInv
<1> QED
  BY <1>1, <1>2

\* The loop of active_submit_and_wait, the weight update and the version use
\* the dispatcher as Spec allows: no wait for nothing or for too much, no pause
\* out of turn.
THEOREM TrainingIsClient == TrainingSpec => Spec
<1> DEFINE Inv == TypeOK /\ BatchInv
<1>1. Init => DispatcherInit /\ Inv
  BY InitTypes, BatchSizePositive DEF Init, BatchInv
<1>2. Inv /\ [Next]_vars => Inv' /\ [DispatcherNext]_dispatcherVars
  BY TrainerIsClient, NextTypes, NextKeepsBatch
<1> HIDE DEF Inv
<1> QED
  BY <1>1, <1>2, PTL DEF TrainingSpec, Spec

\* With the trainer as its client the dispatcher keeps both limits.
THEOREM TrainingIsBounded == TrainingSpec => [](SampleBound /\ ConcurrencyBound)
BY TrainingIsClient, SamplesAreBounded, RolloutsAreBounded, PTL

-----------------------------------------------------------------------------
(* The batch that is selected.                                             *)

\* A set of indices has a last one.
LEMMA LastIndex ==
    ASSUME NEW n \in Nat, NEW I, I \subseteq 1..n, I # {}
    PROVE  \E m \in I : \A i \in I : i <= m
<1> DEFINE D == {n - i : i \in I}
<1>1. D \subseteq Nat /\ D # {}
  <2>1. \A i \in I : i \in 1..n
    OBVIOUS
  <2>2. \A i \in I : n - i \in Nat
    BY <2>1
  <2> QED
    BY <2>2
<1>2. PICK x \in D : \A y \in D : ~(<<y, x>> \in OpToRel(<, Nat))
  BY <1>1, NatLessThanWellFounded, WFMin
<1>3. \A y \in D : ~(y < x)
  BY <1>1, <1>2 DEF OpToRel
<1>4. PICK m \in I : x = n - m
  OBVIOUS
<1>5. \A i \in I : i <= m
  <2> SUFFICES ASSUME NEW i \in I PROVE i <= m
    OBVIOUS
  <2>1. ~(n - i < n - m)
    BY <1>3, <1>4
  <2> QED
    BY <2>1
<1> QED
  BY <1>5

\* [:count] of the sorted results: at most count, once all have been created.
LEMMA OldestFits ==
    ASSUME create_order \in Seq(Tasks), NEW S, S \subseteq ToSet(create_order), NEW n \in Nat
    PROVE  Cardinality(Oldest(S, n)) <= n
<1> DEFINE T == Oldest(S, n)
           L == Len(create_order)
           I == {i \in 1..L : create_order[i] \in T}
           Earlier(t) == {u \in S : CreatedBefore(u, t)}
<1>1. L \in Nat /\ DOMAIN create_order = 1..L /\ S \subseteq Tasks /\ T \subseteq S
  BY RangeTyped DEF Oldest
<1>2. IsFiniteSet(S) /\ IsFiniteSet(T)
  BY <1>1, DispatcherAssumption, FS_Subset
<1>3. CASE T = {}
  BY <1>3, FS_EmptySet
<1>4. CASE T # {}
  <2>1. I # {}
    BY <1>1, <1>4 DEF ToSet
  <2>2. PICK m \in I : \A i \in I : i <= m
    <3>1. I \subseteq 1..L
      OBVIOUS
    <3> HIDE DEF I, L
    <3> QED
      BY <1>1, <2>1, <3>1, LastIndex
  <2> DEFINE t == create_order[m]
  <2>3. t \in T /\ Cardinality(Earlier(t)) < n
    BY DEF Oldest
  <2>4. T \ {t} \subseteq Earlier(t)
    <3> SUFFICES ASSUME NEW u \in T, u # t PROVE CreatedBefore(u, t)
      BY <1>1
    <3>1. PICK i \in 1..L : create_order[i] = u
      BY <1>1 DEF ToSet
    <3>2. i \in I /\ i <= m /\ i # m /\ m \in 1..L
      BY <2>2, <3>1
    <3>3. i < m /\ create_order[i] = u /\ create_order[m] = t
      BY <1>1, <3>1, <3>2
    <3> QED
      BY <1>1, <3>2, <3>3 DEF CreatedBefore
  <2>5. IsFiniteSet(Earlier(t))
    BY <1>2, FS_Subset
  <2> HIDE DEF T, t, Earlier
  <2>6. /\ Cardinality(T \ {t}) <= Cardinality(Earlier(t)) /\ IsFiniteSet(T \ {t})
    BY <2>4, <2>5, FS_Subset
  <2>7. Cardinality(T \ {t}) = Cardinality(T) - 1
    BY <1>2, <2>3, FS_RemoveElement
  <2>8. Cardinality(T) \in Nat /\ Cardinality(Earlier(t)) \in Nat
    BY <1>2, <2>5, FS_CardinalityType
  <2> QED
    BY <2>3, <2>6, <2>7, <2>8 DEF T
<1> QED
  BY <1>3, <1>4

\* What a client or the runner holds has been created.
Made == running_tasks \cup ToSet(output_queue) \cup ToSet(fetched) \cup pending_results
            \cup UNION {drained[c] : c \in Clients}

CreatedInv ==
    /\ Made \subseteq ToSet(create_order)
    /\ IsInjective(create_order)
    /\ ToSet(create_order) \cap NotStarted = {}
    /\ \A t \in ToSet(create_order) : t <= issued

\* A step that creates nothing.
LEMMA NothingCreated ==
    ASSUME CreatedInv, UNCHANGED create_order, Made' \subseteq Made,
           NotStarted' \subseteq NotStarted, issued' = issued
    PROVE  CreatedInv'
BY DEF CreatedInv

LEMMA CommitKeepsCreated ==
    ASSUME TypeOK, StartInv, CreatedInv, CommitStep
    PROVE  CreatedInv'
<1>1. UNCHANGED <<running_tasks, output_queue, fetched, pending_results, drained, create_order,
                  issued>>
  BY DEF CommitStep, CommitNext, CommitWaits, CommitSubmit, Submit, CommitAccount,
     CommitQueueFull, CommitRequeue, CommitRecheckFull, CommitExits, CommitFails,
     runnerVars, receiveVars, rolloutVars, inputVars, fetchVars, clientVars, resultVars
<1>2. Made' = Made
  BY <1>1 DEF Made
<1>3. NotStarted' \subseteq NotStarted
  <2>1. CASE CommitNext
    <3>1. /\ pending_inputs \in Seq(Tasks) /\ pending_inputs # <<>>
          /\ pending_inputs' = Tail(pending_inputs) /\ input_queue' = input_queue
          /\ PreSubmit' = {Head(pending_inputs)}
      BY <2>1 DEF CommitNext, MaySubmit, PreSubmit, runnerVars, TypeOK, TaskTypeOK
    <3>2. ToSet(pending_inputs) = ToSet(pending_inputs') \cup {Head(pending_inputs)}
      BY <3>1, TailElements
    <3> QED
      BY <3>1, <3>2 DEF NotStarted
  <2>2. CASE CommitSubmit
    <3>1. /\ input_queue \in Seq(Tasks) /\ committing \in Tasks
          /\ input_queue' = Append(input_queue, committing)
          /\ PreSubmit = {committing} /\ PreSubmit' = {}
          /\ pending_inputs' = pending_inputs
      BY <2>2 DEF CommitSubmit, Submit, PreSubmit, inputVars, TypeOK, RunnerTypeOK,
         CommitTypeOK, Holding
    <3>2. ToSet(input_queue') = ToSet(input_queue) \cup {committing}
      BY <3>1, AppendElements
    <3> QED
      BY <3>1, <3>2 DEF NotStarted
  <2>3. CASE CommitRequeue
    <3>1. /\ pending_inputs \in Seq(Tasks) /\ committing \in Tasks
          /\ pending_inputs' = <<committing>> \o pending_inputs
          /\ PreSubmit = {committing} /\ PreSubmit' = {}
          /\ input_queue' = input_queue
      BY <2>3 DEF CommitRequeue, FullNext, PreSubmit, runnerVars, TypeOK, TaskTypeOK,
         CommitTypeOK, Holding
    <3>2. ToSet(pending_inputs') = ToSet(pending_inputs) \cup {committing}
      BY <3>1, ConsElements
    <3> QED
      BY <3>1, <3>2 DEF NotStarted
  <2>4. CASE \/ CommitWaits \/ CommitAccount \/ CommitQueueFull
             \/ CommitRecheckFull \/ CommitExits \/ CommitFails
    <3>1. UNCHANGED <<pending_inputs, input_queue>> /\ PreSubmit' \subseteq PreSubmit
      BY <2>4 DEF CommitWaits, CommitAccount, CommitQueueFull, CommitRecheckFull, FullNext,
         CommitExits, CommitFails, PreSubmit, runnerVars, inputVars
    <3> QED
      BY <3>1 DEF NotStarted
  <2> QED
    BY <2>1, <2>2, <2>3, <2>4 DEF CommitStep
<1> QED
  BY <1>1, <1>2, <1>3, NothingCreated

LEMMA FetchKeepsCreated ==
    ASSUME TypeOK, CreatedInv, FetchStep
    PROVE  CreatedInv'
<1>1. /\ UNCHANGED <<running_tasks, input_queue, pending_inputs, drained, create_order, issued>>
      /\ UNCHANGED commitVars \/ NotifyInput
  BY DEF FetchStep, FetchPoll, FetchGet, Take, FetchTimeout, FetchStore, FetchNotify,
     FetchExits, FetchFails, runnerVars, inputVars, flowVars, sendVars, clientVars,
     rolloutVars
<1>2. PreSubmit' = PreSubmit
  BY <1>1, WokenKeepsPreSubmit DEF commitVars, PreSubmit
<1>3. NotStarted' = NotStarted
  BY <1>1, <1>2 DEF NotStarted
<1>4. output_queue \in Seq(Tasks) /\ fetched \in Seq(Tasks) /\ ToSet(<<>>) = {}
  BY DEF TypeOK, RunnerTypeOK, FetchTypeOK, ToSet
<1>5. ToSet(output_queue') \cup ToSet(fetched') \cup pending_results'
          \subseteq ToSet(output_queue) \cup ToSet(fetched) \cup pending_results
  <2>1. CASE FetchGet
    <3>1. /\ output_queue # <<>> /\ output_queue' = Tail(output_queue)
          /\ fetched' = Append(fetched, Head(output_queue))
          /\ pending_results' = pending_results /\ Head(output_queue) \in Tasks
      BY <1>4, <2>1 DEF FetchGet, Take, flowVars, resultVars
    <3>2. /\ ToSet(output_queue) = ToSet(output_queue') \cup {Head(output_queue)}
          /\ ToSet(fetched') = ToSet(fetched) \cup {Head(output_queue)}
      BY <1>4, <3>1, TailElements, AppendElements
    <3> QED
      BY <3>1, <3>2
  <2>2. CASE ~FetchGet
    BY <1>4, <2>2 DEF FetchStep, FetchPoll, FetchTimeout, FetchStore, FetchNotify,
       FetchExits, FetchFails, runnerVars, flowVars, resultVars
  <2> QED
    BY <2>1, <2>2
<1>6. Made' \subseteq Made
  BY <1>1, <1>5 DEF Made
<1> QED
  BY <1>1, <1>3, <1>6, NothingCreated

LEMMA RunnerKeepsCreated ==
    ASSUME TypeOK, StartInv, CreatedInv, RunnerThread \/ Rollouts
    PROVE  CreatedInv'
<1>1. UNCHANGED <<issued, pending_inputs, commit, committing, fetched, pending_results, drained>>
  BY DEF RunnerThread, Rollouts, RunnerAdmits, RunnerStarts, RunnerEnds, RunnerPublishes,
     RolloutAccepted, RolloutRejected, Idle, commitVars, fetchVars, clientVars, inputVars,
     resultVars
<1>2. PreSubmit' = PreSubmit
  BY <1>1 DEF PreSubmit
<1>3. output_queue \in Seq(Tasks) /\ input_queue \in Seq(Tasks) /\ create_order \in Seq(Tasks)
  BY DEF TypeOK, RunnerTypeOK, TaskTypeOK
<1>4. CASE RunnerStarts
  <2> DEFINE t == Head(input_queue)
  <2>1. /\ input_queue # <<>> /\ input_queue' = Tail(input_queue) /\ t \in Tasks
        /\ running_tasks' = running_tasks \cup {t} /\ output_queue' = output_queue
        /\ create_order' = Append(create_order, t)
    BY <1>3, <1>4 DEF RunnerStarts, Start
  <2>2. /\ ToSet(input_queue) = ToSet(input_queue') \cup {t} /\ t \notin ToSet(input_queue')
    BY <1>3, <2>1, TailElements DEF StartInv
  <2> HIDE DEF t
  <2>3. t \in NotStarted /\ t \notin ToSet(pending_inputs) /\ t \notin PreSubmit /\ t <= issued
    BY <2>2 DEF NotStarted, StartInv
  <2>4. NotStarted' = NotStarted \ {t}
    BY <1>1, <1>2, <2>2, <2>3 DEF NotStarted
  <2>5. Made' = Made \cup {t}
    BY <1>1, <2>1 DEF Made
  <2>6. /\ ToSet(create_order') = ToSet(create_order) \cup {t} /\ IsInjective(create_order')
    <3>1. t \notin ToSet(create_order)
      BY <2>3 DEF CreatedInv
    <3> QED
      BY <1>3, <2>1, <3>1, AppendElements DEF CreatedInv
  <2> QED
    BY <1>1, <2>3, <2>4, <2>5, <2>6 DEF CreatedInv
<1>5. CASE ~RunnerStarts
  <2>1. UNCHANGED <<input_queue, create_order>>
    BY <1>5 DEF RunnerThread, Rollouts, RunnerAdmits, Admit, FoundEmpty, RunnerEnds,
       RunnerStops, RunnerPublishes, Publish, RolloutAccepted, RolloutRejected,
       CoroutineReturns, rolloutVars
  <2>2. NotStarted' = NotStarted
    BY <1>1, <1>2, <2>1 DEF NotStarted
  <2>3. running_tasks' \cup ToSet(output_queue') \subseteq running_tasks \cup ToSet(output_queue)
    <3>1. CASE \E t \in Tasks : RunnerPublishes(t)
      <4>1. PICK t \in Tasks : RunnerPublishes(t)
        BY <3>1
      <4>2. /\ t \in running_tasks /\ running_tasks' = running_tasks \ {t}
            /\ output_queue' = Append(output_queue, t)
        BY <4>1 DEF RunnerPublishes, Publish, TypeOK, RunnerTypeOK
      <4>3. ToSet(output_queue') = ToSet(output_queue) \cup {t}
        BY <1>3, <4>2, AppendElements
      <4> QED
        BY <4>2, <4>3
    <3>2. CASE ~\E t \in Tasks : RunnerPublishes(t)
      BY <1>5, <3>2 DEF RunnerThread, Rollouts, RunnerAdmits, Admit, FoundEmpty, RunnerEnds,
         RunnerStops, RolloutAccepted, RolloutRejected, CoroutineReturns
    <3> QED
      BY <3>1, <3>2
  <2>4. Made' \subseteq Made
    BY <1>1, <2>3 DEF Made
  <2> QED
    BY <1>1, <2>1, <2>2, <2>4, NothingCreated
<1> QED
  BY <1>4, <1>5

LEMMA ClientKeepsCreated ==
    ASSUME TypeOK, CreatedInv, NEW c \in Clients, Calls(c) \/ ClientStep(c)
    PROVE  CreatedInv'
<1>1. UNCHANGED <<input_queue, running_tasks, output_queue, fetched, create_order>>
  BY DEF Calls, ClientStep, SubmitTaskInput, WaitDrains, TaskArrives, ActivateTask,
     WaitSelects, runnerVars, fetchVars, sendVars, rolloutVars
<1>2. drained \in [Clients -> SUBSET Tasks] /\ create_order \in Seq(Tasks)
  BY DEF TypeOK, TaskTypeOK
<1>3. CASE SubmitTaskInput(c)
  <2> DEFINE u == issued + 1
  <2>1. /\ u \in Tasks /\ issued' = u /\ issued \in Nat /\ pending_inputs \in Seq(Tasks)
        /\ pending_inputs' = Append(pending_inputs, u) /\ NotifyInput
        /\ UNCHANGED <<pending_results, drained>>
    BY <1>3 DEF SubmitTaskInput, resultVars, TypeOK, TaskTypeOK
  <2>2. ToSet(pending_inputs') = ToSet(pending_inputs) \cup {u} /\ PreSubmit' = PreSubmit
    BY <2>1, AppendElements, WokenKeepsPreSubmit
  <2>3. \A t \in ToSet(create_order) : t \in Nat /\ t <= issued
    BY <1>2, RangeTyped, TasksAreNaturals DEF CreatedInv
  <2>4. /\ \A t \in ToSet(create_order) : t <= u
        /\ u \notin ToSet(create_order)
    BY <2>1, <2>3
  <2> HIDE DEF u
  <2>5. NotStarted' = NotStarted \cup {u} /\ Made' = Made
    BY <1>1, <2>1, <2>2 DEF NotStarted, Made
  <2> QED
    BY <1>1, <2>1, <2>4, <2>5 DEF CreatedInv
<1>4. CASE ~SubmitTaskInput(c)
  <2>1. UNCHANGED <<issued, pending_inputs, commit, committing>>
    BY <1>4 DEF Calls, ClientStep, WaitDrains, TaskArrives, ActivateTask, WaitSelects,
       commitVars, inputVars, sendVars
  <2>2. NotStarted' = NotStarted
    BY <1>1, <2>1 DEF NotStarted, PreSubmit
  <2> DEFINE Ready == pending_results \cup UNION {drained[d] : d \in Clients}
  <2>3. pending_results' \subseteq Ready /\ \A d \in Clients : drained'[d] \subseteq Ready
    <3>1. CASE ActivateTask(c)
      BY <3>1 DEF ActivateTask
    <3>2. CASE \E count \in Tasks : WaitDrains(c, count)
      BY <1>2, <3>2 DEF WaitDrains
    <3>3. CASE \E t \in Tasks : TaskArrives(c, t)
      BY <3>3 DEF TaskArrives, sendVars, clientVars
    <3>4. CASE WaitSelects(c)
      BY <1>2, <3>4 DEF WaitSelects
    <3> QED
      BY <1>4, <3>1, <3>2, <3>3, <3>4 DEF Calls, ClientStep
  <2>4. Made' \subseteq Made
    BY <1>1, <2>3 DEF Made
  <2> QED
    BY <1>1, <2>1, <2>2, <2>4, NothingCreated
<1> QED
  BY <1>3, <1>4

LEMMA NextKeepsCreated ==
    TypeOK /\ StartInv /\ CreatedInv /\ [DispatcherNext]_dispatcherVars => CreatedInv'
<1> SUFFICES ASSUME TypeOK, StartInv, CreatedInv, [DispatcherNext]_dispatcherVars
             PROVE  CreatedInv'
  OBVIOUS
<1>1. CASE UNCHANGED dispatcherVars
  BY <1>1, NothingCreated DEF dispatcherVars, runnerVars, commitVars, inputVars, fetchVars,
     clientVars, resultVars, rolloutVars, Made, NotStarted, PreSubmit
<1>2. CASE Pause \/ ResumeRunner \/ ResumeNotify \/ SetVersion \/ Destroy
  <2>1. /\ UNCHANGED <<pending_inputs, input_queue, running_tasks, output_queue, fetched,
                       pending_results, drained, create_order, issued>>
        /\ UNCHANGED commitVars \/ NotifyInput
    BY <1>2 DEF Pause, ResumeRunner, ResumeNotify, SetVersion, Destroy, SetPaused,
       runnerVars, receiveVars, fetchVars, clientVars, resultVars, inputVars, rolloutVars
  <2>2. PreSubmit' = PreSubmit
    BY <2>1, WokenKeepsPreSubmit DEF commitVars, PreSubmit
  <2> QED
    BY <2>1, <2>2, NothingCreated DEF Made, NotStarted
<1> QED
  BY <1>1, <1>2, CommitKeepsCreated, FetchKeepsCreated, RunnerKeepsCreated,
     ClientKeepsCreated DEF DispatcherNext

LEMMA InitCreated == DispatcherInit => CreatedInv
BY DEF DispatcherInit, RunnerInit, CreatedInv, Made, NotStarted, PreSubmit, ToSet,
   IsInjective

-----------------------------------------------------------------------------
(* What has been trained on.                                               *)

\* The batch that has been collected and that no version counts yet.
Awaiting == IF step \in {"train", "update"} THEN ConsumerBatchSize ELSE 0

UsedTyped ==
    /\ step \in {"submit", "submitting", "wait", "train", "update", "resume", "notify"}
    /\ used_version \in [Tasks -> Int]

\* Only accepted results that were delivered are used; between the two halves of
\* wait_results the trainer asks for what is missing; the versions count the batches.
UsedInv ==
    /\ UsedTyped
    /\ \A t \in Used : t \in delivered /\ verdict[t] = "accepted"
    /\ client[Trainer] = "select" => step = "wait" /\ request[Trainer] = Missing
    /\ step \in {"train", "update", "resume", "notify"} => accepted_cnt = 0
    /\ ~DynamicBS => Cardinality(Used)
          = ConsumerBatchSize * (version - RecoveredVersion) + accepted_cnt + Awaiting

LEMMA UsedFinite == IsFiniteSet(Used) /\ Cardinality(Used) \in Nat
<1>1. Used \subseteq Tasks
  BY DEF Used
<1> QED
  BY <1>1, DispatcherAssumption, FS_Subset, FS_CardinalityType

\* A step that neither uses results nor counts them.
LEMMA NothingUsed ==
    ASSUME UsedInv, UNCHANGED <<used_version, accepted_cnt, version>>,
           delivered \subseteq delivered',
           \A t \in Tasks : verdict[t] = "accepted" => verdict'[t] = "accepted",
           client'[Trainer] = "select" => step' = "wait" /\ request'[Trainer] = Missing',
           step' \in {"submit", "submitting", "wait", "train", "update", "resume", "notify"},
           step' \in {"train", "update", "resume", "notify"} => accepted_cnt = 0,
           Awaiting' = Awaiting
    PROVE  UsedInv'
<1>1. Used' = Used /\ Used \subseteq Tasks
  BY DEF Used
<1>2. UsedTyped'
  BY DEF UsedInv, UsedTyped
<1>3. \A t \in Used' : t \in delivered' /\ verdict'[t] = "accepted"
  BY <1>1 DEF UsedInv
<1>4. ~DynamicBS => Cardinality(Used')
          = ConsumerBatchSize * (version' - RecoveredVersion) + accepted_cnt' + Awaiting'
  BY <1>1 DEF UsedInv
<1> QED
  BY <1>2, <1>3, <1>4 DEF UsedInv

\* The accepted results of the batch that arrived.
Good == {t \in Oldest(drained[Trainer], Missing) : verdict[t] = "accepted"}

\* They are new, and no more than are missing.
LEMMA GoodFits ==
    ASSUME TypeOK, PlaceInv, CreatedInv, BatchInv, UsedInv
    PROVE  /\ Good \subseteq Tasks /\ Good \cap Used = {} /\ IsFiniteSet(Good)
           /\ Cardinality(Good) \in Nat /\ Cardinality(Good) <= Missing
<1> DEFINE arrived == Oldest(drained[Trainer], Missing)
<1>1. /\ Trainer \in Clients /\ drained[Trainer] \subseteq Tasks /\ Good \subseteq arrived
      /\ arrived \subseteq drained[Trainer] /\ create_order \in Seq(Tasks)
  BY TrainingAssumption DEF TypeOK, TaskTypeOK, Oldest, Good
<1>2. IsFiniteSet(arrived) /\ IsFiniteSet(Good)
  BY <1>1, DispatcherAssumption, FS_Subset
<1>3. Missing \in Nat
  BY BatchSizePositive DEF BatchInv, Missing
<1>4. drained[Trainer] \subseteq ToSet(create_order)
  BY <1>1 DEF CreatedInv, Made
<1>5. Cardinality(arrived) <= Missing
  BY <1>1, <1>3, <1>4, OldestFits
<1>6. drained[Trainer] \cap delivered = {}
  <2> SUFFICES ASSUME NEW t \in drained[Trainer], t \in delivered PROVE FALSE
    OBVIOUS
  <2>1. t \in Tasks /\ t \in Place(7) /\ t \in Place(8)
    BY <1>1, PlacesAre
  <2> QED
    BY <2>1 DEF PlaceInv
<1>7. Cardinality(Good) <= Cardinality(arrived)
  BY <1>1, <1>2, FS_Subset
<1>8. Cardinality(Good) \in Nat /\ Cardinality(arrived) \in Nat
  BY <1>2, FS_CardinalityType
<1>9. Good \cap Used = {} /\ Good \subseteq Tasks
  BY <1>1, <1>6 DEF UsedInv
<1> HIDE DEF arrived
<1> QED
  BY <1>2, <1>3, <1>5, <1>7, <1>8, <1>9

\* A batch that is complete without dynamic_bs is full to the sample.
LEMMA CountKeepsUsed ==
    ASSUME TypeOK, PlaceInv, CreatedInv, BatchInv, UsedInv, CountBatch
    PROVE  UsedInv'
<1> DEFINE arrived == Oldest(drained[Trainer], Missing)
           attempts == total_attempts + Cardinality(IF DynamicBS THEN arrived ELSE Good)
           complete == BatchComplete(attempts, accepted_cnt + Cardinality(Good))
<1>1. /\ step = "wait" /\ client[Trainer] = "select" /\ request[Trainer] = Missing
      /\ version' = version /\ verdict' = verdict
      /\ client'[Trainer] = "idle" /\ delivered' = delivered \cup arrived
      /\ step' = IF complete THEN "train" ELSE "submit"
      /\ accepted_cnt' = IF complete THEN 0 ELSE accepted_cnt + Cardinality(Good)
      /\ used_version' = [t \in Tasks |-> IF t \in Good THEN version ELSE used_version[t]]
  BY TrainingAssumption DEF CountBatch, WaitSelects, ClientAt, UsedInv, Good, statVars,
     rolloutVars, TypeOK, ClientTypeOK
<1>2. Used \subseteq Tasks /\ used_version \in [Tasks -> Int] /\ version \in Nat
  BY LimitsTyped DEF Used, UsedInv, UsedTyped, TypeOK, CounterTypeOK
<1>3. Used' = Used \cup Good
  BY <1>1, <1>2, GoodFits DEF Used
<1>4. Cardinality(Used') = Cardinality(Used) + Cardinality(Good)
  <2>1. IsFiniteSet(Used) /\ IsFiniteSet(Good) /\ Used \cap Good = {}
    BY UsedFinite, GoodFits
  <2>2. Cardinality(Used \cup Good)
           = Cardinality(Used) + Cardinality(Good) - Cardinality(Used \cap Good)
    BY <2>1, FS_Union
  <2>3. Cardinality(Used \cap Good) = 0
    BY <2>1, FS_EmptySet
  <2> QED
    BY <1>3, <2>2, <2>3, UsedFinite, GoodFits
<1>5. Good \subseteq arrived
  BY DEF Good
<1>6. UsedTyped'
  BY <1>1, <1>2 DEF UsedTyped
<1>7. \A t \in Used' : t \in delivered' /\ verdict'[t] = "accepted"
  BY <1>1, <1>3, <1>5 DEF UsedInv, Good
<1>8. step' \in {"train", "update", "resume", "notify"} => accepted_cnt' = 0
  BY <1>1
<1>9. ~DynamicBS => Cardinality(Used')
          = ConsumerBatchSize * (version' - RecoveredVersion) + accepted_cnt' + Awaiting'
  <2> SUFFICES ASSUME ~DynamicBS
               PROVE  Cardinality(Used')
                   = ConsumerBatchSize * (version - RecoveredVersion) + accepted_cnt' + Awaiting'
    BY <1>1
  <2>1. PICK k \in Int : k = ConsumerBatchSize * (version - RecoveredVersion)
    BY <1>2, BatchSizePositive, LimitsTyped
  <2>2. Cardinality(Used) = k + accepted_cnt
    <3>1. Awaiting = 0
      BY <1>1 DEF Awaiting
    <3> QED
      BY <2>1, <3>1, BatchSizePositive DEF UsedInv, BatchInv
  <2>3. /\ accepted_cnt \in Nat /\ accepted_cnt < ConsumerBatchSize
        /\ Missing = ConsumerBatchSize - accepted_cnt
    BY BatchSizePositive DEF BatchInv, Missing
  <2>4. complete <=> accepted_cnt + Cardinality(Good) >= ConsumerBatchSize
    BY DEF BatchComplete
  <2> HIDE DEF complete
  <2>5. CASE complete
    <3>1. accepted_cnt' = 0 /\ Awaiting' = ConsumerBatchSize
      BY <1>1, <2>5 DEF Awaiting
    <3>2. Cardinality(Good) = ConsumerBatchSize - accepted_cnt
      BY <2>3, <2>4, <2>5, GoodFits, BatchSizePositive
    <3> QED
      BY <1>4, <2>1, <2>2, <2>3, <3>1, <3>2, BatchSizePositive
  <2>6. CASE ~complete
    <3>1. accepted_cnt' = accepted_cnt + Cardinality(Good) /\ Awaiting' = 0
      BY <1>1, <2>6 DEF Awaiting
    <3> QED
      BY <1>4, <2>1, <2>2, <2>3, <3>1, GoodFits, BatchSizePositive
  <2> QED
    BY <2>5, <2>6
<1> HIDE DEF complete, arrived
<1> QED
  BY <1>1, <1>6, <1>7, <1>8, <1>9 DEF UsedInv

\* The new version counts the batch that was trained on.
LEMMA VersionCountsBatch ==
    ASSUME TypeOK, BatchInv, UsedInv, UpdateVersion
    PROVE  UsedInv'
<1>1. /\ step = "update" /\ step' = "resume" /\ version' = version + 1
      /\ UNCHANGED <<used_version, accepted_cnt, delivered, verdict, client, request>>
  BY DEF UpdateVersion, StepTo, SetVersion, historyVars, receiveVars, clientVars,
     resultVars, rolloutVars
<1>2. Used' = Used
  BY <1>1 DEF Used
<1>3. Awaiting = ConsumerBatchSize /\ Awaiting' = 0 /\ accepted_cnt' = 0 /\ accepted_cnt = 0
  BY <1>1 DEF Awaiting, UsedInv
<1>4. ~DynamicBS => Cardinality(Used')
          = ConsumerBatchSize * (version' - RecoveredVersion) + accepted_cnt' + Awaiting'
  <2> SUFFICES ASSUME ~DynamicBS
               PROVE  Cardinality(Used) = ConsumerBatchSize * (version + 1 - RecoveredVersion)
    BY <1>1, <1>2, <1>3, BatchSizePositive, LimitsTyped DEF TypeOK, CounterTypeOK
  <2>1. PICK b \in Nat : b = ConsumerBatchSize
    BY BatchSizePositive
  <2>2. PICK d \in Int : d = version - RecoveredVersion
    BY LimitsTyped DEF TypeOK, CounterTypeOK
  <2>3. Cardinality(Used) = b * d + b
    BY <1>3, <2>1, <2>2 DEF UsedInv
  <2>4. b * (d + 1) = b * d + b
    BY <2>1, <2>2
  <2>5. version + 1 - RecoveredVersion = d + 1
    BY <2>2, LimitsTyped DEF TypeOK, CounterTypeOK
  <2> QED
    BY <2>1, <2>3, <2>4, <2>5
<1>5. client[Trainer] # "select"
  BY <1>1 DEF UsedInv
<1> QED
  BY <1>1, <1>2, <1>3, <1>4, <1>5 DEF UsedInv, UsedTyped

LEMMA NextKeepsUsed ==
    ASSUME TypeOK, StartInv, PlaceInv, CreatedInv, BatchInv, UsedInv, [Next]_vars
    PROVE  UsedInv'
<1>1. /\ client[Trainer] = "select" => step = "wait" /\ request[Trainer] = Missing
      /\ step \in {"train", "update", "resume", "notify"} => accepted_cnt = 0
      /\ step \in {"submit", "submitting", "wait", "train", "update", "resume", "notify"}
      /\ Trainer \in Clients
  BY TrainingAssumption DEF UsedInv, UsedTyped
<1>2. CASE BeginRound \/ EndRound \/ ArriveLate
  <2>1. /\ UNCHANGED <<dispatcherVars, used_version, accepted_cnt>>
        /\ \/ step = "submit" /\ step' = "submitting"
           \/ step = "submitting" /\ step' = "wait"
           \/ step = "wait" /\ step' = "submit" /\ client[Trainer] = "idle"
    BY <1>2 DEF BeginRound, EndRound, ArriveLate, StepTo, historyVars
  <2>2. UNCHANGED <<version, delivered, verdict, client, request>>
    BY <2>1 DEF dispatcherVars, statVars, rolloutVars, clientVars, resultVars
  <2>3. Awaiting' = Awaiting /\ Missing' = Missing
    BY <2>1 DEF Awaiting, Missing
  <2> QED
    BY <1>1, <2>1, <2>2, <2>3, NothingUsed
<1>3. CASE SubmitOne \/ ActivateOne \/ ArriveInTime
  <2>1. /\ UNCHANGED <<step, used_version, accepted_cnt, version, delivered, verdict>>
        /\ client'[Trainer] = "select" => step = "wait" /\ request'[Trainer] = Missing
    BY <1>1, <1>3 DEF SubmitOne, ActivateOne, ArriveInTime, SubmitTaskInput, ActivateTask,
       WaitDrains, ClientAt, loopVars, historyVars, resultVars, rolloutVars, statVars,
       TypeOK, ClientTypeOK
  <2>2. Awaiting' = Awaiting /\ Missing' = Missing
    BY <2>1 DEF Awaiting, Missing
  <2> QED
    BY <1>1, <2>1, <2>2, NothingUsed
<1>4. CASE TrainAndPause \/ Resume \/ Notify
  <2>1. /\ UNCHANGED <<used_version, accepted_cnt, version, delivered, verdict, client, request>>
        /\ \/ step = "train" /\ step' = "update"
           \/ step = "resume" /\ step' = "notify"
           \/ step = "notify" /\ step' = "submit"
    BY <1>4 DEF TrainAndPause, Resume, Notify, Pause, ResumeRunner, ResumeNotify, StepTo,
       historyVars, statVars, receiveVars, clientVars, resultVars, rolloutVars
  <2>2. Awaiting' = Awaiting /\ Missing' = Missing
    BY <2>1 DEF Awaiting, Missing
  <2> QED
    BY <1>1, <2>1, <2>2, NothingUsed
<1>5. CASE \/ StartRollout \/ Background \/ UNCHANGED vars
           \/ \E t \in Tasks : EndRollout(t) \/ PublishResult(t)
  <2>1. UNCHANGED <<loopVars, used_version, version, delivered, client, request>>
    BY <1>5 DEF StartRollout, Background, EndRollout, PublishResult, vars, historyVars,
       RunnerStarts, RolloutAccepted, RolloutRejected, RunnerPublishes, Idle, CommitStep,
       FetchStep, RunnerAdmits, RunnerEnds, CommitNext, CommitWaits, CommitSubmit,
       CommitAccount, CommitQueueFull, CommitRequeue, CommitRecheckFull, CommitExits,
       CommitFails, FetchPoll, FetchGet, FetchTimeout, FetchStore, FetchNotify, FetchExits,
       FetchFails, dispatcherVars, statVars, receiveVars, sendVars, flowVars, clientVars,
       resultVars, OnRolloutAccepted, OnRolloutRejected, OnRolloutSubmitted
  <2>2. \A t \in Tasks : verdict[t] = "accepted" => verdict'[t] = "accepted"
    <3>1. CASE \E u \in Tasks : EndRollout(u)
      <4>1. PICK u \in Tasks : RolloutAccepted(u) \/ RolloutRejected(u)
        BY <3>1 DEF EndRollout
      <4>2. /\ u \in running_tasks \ finished
            /\ \/ verdict' = [verdict EXCEPT ![u] = "accepted"]
               \/ verdict' = [verdict EXCEPT ![u] = "rejected"]
        BY <4>1 DEF RolloutAccepted, RolloutRejected, CoroutineReturns
      <4>3. verdict[u] = "none" /\ verdict \in [Tasks -> {"none", "accepted", "rejected"}]
        BY <4>2 DEF StartInv, TypeOK, TaskTypeOK
      <4> QED
        BY <4>2, <4>3
    <3>2. CASE ~\E u \in Tasks : EndRollout(u)
      <4>1. verdict' = verdict
        BY <1>5, <3>2 DEF StartRollout, Background, PublishResult, vars, RunnerStarts,
           RunnerPublishes, CommitStep, FetchStep, RunnerAdmits, RunnerEnds, CommitNext,
           CommitWaits, CommitSubmit, CommitAccount, CommitQueueFull, CommitRequeue,
           CommitRecheckFull, CommitExits, CommitFails, FetchPoll, FetchGet, FetchTimeout,
           FetchStore, FetchNotify, FetchExits, FetchFails, dispatcherVars, receiveVars,
           sendVars, flowVars, rolloutVars
      <4> QED
        BY <4>1
    <3> QED
      BY <3>1, <3>2
  <2>3. Awaiting' = Awaiting /\ Missing' = Missing /\ step' = step /\ accepted_cnt' = accepted_cnt
    BY <2>1 DEF Awaiting, Missing, loopVars
  <2> QED
    BY <1>1, <2>1, <2>2, <2>3, NothingUsed
<1> QED
  BY <1>2, <1>3, <1>4, <1>5, CountKeepsUsed, VersionCountsBatch DEF Next, TrainerStep

LEMMA InitUsed == Init => UsedInv
<1> SUFFICES ASSUME Init PROVE UsedInv
  OBVIOUS
<1>1. /\ step = "submit" /\ accepted_cnt = 0 /\ Awaiting = 0
      /\ used_version = [t \in Tasks |-> -1] /\ version = RecoveredVersion
      /\ client[Trainer] = "idle"
  BY TrainingAssumption DEF Init, DispatcherInit, StatInit, Awaiting
<1>2. Used = {} /\ Cardinality({}) = 0
  BY <1>1, FS_EmptySet DEF Used
<1>3. ConsumerBatchSize * (version - RecoveredVersion) = 0
  BY <1>1, LimitsTyped, BatchSizePositive
<1> QED
  BY <1>1, <1>2, <1>3 DEF UsedInv, UsedTyped

-----------------------------------------------------------------------------
(* What has not been used.                                                 *)

\* What is behind the properties of the loop.
TrainingInv ==
    /\ TypeOK /\ StartInv /\ CountInv /\ CapacityInv
    /\ PlaceInv /\ SeparateInv /\ CountersInv
    /\ BatchInv /\ CreatedInv /\ UsedInv

LEMMA InitTraining == Init => TrainingInv
BY InitTypes, InitStart, InitCount, InitCapacity, InitPlace, InitCounters, InitCreated,
   InitUsed, BatchSizePositive DEF Init, TrainingInv, BatchInv

LEMMA NextTraining == TrainingInv /\ [Next]_vars => TrainingInv'
<1> SUFFICES ASSUME TrainingInv, [Next]_vars PROVE TrainingInv'
  OBVIOUS
<1>1. [DispatcherNext]_dispatcherVars
  BY TrainerIsClient DEF TrainingInv
<1>2. TypeOK' /\ StartInv' /\ CountInv'
  BY <1>1, NextTypes, NextKeepsStart, NextKeepsCount DEF TrainingInv
<1>3. CapacityInv'
  BY <1>1, NextKeepsCapacity DEF TrainingInv
<1>4. PlaceInv' /\ SeparateInv'
  BY <1>1, NextKeepsPlaces DEF TrainingInv
<1>5. CountersInv'
  BY <1>1, NextKeepsCounters DEF TrainingInv
<1>6. BatchInv' /\ CreatedInv' /\ UsedInv'
  BY <1>1, NextKeepsBatch, NextKeepsCreated, NextKeepsUsed DEF TrainingInv
<1> QED
  BY <1>2, <1>3, <1>4, <1>5, <1>6 DEF TrainingInv

\* The invariants of the dispatcher and of the loop hold while the trainer runs.
THEOREM TrainingInvariant == TrainingSpec => []TrainingInv
BY InitTraining, NextTraining, PTL DEF TrainingSpec

\* Without dynamic_bs the versions count full batches.
THEOREM BatchesAreFull == TrainingSpec => []FullBatches
<1>1. TrainingInv => FullBatches
  <2> SUFFICES ASSUME TrainingInv, ~DynamicBS, step = "submit", accepted_cnt = 0
               PROVE  Cardinality(Used) = ConsumerBatchSize * (version - RecoveredVersion)
    BY DEF FullBatches
  <2>1. PICK k \in Int : k = ConsumerBatchSize * (version - RecoveredVersion)
    BY BatchSizePositive, LimitsTyped DEF TrainingInv, TypeOK, CounterTypeOK
  <2>2. Cardinality(Used) = k + 0 + 0
    BY <2>1 DEF TrainingInv, UsedInv, Awaiting
  <2> QED
    BY <2>1, <2>2
<1> QED
  BY <1>1, TrainingInvariant, PTL

\* The accepted results that have not been used.
Ready == Ended("accepted") \ Used

\* What has been accepted and not used is what the samples leave.
LEMMA ReadyIsBounded ==
    ASSUME TrainingInv, ~DynamicBS
    PROVE  /\ Cardinality(Ended("accepted") \cup Unended) <=
                 (MaxStaleness + 1) * ConsumerBatchSize
                    + ConsumerBatchSize * (version - RecoveredVersion)
           /\ IsFiniteSet(Ready \cup Unended) /\ Cardinality(Ready \cup Unended) \in Nat
           /\ Cardinality(Ready \cup Unended) <=
                 (MaxStaleness + 1) * ConsumerBatchSize - accepted_cnt - Awaiting
<1> DEFINE A == Ended("accepted")
<1>1. IsFiniteSet(A) /\ Cardinality(A) \in Nat /\ Used \subseteq A
  BY EndedFinite DEF TrainingInv, UsedInv, Used, Ended
<1>2. IsFiniteSet(Unended) /\ Cardinality(Unended) \in Nat /\ A \cap Unended = {}
  BY UnendedFinite DEF TrainingInv, Unended, Ended
<1>3. IsFiniteSet(Used) /\ Cardinality(Used) \in Nat
  BY UsedFinite
<1> HIDE DEF A
<1>4. Cardinality(A \cup Unended) = Cardinality(A) + Cardinality(Unended)
  <2>1. Cardinality(A \cap Unended) = 0
    BY <1>2, FS_EmptySet
  <2>2. Cardinality(A \cup Unended)
           = Cardinality(A) + Cardinality(Unended) - Cardinality(A \cap Unended)
    BY <1>1, <1>2, FS_Union
  <2> QED
    BY <1>1, <1>2, <2>1, <2>2
<1>5. Cardinality(Ready \cup Unended) = Cardinality(A) + Cardinality(Unended) - Cardinality(Used)
  <2>1. /\ Ready \cup Unended \cup Used = A \cup Unended /\ (Ready \cup Unended) \cap Used = {}
        /\ Ready \cup Unended \subseteq A \cup Unended
    BY <1>1, <1>2 DEF Ready, A
  <2>2. IsFiniteSet(A \cup Unended)
    BY <1>1, <1>2, FS_Union
  <2>3. IsFiniteSet(Ready \cup Unended)
    BY <2>1, <2>2, FS_Subset
  <2>4. Cardinality((Ready \cup Unended) \cap Used) = 0
    BY <2>1, FS_EmptySet
  <2>5. Cardinality((Ready \cup Unended) \cup Used)
           = Cardinality(Ready \cup Unended) + Cardinality(Used)
                - Cardinality((Ready \cup Unended) \cap Used)
    BY <1>3, <2>3, FS_Union
  <2>6. Cardinality(Ready \cup Unended) \in Nat
    BY <2>3, FS_CardinalityType
  <2>7. Cardinality((Ready \cup Unended) \cup Used) = Cardinality(A \cup Unended)
    BY <2>1
  <2> QED
    BY <1>1, <1>2, <1>3, <1>4, <2>4, <2>5, <2>6, <2>7
<1>6. IsFiniteSet(Ready \cup Unended) /\ Cardinality(Ready \cup Unended) \in Nat
  <2>1. Ready \cup Unended \subseteq A \cup Unended /\ IsFiniteSet(A \cup Unended)
    BY <1>1, <1>2, FS_Union DEF Ready, A
  <2> QED
    BY <2>1, FS_Subset, FS_CardinalityType
<1>7. PICK b \in Nat : b = ConsumerBatchSize /\ b = BatchSize
  BY BatchSizePositive DEF BatchSize, AtLeastOne
<1>8. PICK d \in Nat, r \in Nat, s \in Nat :
          version = r + d /\ r = RecoveredVersion /\ s = MaxStaleness
  <2>1. version \in RecoveredVersion..MaxVersion /\ version \in Nat
    BY LimitsTyped DEF TrainingInv, TypeOK, CounterTypeOK, CapacityInv, CountersTyped
  <2>2. version - RecoveredVersion \in Nat
    BY <2>1, LimitsTyped
  <2> QED
    BY <2>1, <2>2, LimitsTyped
<1>9. PICK rb \in Nat, db \in Nat, sb \in Nat : rb = r * b /\ db = d * b /\ sb = (s + 1) * b
  OBVIOUS
<1>10. Cardinality(A) + Cardinality(Unended) <= sb + db
  <2>1. rollout_stat.accepted = rb + Cardinality(A)
    BY <1>7, <1>8, <1>9 DEF TrainingInv, CountersInv, VerdictInv, A
  <2>2. Cardinality(Unended) <= rollout_stat.running + Uncounted
    BY DEF TrainingInv, CountInv
  <2>3. rollout_stat.accepted + rollout_stat.running + Permit <= (s + (r + d) + 1) * b
    BY <1>7, <1>8 DEF TrainingInv, CapacityInv, Samples, MaxSamples
  <2>4. (s + (r + d) + 1) * b = sb + rb + db
    BY <1>9
  <2>5. Uncounted \in Nat /\ Permit \in Nat /\ Uncounted <= Permit
    BY DEF Uncounted, Permit
  <2>6. rollout_stat.running \in Int
    BY DEF TrainingInv, TypeOK, CounterTypeOK, StatType
  <2> QED
    BY <1>1, <1>2, <2>1, <2>2, <2>3, <2>4, <2>5, <2>6
<1>11. Cardinality(Used) = db + accepted_cnt + Awaiting
  <2>1. ConsumerBatchSize * (version - RecoveredVersion) = db
    <3>1. version - RecoveredVersion = d
      BY <1>8
    <3> QED
      BY <1>7, <1>9, <3>1
  <2> QED
    BY <2>1 DEF TrainingInv, UsedInv
<1>12. (MaxStaleness + 1) * ConsumerBatchSize = sb
       /\ ConsumerBatchSize * (version - RecoveredVersion) = db
  <2>1. version - RecoveredVersion = d
    BY <1>8
  <2> QED
    BY <1>7, <1>8, <1>9, <2>1
<1>13. accepted_cnt \in Nat /\ Awaiting \in Nat
  BY BatchSizePositive DEF TrainingInv, BatchInv, Awaiting
<1>14. Cardinality(A \cup Unended) <= sb + db
  BY <1>4, <1>10
<1>15. Cardinality(Ready \cup Unended) <= sb - accepted_cnt - Awaiting
  BY <1>1, <1>2, <1>5, <1>10, <1>11, <1>13
<1> QED
  BY <1>6, <1>12, <1>14, <1>15 DEF A

\* The backlog of the trainer is what MaxStaleness + 1 batches can hold.
THEOREM BacklogIsBounded == TrainingSpec => []BacklogBound
<1>1. TrainingInv => BacklogBound
  <2> SUFFICES ASSUME TrainingInv, ~DynamicBS, step \notin {"train", "update"}
               PROVE  Cardinality(Ready \cup Unended)
                         <= (MaxStaleness + 1) * ConsumerBatchSize - accepted_cnt
    BY DEF BacklogBound, Ready, Ended
  <2>1. PICK m \in Int : m = (MaxStaleness + 1) * ConsumerBatchSize
    BY LimitsTyped, BatchSizePositive
  <2>2. Awaiting = 0 /\ accepted_cnt \in Nat
    BY DEF Awaiting, TrainingInv, BatchInv
  <2> QED
    BY <2>1, <2>2, ReadyIsBounded
<1> QED
  BY <1>1, TrainingInvariant, PTL

-----------------------------------------------------------------------------
(* The age of what is used.                                                *)

\* The steps of the loop that the histories follow; the others change neither
\* version nor verdict nor history, and take from the runner only what has ended,
\* or all of it when it stops.
Marks == (\E t \in Tasks : EndRollout(t)) \/ StartRollout \/ CountBatch \/ UpdateVersion

LEMMA UnmarkedSteps ==
    ASSUME TypeOK, CountersInv, [Next]_vars, ~Marks
    PROVE  /\ UNCHANGED <<version, verdict, create_order, start_version, used_version>>
           /\ running_tasks' \subseteq running_tasks
           /\ runner_up' \/ admitting' =>
                 /\ runner_up \/ admitting
                 /\ \A t \in running_tasks \ running_tasks' : verdict[t] # "none"
<1>1. UNCHANGED <<version, verdict, create_order, start_version, used_version>>
  BY DEF Marks, Next, vars, TrainerStep, BeginRound, SubmitOne, ActivateOne, EndRound,
     ArriveInTime, ArriveLate, TrainAndPause, Resume, Notify, SubmitTaskInput, ActivateTask,
     WaitDrains, Pause, ResumeRunner, ResumeNotify, Background, PublishResult,
     RunnerPublishes, CommitStep, FetchStep, RunnerAdmits, RunnerEnds, CommitNext,
     CommitWaits, CommitSubmit, CommitAccount, CommitQueueFull, CommitRequeue,
     CommitRecheckFull, CommitExits, CommitFails, FetchPoll, FetchGet, FetchTimeout,
     FetchStore, FetchNotify, FetchExits, FetchFails, dispatcherVars, statVars, receiveVars,
     sendVars, flowVars, rolloutVars, historyVars, OnRolloutSubmitted, OnRolloutEnqueued
<1>2. CASE \E t \in Tasks : PublishResult(t)
  BY <1>1, <1>2 DEF PublishResult, RunnerPublishes, Publish, CountersInv, FinishedInv
<1>3. CASE RunnerEnds
  BY <1>1, <1>3 DEF RunnerEnds, RunnerStops
<1>4. CASE ~RunnerEnds /\ ~\E t \in Tasks : PublishResult(t)
  <2>1. running_tasks' = running_tasks /\ (runner_up' \/ admitting' => runner_up \/ admitting)
    BY <1>4 DEF Marks, Next, vars, TrainerStep, BeginRound, SubmitOne, ActivateOne, EndRound,
       ArriveInTime, ArriveLate, TrainAndPause, Resume, Notify, SubmitTaskInput,
       ActivateTask, WaitDrains, Pause, ResumeRunner, ResumeNotify, SetPaused, Background,
       CommitStep, FetchStep, RunnerAdmits, Admit, FoundEmpty, CommitNext, CommitWaits,
       CommitSubmit, Submit, CommitAccount, CommitQueueFull, CommitRequeue,
       CommitRecheckFull, CommitExits, CommitFails, FetchPoll, FetchGet, Take,
       FetchTimeout, FetchStore, FetchNotify, FetchExits, FetchFails, dispatcherVars,
       runnerVars
  <2> QED
    BY <1>1, <2>1
<1> QED
  BY <1>1, <1>2, <1>3, <1>4

\* What has started and is not rejected, up to a task.
Kept(t) == {u \in Tasks : (u = t \/ CreatedBefore(u, t)) /\ verdict[u] # "rejected"}

UsedBefore(w) == {u \in Used : used_version[u] < w}

CreatedTyped ==
    /\ start_version \in [Tasks -> Int]
    /\ \A t \in ToSet(create_order) : start_version[t] >= RecoveredVersion
    /\ \A t \in Used : /\ t \in ToSet(create_order)
                       /\ used_version[t] >= RecoveredVersion /\ used_version[t] <= version
    /\ runner_up \/ admitting =>
          \A t \in ToSet(create_order) : verdict[t] = "none" => t \in running_tasks

\* What a task found when it started fits the version it started at; it can only
\* become less.
KeptInv ==
    ~DynamicBS => \A t \in ToSet(create_order) :
        Cardinality(Kept(t)) <= (MaxStaleness + 1) * ConsumerBatchSize
            + ConsumerBatchSize * (start_version[t] - RecoveredVersion)

\* Each version used a batch.
UsedBeforeInv ==
    ~DynamicBS => \A w \in RecoveredVersion..version :
        Cardinality(UsedBefore(w)) = ConsumerBatchSize * (w - RecoveredVersion)

\* With staleness 0 nothing of an earlier version is left.
FreshInv ==
    ~DynamicBS /\ MaxStaleness = 0 =>
        /\ \A t \in Ready \cup (Unended \cap running_tasks) : start_version[t] = version
        /\ \A t \in Used : used_version[t] = start_version[t]

AgeInv == CreatedTyped /\ KeptInv /\ UsedBeforeInv /\ FreshInv

LEMMA UnmarkedKeepsAge ==
    ASSUME TrainingInv, AgeInv, [Next]_vars, ~Marks
    PROVE  AgeInv'
<1>1. /\ UNCHANGED <<version, verdict, create_order, start_version, used_version>>
      /\ running_tasks' \subseteq running_tasks
      /\ runner_up' \/ admitting' =>
            /\ runner_up \/ admitting
            /\ \A t \in running_tasks \ running_tasks' : verdict[t] # "none"
  BY UnmarkedSteps DEF TrainingInv
<1>2. Used' = Used /\ Ready' = Ready
  BY <1>1 DEF Used, Ready, Ended
<1>3. \A t \in Tasks : Kept(t)' = Kept(t)
  BY <1>1 DEF Kept, CreatedBefore
<1>4. \A w : UsedBefore(w)' = UsedBefore(w)
  BY <1>1, <1>2 DEF UsedBefore
<1>5. ToSet(create_order) \subseteq Tasks
  BY RangeTyped DEF TrainingInv, TypeOK, TaskTypeOK
<1>6. CreatedTyped'
  BY <1>1, <1>2 DEF AgeInv, CreatedTyped
<1>7. KeptInv'
  BY <1>1, <1>3, <1>5 DEF AgeInv, KeptInv
<1>8. UsedBeforeInv'
  BY <1>1, <1>4 DEF AgeInv, UsedBeforeInv
<1>9. Unended' \cap running_tasks' \subseteq Unended \cap running_tasks
  BY <1>1 DEF Unended, InFlight
<1>10. FreshInv'
  BY <1>1, <1>2, <1>9 DEF AgeInv, FreshInv
<1> QED
  BY <1>6, <1>7, <1>8, <1>10 DEF AgeInv

\* A rollout that ends was created, and is kept or not.
LEMMA EndKeepsAge ==
    ASSUME TrainingInv, AgeInv, NEW t \in Tasks, EndRollout(t)
    PROVE  AgeInv'
<1>1. /\ UNCHANGED <<version, create_order, start_version, used_version, running_tasks,
                     runner_up, admitting, input_queue>>
      /\ t \in running_tasks \ finished
      /\ \/ verdict' = [verdict EXCEPT ![t] = "accepted"]
         \/ verdict' = [verdict EXCEPT ![t] = "rejected"]
  BY DEF EndRollout, RolloutAccepted, RolloutRejected, CoroutineReturns, historyVars
<1>2. /\ verdict[t] = "none" /\ verdict \in [Tasks -> {"none", "accepted", "rejected"}]
      /\ ToSet(create_order) \subseteq Tasks /\ t \in Unended \cap running_tasks
  BY <1>1, RangeTyped DEF TrainingInv, StartInv, TypeOK, TaskTypeOK, Unended, InFlight
<1>3. Used' = Used
  BY <1>1 DEF Used
<1>4. \A w : UsedBefore(w)' = UsedBefore(w)
  BY <1>1, <1>3 DEF UsedBefore
<1>5. CreatedTyped'
  BY <1>1, <1>2, <1>3 DEF AgeInv, CreatedTyped
<1>6. KeptInv'
  <2> SUFFICES ASSUME ~DynamicBS, NEW u \in ToSet(create_order)
               PROVE  Cardinality(Kept(u)') <= (MaxStaleness + 1) * ConsumerBatchSize
                          + ConsumerBatchSize * (start_version[u] - RecoveredVersion)
    BY <1>1 DEF KeptInv
  <2>1. Kept(u)' \subseteq Kept(u)
    BY <1>1, <1>2 DEF Kept, CreatedBefore
  <2>2. Kept(u) \subseteq Tasks
    BY DEF Kept
  <2>3. IsFiniteSet(Kept(u))
    BY <2>2, DispatcherAssumption, FS_Subset
  <2>4. /\ Cardinality(Kept(u)') <= Cardinality(Kept(u))
        /\ Cardinality(Kept(u)') \in Nat /\ Cardinality(Kept(u)) \in Nat
    BY <2>1, <2>3, FS_Subset, FS_CardinalityType
  <2> DEFINE m == (MaxStaleness + 1) * ConsumerBatchSize
                     + ConsumerBatchSize * (start_version[u] - RecoveredVersion)
  <2>5. m \in Int
    BY <1>2, BatchSizePositive, LimitsTyped DEF AgeInv, CreatedTyped
  <2>6. Cardinality(Kept(u)) <= m
    BY DEF AgeInv, KeptInv
  <2> HIDE DEF m
  <2>7. Cardinality(Kept(u)') <= m
    BY <2>4, <2>5, <2>6
  <2> QED
    BY <2>7 DEF m
<1>7. UsedBeforeInv'
  BY <1>1, <1>4 DEF AgeInv, UsedBeforeInv
<1>8. FreshInv'
  <2>1. Ready' \cup (Unended' \cap running_tasks') \subseteq Ready \cup (Unended \cap running_tasks)
    <3>1. \A u \in Tasks : u # t => verdict'[u] = verdict[u]
      BY <1>1, <1>2
    <3>2. Ready' \subseteq Ready \cup {t}
      BY <1>3, <3>1 DEF Ready, Ended
    <3>3. verdict'[t] # "none"
      BY <1>1, <1>2
    <3>4. running_tasks \subseteq Tasks
      BY DEF TrainingInv, TypeOK, RunnerTypeOK
    <3>5. Unended' \cap running_tasks' \subseteq Unended \cap running_tasks
      <4> SUFFICES ASSUME NEW u \in running_tasks, u \in Tasks, verdict'[u] = "none"
                   PROVE  verdict[u] = "none"
        BY <1>1, <3>4 DEF Unended, InFlight
      <4> QED
        BY <3>1, <3>3
    <3> QED
      BY <1>2, <3>2, <3>5
  <2> QED
    BY <1>1, <1>3, <2>1 DEF AgeInv, FreshInv
<1> QED
  BY <1>5, <1>6, <1>7, <1>8 DEF AgeInv

\* A rollout that starts finds no more than the samples allow at its version.
LEMMA StartKeepsAge ==
    ASSUME TrainingInv, AgeInv, StartRollout
    PROVE  AgeInv'
<1>0. PICK t \in Tasks : t = Head(input_queue)
  BY DEF StartRollout, RunnerStarts, Start, TrainingInv, TypeOK, RunnerTypeOK
<1>1. /\ input_queue \in Seq(Tasks) /\ input_queue # <<>> /\ admitting
      /\ create_order \in Seq(Tasks) /\ create_order' = Append(create_order, t)
      /\ input_queue' = Tail(input_queue) /\ running_tasks' = running_tasks \cup {t}
      /\ start_version' = [start_version EXCEPT ![t] = version]
      /\ UNCHANGED <<version, verdict, used_version, runner_up>>
  BY <1>0 DEF StartRollout, RunnerStarts, Start, statVars, TrainingInv, TypeOK, RunnerTypeOK,
     TaskTypeOK
<1>2. t \in ToSet(input_queue) /\ ToSet(input_queue') \subseteq ToSet(input_queue)
  BY <1>1, <1>0, TailElements
<1>3. /\ ToSet(create_order') = ToSet(create_order) \cup {t} /\ t \notin ToSet(create_order)
      /\ ToSet(create_order) \subseteq Tasks
      /\ \A u \in ToSet(create_order) : u # t
  BY <1>1, <1>2, AppendElements, RangeTyped DEF TrainingInv, CreatedInv, NotStarted
<1>4. Used' = Used /\ Ready' = Ready /\ t \notin Used
  BY <1>1, <1>3 DEF Used, Ready, Ended, AgeInv, CreatedTyped
<1>5. \A w : UsedBefore(w)' = UsedBefore(w)
  BY <1>1, <1>4 DEF UsedBefore
<1>6. start_version \in [Tasks -> Int] /\ version \in Int /\ version >= RecoveredVersion
  BY LimitsTyped DEF AgeInv, CreatedTyped, TrainingInv, TypeOK, CounterTypeOK
<1>7. CreatedTyped'
  BY <1>1, <1>3, <1>4, <1>6 DEF AgeInv, CreatedTyped
<1>8. \A u \in ToSet(create_order) : Kept(u)' = Kept(u)
  <2> SUFFICES ASSUME NEW u \in ToSet(create_order), NEW v \in Tasks
               PROVE  CreatedBefore(v, u)' <=> CreatedBefore(v, u)
    BY <1>1 DEF Kept
  <2> DEFINE n == Len(create_order)
  <2>1. /\ n \in Nat /\ DOMAIN create_order = 1..n /\ DOMAIN create_order' = 1..(n + 1)
        /\ create_order'[n + 1] = t /\ \A i \in 1..n : create_order'[i] = create_order[i]
    BY <1>1
  <2>2. u # t
    BY <1>3
  <2> HIDE DEF n
  <2>3. ASSUME CreatedBefore(v, u)' PROVE CreatedBefore(v, u)
    <3>1. PICK i \in 1..(n + 1), j \in 1..(n + 1) :
              i < j /\ create_order'[i] = v /\ create_order'[j] = u
      BY <2>1, <2>3 DEF CreatedBefore
    <3>2. j # n + 1
      BY <2>1, <2>2, <3>1
    <3>3. i \in 1..n /\ j \in 1..n
      BY <2>1, <3>1, <3>2
    <3> QED
      BY <2>1, <3>1, <3>3 DEF CreatedBefore
  <2>4. ASSUME CreatedBefore(v, u) PROVE CreatedBefore(v, u)'
    <3>1. PICK i \in 1..n, j \in 1..n : i < j /\ create_order[i] = v /\ create_order[j] = u
      BY <2>1, <2>4 DEF CreatedBefore
    <3>2. i \in 1..(n + 1) /\ j \in 1..(n + 1)
      BY <2>1
    <3> QED
      BY <2>1, <3>1, <3>2 DEF CreatedBefore
  <2> QED
    BY <2>3, <2>4
<1>9. Kept(t)' \subseteq Ended("accepted") \cup Unended
  <2> SUFFICES ASSUME NEW u \in Kept(t)' PROVE u \in Ended("accepted") \cup Unended
    OBVIOUS
  <2>1. u \in Tasks /\ verdict[u] # "rejected" /\ (u = t \/ CreatedBefore(u, t)')
    BY <1>1 DEF Kept
  <2>2. u = t \/ u \in ToSet(create_order)
    <3>1. ASSUME CreatedBefore(u, t)' PROVE u \in ToSet(create_order')
      BY <3>1 DEF CreatedBefore, ToSet
    <3> QED
      BY <1>3, <2>1, <3>1
  <2>3. verdict[u] \in {"accepted", "none"}
    BY <2>1 DEF TrainingInv, TypeOK, TaskTypeOK
  <2>4. verdict[u] = "none" => u \in ToSet(input_queue) \cup running_tasks
    BY <1>1, <1>2, <2>2 DEF AgeInv, CreatedTyped
  <2> QED
    BY <2>1, <2>3, <2>4 DEF Ended, Unended, InFlight
<1>10. KeptInv'
  <2> SUFFICES ASSUME ~DynamicBS, NEW u \in ToSet(create_order')
               PROVE  Cardinality(Kept(u)') <= (MaxStaleness + 1) * ConsumerBatchSize
                          + ConsumerBatchSize * (start_version'[u] - RecoveredVersion)
    BY DEF KeptInv
  <2>1. CASE u = t
    <3> DEFINE A == Ended("accepted") \cup Unended
    <3>1. IsFiniteSet(A) /\ Cardinality(A) \in Nat
      <4>1. IsFiniteSet(Ended("accepted")) /\ IsFiniteSet(Unended)
        BY EndedFinite, UnendedFinite DEF TrainingInv
      <4>2. IsFiniteSet(A)
        BY <4>1, FS_Union
      <4> QED
        BY <4>2, FS_CardinalityType
    <3>2. Cardinality(A) <= (MaxStaleness + 1) * ConsumerBatchSize
                               + ConsumerBatchSize * (version - RecoveredVersion)
      BY ReadyIsBounded
    <3>3. Kept(u)' \subseteq A
      BY <1>9, <2>1
    <3> HIDE DEF A
    <3>4. Cardinality(Kept(u)') <= Cardinality(A) /\ Cardinality(Kept(u)') \in Nat
      BY <3>1, <3>3, FS_Subset, FS_CardinalityType
    <3>5. start_version'[u] = version
      BY <1>1, <1>6, <2>1
    <3> DEFINE m == (MaxStaleness + 1) * ConsumerBatchSize
                       + ConsumerBatchSize * (version - RecoveredVersion)
    <3>6. m \in Int /\ Cardinality(A) <= m
      BY <1>6, <3>2, BatchSizePositive, LimitsTyped
    <3> HIDE DEF m
    <3>7. Cardinality(Kept(u)') <= m
      BY <3>1, <3>4, <3>6
    <3> QED
      BY <3>5, <3>7 DEF m
  <2>2. CASE u # t
    <3>1. u \in ToSet(create_order)
      BY <1>3, <2>2
    <3>2. start_version'[u] = start_version[u]
      BY <1>1, <1>3, <1>6, <2>2, <3>1
    <3> QED
      BY <1>8, <3>1, <3>2 DEF AgeInv, KeptInv
  <2> QED
    BY <2>1, <2>2
<1>11. UsedBeforeInv'
  BY <1>1, <1>5 DEF AgeInv, UsedBeforeInv
<1>12. FreshInv'
  <2>1. Unended' \cap running_tasks' \subseteq (Unended \cap running_tasks) \cup {t}
    BY <1>1 DEF Unended, InFlight
  <2>2. t \notin Ready
    BY <1>2 DEF Ready, Ended, TrainingInv, StartInv, NotStarted
  <2>3. Ready \subseteq Tasks /\ Unended \cap running_tasks \subseteq Tasks /\ Used \subseteq Tasks
    BY DEF Ready, Ended, Unended, InFlight, TrainingInv, TypeOK, RunnerTypeOK, Used
  <2> SUFFICES ASSUME ~DynamicBS, MaxStaleness = 0
               PROVE  /\ \A u \in Ready' \cup (Unended' \cap running_tasks') :
                             start_version'[u] = version'
                      /\ \A u \in Used' : used_version'[u] = start_version'[u]
    BY DEF FreshInv
  <2>4. /\ \A u \in Ready \cup (Unended \cap running_tasks) : start_version[u] = version
        /\ \A u \in Used : used_version[u] = start_version[u]
    BY DEF AgeInv, FreshInv
  <2>5. \A u \in Tasks : start_version'[u] = IF u = t THEN version ELSE start_version[u]
    BY <1>1, <1>6
  <2> QED
    BY <1>1, <1>4, <2>1, <2>2, <2>3, <2>4, <2>5
<1> QED
  BY <1>7, <1>10, <1>11, <1>12 DEF AgeInv

\* The batch was started at the version it is used at, if nothing else is left.
LEMMA CountKeepsAge ==
    ASSUME TrainingInv, AgeInv, CountBatch
    PROVE  AgeInv'
<1>1. /\ UNCHANGED <<version, verdict, create_order, start_version, running_tasks, runner_up,
                     admitting, input_queue>>
      /\ used_version' = [t \in Tasks |-> IF t \in Good THEN version ELSE used_version[t]]
  BY DEF CountBatch, WaitSelects, Good, statVars, rolloutVars, runnerVars
<1>2. Used \subseteq Tasks /\ used_version \in [Tasks -> Int] /\ version \in Nat
      /\ version >= RecoveredVersion
  BY LimitsTyped DEF TrainingInv, Used, UsedInv, UsedTyped, TypeOK, CounterTypeOK
<1>3. Good \subseteq Tasks /\ Good \cap Used = {}
  BY GoodFits DEF TrainingInv
<1>4. Used' = Used \cup Good
  BY <1>1, <1>2, <1>3 DEF Used
<1>5. Good \subseteq ToSet(create_order)
  BY TrainingAssumption DEF TrainingInv, CreatedInv, Made, Good, Oldest
<1>6. Good \subseteq Ready /\ Ready' \subseteq Ready
  BY <1>1, <1>3, <1>4 DEF Ready, Ended, Good
<1>7. \A t \in Tasks : used_version'[t] = IF t \in Good THEN version ELSE used_version[t]
  BY <1>1
<1>8. CreatedTyped'
  <2>1. \A t \in Used' : /\ t \in ToSet(create_order')
                         /\ used_version'[t] >= RecoveredVersion /\ used_version'[t] <= version'
    BY <1>1, <1>2, <1>3, <1>4, <1>5, <1>7, LimitsTyped DEF AgeInv, CreatedTyped
  <2> QED
    BY <1>1, <2>1 DEF AgeInv, CreatedTyped
<1>9. \A t \in Tasks : Kept(t)' = Kept(t)
  BY <1>1 DEF Kept, CreatedBefore
<1>10. ToSet(create_order) \subseteq Tasks
  BY RangeTyped DEF TrainingInv, TypeOK, TaskTypeOK
<1>11. KeptInv'
  BY <1>1, <1>9, <1>10 DEF AgeInv, KeptInv
<1>12. UsedBeforeInv'
  <2>1. \A w \in RecoveredVersion..version : UsedBefore(w)' = UsedBefore(w)
    <3> SUFFICES ASSUME NEW w \in Int, w <= version, NEW t \in Tasks
                 PROVE  (t \in Used' /\ used_version'[t] < w) <=> (t \in Used /\ used_version[t] < w)
      BY <1>2, <1>3, <1>4, LimitsTyped DEF UsedBefore
    <3>1. CASE t \in Good
      BY <1>2, <1>3, <1>7, <3>1
    <3>2. CASE t \notin Good
      BY <1>4, <1>7, <3>2
    <3> QED
      BY <3>1, <3>2
  <2> QED
    BY <1>1, <2>1 DEF AgeInv, UsedBeforeInv
<1>13. FreshInv'
  <2>1. Unended' \cap running_tasks' = Unended \cap running_tasks
    BY <1>1 DEF Unended, InFlight
  <2> SUFFICES ASSUME ~DynamicBS, MaxStaleness = 0
               PROVE  /\ \A u \in Ready' \cup (Unended' \cap running_tasks') :
                             start_version'[u] = version'
                      /\ \A u \in Used' : used_version'[u] = start_version'[u]
    BY DEF FreshInv
  <2>2. /\ \A u \in Ready \cup (Unended \cap running_tasks) : start_version[u] = version
        /\ \A u \in Used : used_version[u] = start_version[u]
    BY DEF AgeInv, FreshInv
  <2> QED
    BY <1>1, <1>2, <1>3, <1>4, <1>6, <1>7, <2>1, <2>2
<1> QED
  BY <1>8, <1>11, <1>12, <1>13 DEF AgeInv

\* The version grows when its batch has been used and, with staleness 0, nothing
\* is left.
LEMMA VersionKeepsAge ==
    ASSUME TrainingInv, AgeInv, UpdateVersion
    PROVE  AgeInv'
<1>1. /\ step = "update" /\ version' = version + 1
      /\ UNCHANGED <<used_version, start_version, verdict, create_order, running_tasks, runner_up,
                     admitting, input_queue>>
  BY DEF UpdateVersion, StepTo, SetVersion, historyVars, receiveVars, rolloutVars, runnerVars
<1>2. /\ version \in Nat /\ version >= RecoveredVersion /\ used_version \in [Tasks -> Int]
      /\ accepted_cnt = 0 /\ Awaiting = ConsumerBatchSize
  BY <1>1, LimitsTyped DEF TrainingInv, UsedInv, UsedTyped, TypeOK, CounterTypeOK, Awaiting
<1>3. Used' = Used /\ Ready' = Ready /\ Unended' = Unended
  BY <1>1 DEF Used, Ready, Ended, Unended, InFlight
<1>4. CreatedTyped'
  <2>1. \A t \in Used : used_version[t] <= version + 1
    BY <1>2 DEF AgeInv, CreatedTyped, Used
  <2> QED
    BY <1>1, <1>3, <2>1 DEF AgeInv, CreatedTyped
<1>5. \A t \in Tasks : Kept(t)' = Kept(t)
  BY <1>1 DEF Kept, CreatedBefore
<1>6. ToSet(create_order) \subseteq Tasks
  BY RangeTyped DEF TrainingInv, TypeOK, TaskTypeOK
<1>7. KeptInv'
  BY <1>1, <1>5, <1>6 DEF AgeInv, KeptInv
<1>8. UsedBeforeInv'
  <2> SUFFICES ASSUME ~DynamicBS, NEW w \in RecoveredVersion..(version + 1)
               PROVE  Cardinality(UsedBefore(w)') = ConsumerBatchSize * (w - RecoveredVersion)
    BY <1>1 DEF UsedBeforeInv
  <2>1. UsedBefore(w)' = UsedBefore(w)
    BY <1>1, <1>3 DEF UsedBefore
  <2>2. CASE w = version + 1
    <3>1. \A t \in Used : used_version[t] < version + 1
      BY <1>2 DEF AgeInv, CreatedTyped, Used
    <3>2. UsedBefore(w) = Used
      BY <2>2, <3>1 DEF UsedBefore
    <3>3. PICK b \in Nat : b = ConsumerBatchSize
      BY BatchSizePositive
    <3>4. PICK d \in Int : d = version - RecoveredVersion
      BY <1>2, LimitsTyped
    <3>5. Cardinality(Used) = b * d + b
      BY <1>2, <3>3, <3>4 DEF TrainingInv, UsedInv
    <3>6. b * (d + 1) = b * d + b
      BY <3>3, <3>4
    <3>7. w - RecoveredVersion = d + 1
      BY <1>2, <2>2, <3>4, LimitsTyped
    <3> QED
      BY <2>1, <3>2, <3>3, <3>5, <3>6, <3>7
  <2>3. CASE w # version + 1
    <3>1. w \in RecoveredVersion..version
      BY <1>2, <2>3, LimitsTyped
    <3> QED
      BY <2>1, <3>1 DEF AgeInv, UsedBeforeInv
  <2> QED
    BY <2>2, <2>3
<1>9. FreshInv'
  <2> SUFFICES ASSUME ~DynamicBS, MaxStaleness = 0
               PROVE  Ready \cup Unended = {}
    BY <1>1, <1>3 DEF AgeInv, FreshInv
  <2> DEFINE left == Ready \cup Unended
  <2>1. /\ IsFiniteSet(left) /\ Cardinality(left) \in Nat
        /\ Cardinality(left) <= (MaxStaleness + 1) * ConsumerBatchSize - accepted_cnt - Awaiting
    BY ReadyIsBounded
  <2> HIDE DEF left
  <2>2. Cardinality(left) = 0
    <3>1. (MaxStaleness + 1) * ConsumerBatchSize = ConsumerBatchSize
      BY BatchSizePositive
    <3> QED
      BY <1>2, <2>1, <3>1, BatchSizePositive
  <2> QED
    BY <2>1, <2>2, FS_EmptySet DEF left
<1> QED
  BY <1>4, <1>7, <1>8, <1>9 DEF AgeInv

LEMMA NextKeepsAge ==
    ASSUME TrainingInv, AgeInv, [Next]_vars
    PROVE  AgeInv'
BY UnmarkedKeepsAge, EndKeepsAge, StartKeepsAge, CountKeepsAge, VersionKeepsAge DEF Marks

LEMMA InitAge == Init => AgeInv
<1> SUFFICES ASSUME Init PROVE AgeInv
  OBVIOUS
<1>1. /\ create_order = <<>> /\ used_version = [t \in Tasks |-> -1] /\ version = RecoveredVersion
      /\ start_version = [t \in Tasks |-> -1] /\ verdict = [t \in Tasks |-> "none"]
      /\ running_tasks = {}
  BY DEF Init, DispatcherInit, StatInit, RunnerInit
<1>2. Used = {} /\ Ready = {} /\ ToSet(create_order) = {} /\ Cardinality({}) = 0
  BY <1>1, FS_EmptySet DEF Used, Ready, Ended, ToSet
<1>3. UsedBeforeInv
  <2> SUFFICES ASSUME NEW w \in RecoveredVersion..version
               PROVE  Cardinality(UsedBefore(w)) = ConsumerBatchSize * (w - RecoveredVersion)
    BY DEF UsedBeforeInv
  <2>1. UsedBefore(w) = {}
    BY <1>2 DEF UsedBefore
  <2>2. w = RecoveredVersion
    BY <1>1, LimitsTyped
  <2>3. ConsumerBatchSize * (w - RecoveredVersion) = 0
    BY <2>2, LimitsTyped, BatchSizePositive
  <2> QED
    BY <1>2, <2>1, <2>3
<1>4. CreatedTyped /\ KeptInv /\ FreshInv
  BY <1>1, <1>2 DEF CreatedTyped, KeptInv, FreshInv
<1> QED
  BY <1>3, <1>4 DEF AgeInv

\* With them, what is known of the versions at which samples start and are used.
THEOREM AgeInvariant == TrainingSpec => [](TrainingInv /\ AgeInv)
<1>1. Init => TrainingInv /\ AgeInv
  BY InitTraining, InitAge
<1>2. TrainingInv /\ AgeInv /\ [Next]_vars => (TrainingInv /\ AgeInv)'
  BY NextTraining, NextKeepsAge
<1> QED
  BY <1>1, <1>2, PTL DEF TrainingSpec

\* "Setting rollout.max_head_offpolicyness=0 reverts AReaL to synchronous RL".
THEOREM StalenessZeroIsSynchronous == TrainingSpec => []Synchronous
<1>1. AgeInv => Synchronous
  BY DEF AgeInv, FreshInv, Synchronous
<1> QED
  BY <1>1, AgeInvariant, PTL

\* A batch uses up the samples that existed when a task started, unless it takes
\* younger ones: so a sample is too old only if it was overtaken.
THEOREM OldSamplesAreOvertaken == TrainingSpec => []StaleIsOvertaken
<1>1. TrainingInv /\ AgeInv => StaleIsOvertaken
  <2> SUFFICES ASSUME TrainingInv, AgeInv, ~DynamicBS, NEW t \in Used,
                      used_version[t] - start_version[t] > MaxStaleness,
                      ~\E u \in Used : /\ CreatedBefore(t, u)
                                       /\ used_version[u] < used_version[t]
               PROVE  FALSE
    BY DEF StaleIsOvertaken
  <2>1. PICK w \in Int, s \in Int :
            /\ w = used_version[t] /\ s = start_version[t]
            /\ w \in RecoveredVersion..version /\ s >= RecoveredVersion
            /\ t \in Tasks /\ t \in ToSet(create_order)
    BY LimitsTyped DEF AgeInv, CreatedTyped, TrainingInv, UsedInv, UsedTyped, Used,
       TypeOK, CounterTypeOK
  <2>2. UsedBefore(w) \subseteq Kept(t) \ {t}
    <3> SUFFICES ASSUME NEW u \in Used, used_version[u] < w
                 PROVE  u \in Kept(t) /\ u # t
      BY DEF UsedBefore
    <3>1. u \in Tasks /\ u # t /\ verdict[u] = "accepted" /\ u \in ToSet(create_order)
      BY <2>1 DEF Used, TrainingInv, UsedInv, UsedTyped, AgeInv, CreatedTyped
    <3>2. CreatedBefore(u, t) \/ CreatedBefore(t, u)
      <4>1. PICK i \in DOMAIN create_order : create_order[i] = u
        BY <3>1 DEF ToSet
      <4>2. PICK j \in DOMAIN create_order : create_order[j] = t
        BY <2>1 DEF ToSet
      <4>3. i \in Int /\ j \in Int /\ i # j
        BY <3>1, <4>1, <4>2 DEF TrainingInv, TypeOK, TaskTypeOK
      <4>4. i < j \/ j < i
        BY <4>3
      <4> QED
        BY <4>1, <4>2, <4>4 DEF CreatedBefore
    <3>3. CreatedBefore(u, t)
      BY <2>1, <3>2
    <3> QED
      BY <3>1, <3>3 DEF Kept
  <2>3. t \in Kept(t) /\ Kept(t) \subseteq Tasks
    BY <2>1 DEF Kept, TrainingInv, UsedInv
  <2>4. IsFiniteSet(Kept(t)) /\ Cardinality(Kept(t)) \in Nat
    BY <2>3, DispatcherAssumption, FS_Subset, FS_CardinalityType
  <2>5. /\ Cardinality(UsedBefore(w)) \in Nat
        /\ Cardinality(UsedBefore(w)) <= Cardinality(Kept(t)) - 1
    <3>1. Cardinality(Kept(t) \ {t}) = Cardinality(Kept(t)) - 1 /\ IsFiniteSet(Kept(t) \ {t})
      BY <2>3, <2>4, FS_RemoveElement
    <3>2. /\ IsFiniteSet(UsedBefore(w))
          /\ Cardinality(UsedBefore(w)) <= Cardinality(Kept(t) \ {t})
      BY <2>2, <3>1, FS_Subset
    <3>3. Cardinality(UsedBefore(w)) \in Nat
      BY <3>2, FS_CardinalityType
    <3> QED
      BY <3>1, <3>2, <3>3
  <2>6. PICK b \in Nat : b = ConsumerBatchSize
    BY BatchSizePositive
  <2>7. Cardinality(UsedBefore(w)) = b * (w - RecoveredVersion)
    BY <2>1, <2>6 DEF AgeInv, UsedBeforeInv
  <2>8. Cardinality(Kept(t)) <= (MaxStaleness + 1) * b + b * (s - RecoveredVersion)
    BY <2>1, <2>6 DEF AgeInv, KeptInv
  <2>9. PICK k \in Nat, d \in Nat : /\ s - RecoveredVersion = d
                                    /\ w - RecoveredVersion = MaxStaleness + 1 + d + k
    <3>1. /\ w - s > MaxStaleness /\ RecoveredVersion \in Nat /\ MaxStaleness \in Nat
      BY <2>1, LimitsTyped
    <3>2. s - RecoveredVersion \in Nat /\ w - s - MaxStaleness - 1 \in Nat
      BY <2>1, <3>1
    <3>3. w - RecoveredVersion
             = MaxStaleness + 1 + (s - RecoveredVersion) + (w - s - MaxStaleness - 1)
      BY <2>1, <3>1
    <3> QED
      BY <3>2, <3>3
  <2>10. PICK m \in Nat : m = MaxStaleness + 1
    BY LimitsTyped
  <2>11. b * (m + d + k) = m * b + b * d + b * k /\ b * k \in Nat /\ m * b + b * d \in Nat
    BY <2>6, <2>9, <2>10
  <2>12. w - RecoveredVersion = m + d + k
    BY <2>9, <2>10
  <2>13. Cardinality(UsedBefore(w)) = m * b + b * d + b * k
    BY <2>7, <2>11, <2>12
  <2>14. Cardinality(Kept(t)) <= m * b + b * d
    BY <2>8, <2>9, <2>10
  <2> QED
    BY <2>4, <2>5, <2>11, <2>13, <2>14
<1> QED
  BY <1>1, AgeInvariant, PTL

-----------------------------------------------------------------------------
(* Types of the loop.                                                      *)

\* A round submits at most one batch.
LEMMA QuotaFits ==
    ASSUME TypeOK
    PROVE  Quota \in 0..ConsumerBatchSize
<1> DEFINE cap_staleness == PendingLimit - Len(pending_inputs)
           cap_queue == MaxQueueSize - (Len(input_queue) + ConsumerBatchSize)
           least == Min({ConsumerBatchSize, cap_staleness, cap_queue})
<1>1. cap_staleness \in Int /\ cap_queue \in Int
  <2>1. Len(pending_inputs) \in Nat /\ Len(input_queue) \in Nat /\ MaxQueueSize \in Int
    BY MaxQueueSizeAssumption DEF TypeOK, TaskTypeOK, RunnerTypeOK
  <2>2. PendingLimit \in Int
    BY LimitsTyped, BatchSizePositive DEF PendingLimit
  <2> QED
    BY <2>1, <2>2, BatchSizePositive
<1>2. least \in Int /\ least <= ConsumerBatchSize
  <2> HIDE DEF cap_staleness, cap_queue
  <2>1. PICK b \in Int, c \in Int, d \in Int :
            b = ConsumerBatchSize /\ c = cap_staleness /\ d = cap_queue
    BY <1>1, BatchSizePositive
  <2>2. \E x \in {b, c, d} : \A y \in {b, c, d} : x <= y
    OBVIOUS
  <2>3. Min({b, c, d}) \in Int /\ Min({b, c, d}) <= b
    BY <2>2 DEF Min
  <2> QED
    BY <2>1, <2>3
<1>3. Quota = Max({0, least})
  BY DEF Quota
<1> HIDE DEF least
<1>4. Max({0, least}) \in {0, least} /\ Max({0, least}) >= 0
  BY <1>2, MaxMinOfTwo
<1> QED
  BY <1>2, <1>3, <1>4, BatchSizePositive

LEMMA NextKeepsLoopTypes ==
    ASSUME TrainingInv, TrainingInv', LoopTypeOK, [Next]_vars
    PROVE  LoopTypeOK'
<1>1. /\ step' \in {"submit", "submitting", "wait", "train", "update", "resume", "notify"}
      /\ accepted_cnt' \in 0..ConsumerBatchSize /\ total_attempts' \in 0..ConsumerBatchSize
  BY BatchSizePositive DEF TrainingInv, BatchInv, UsedInv, UsedTyped
<1>2. version \in Nat /\ version <= MaxVersion /\ version \in -1..MaxVersion
  BY LimitsTyped, DispatcherAssumption DEF TrainingInv, TypeOK, CounterTypeOK
<1>3. to_submit' \in 0..ConsumerBatchSize
  <2>1. CASE BeginRound
    BY <2>1, QuotaFits DEF BeginRound, TrainingInv
  <2>2. CASE SubmitOne
    BY <2>2, BatchSizePositive DEF SubmitOne, LoopTypeOK
  <2>3. CASE EndRound
    BY <2>3, BatchSizePositive DEF EndRound
  <2>4. CASE ~BeginRound /\ ~SubmitOne /\ ~EndRound
    <3>1. to_submit' = to_submit
      BY <2>4 DEF Next, vars, TrainerStep, ActivateOne, ArriveInTime, ArriveLate, CountBatch,
         TrainAndPause, UpdateVersion, Resume, Notify, StartRollout, EndRollout,
         PublishResult, Background, loopVars
    <3> QED
      BY <3>1 DEF LoopTypeOK
  <2> QED
    BY <2>1, <2>2, <2>3, <2>4
<1>4. start_version' \in [Tasks -> -1..MaxVersion]
  <2>1. CASE StartRollout
    BY <1>2, <2>1 DEF StartRollout, LoopTypeOK
  <2>2. CASE ~StartRollout
    <3>1. start_version' = start_version
      BY <2>2 DEF Next, vars, TrainerStep, BeginRound, SubmitOne, EndRound, ActivateOne,
         ArriveInTime, ArriveLate, CountBatch, TrainAndPause, UpdateVersion, Resume, Notify,
         EndRollout, PublishResult, Background, historyVars
    <3> QED
      BY <3>1 DEF LoopTypeOK
  <2> QED
    BY <2>1, <2>2
<1>5. used_version' \in [Tasks -> -1..MaxVersion]
  <2>1. CASE CountBatch
    BY <1>2, <2>1 DEF CountBatch, LoopTypeOK
  <2>2. CASE ~CountBatch
    <3>1. used_version' = used_version
      BY <2>2 DEF Next, vars, TrainerStep, BeginRound, SubmitOne, EndRound, ActivateOne,
         ArriveInTime, ArriveLate, TrainAndPause, UpdateVersion, Resume, Notify,
         StartRollout, EndRollout, PublishResult, Background, historyVars
    <3> QED
      BY <3>1 DEF LoopTypeOK
  <2> QED
    BY <2>1, <2>2
<1> QED
  BY <1>1, <1>3, <1>4, <1>5 DEF LoopTypeOK

\* The counters of a round keep within a batch, and the histories hold versions.
THEOREM LoopTypes == TrainingSpec => []LoopTypeOK
<1>1. Init => TrainingInv /\ LoopTypeOK
  <2>1. 0 \in 0..ConsumerBatchSize /\ -1 \in -1..MaxVersion
    BY BatchSizePositive, DispatcherAssumption
  <2> QED
    BY <2>1, InitTraining DEF Init, LoopTypeOK
<1>2. TrainingInv /\ LoopTypeOK /\ [Next]_vars => (TrainingInv /\ LoopTypeOK)'
  BY NextTraining, NextKeepsLoopTypes
<1> QED
  BY <1>1, <1>2, PTL DEF TrainingSpec
=============================================================================
