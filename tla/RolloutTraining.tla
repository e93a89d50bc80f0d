-------------------------- MODULE RolloutTraining ---------------------------
(***************************************************************************)
(* The training loop of areal/trainer/rl_trainer.py around the dispatcher: *)
(* a batch is collected (active_submit_and_wait), the model is trained     *)
(* while rollouts go on, and between pause() and resume() the version is   *)
(* set.  This module replaces the arbitrary clients of BatchTaskDispatcher *)
(* by that one thread and follows the version each rollout started with.   *)
(***************************************************************************)
EXTENDS BatchTaskDispatcher

CONSTANTS
    Trainer,         \* the thread, the only client of the dispatcher
    DynamicBS,       \* dynamic_bs
    MaxRejects       \* bound of the model: rollouts that are rejected

ASSUME TrainingAssumption ==
    /\ Clients = {Trainer}
    /\ DynamicBS \in BOOLEAN
    /\ MaxRejects \in Nat
    /\ ConsumerBatchSize > 0
    /\ MaxQueueSize >= ConsumerBatchSize

VARIABLES
    step,           \* where the trainer is
    to_submit,      \* inputs it is still to submit in this round
    accepted_cnt, total_attempts,
    start_version,  \* the version each rollout was created at
    used_version    \* the version it was trained at, or -1

loopVars == <<step, to_submit, accepted_cnt, total_attempts>>
historyVars == <<start_version, used_version>>
vars == <<dispatcherVars, loopVars, historyVars>>

Init ==
    /\ DispatcherInit
    /\ step = "submit" /\ to_submit = 0
    /\ accepted_cnt = 0 /\ total_attempts = 0
    /\ start_version = [t \in Tasks |-> -1]
    /\ used_version = [t \in Tasks |-> -1]

StepTo(here, next) == step = here /\ step' = next

-----------------------------------------------------------------------------
(* active_submit_and_wait *)

\* Faulty: a round is not limited to one batch.
QuotaUnlimited ==
    LET cap_staleness == PendingLimit - Len(pending_inputs)
        cap_queue == MaxQueueSize - (Len(input_queue) + ConsumerBatchSize)
    IN Max({0, Min({cap_staleness, cap_queue})})

\* How many inputs this round submits: at most a batch, and what both limits
\* leave.
Quota ==
    LET cap_staleness == PendingLimit - Len(pending_inputs)
        cap_queue == MaxQueueSize - (Len(input_queue) + ConsumerBatchSize)
    IN Max({0, Min({ConsumerBatchSize, cap_staleness, cap_queue})})

BeginRound ==
    /\ StepTo("submit", "submitting")
    /\ to_submit' = Quota
    /\ UNCHANGED <<dispatcherVars, accepted_cnt, total_attempts, historyVars>>

\* The model ends the data with the identifiers; the program's is infinite.
SubmitOne ==
    /\ step = "submitting" /\ to_submit > 0
    /\ SubmitTaskInput(Trainer)
    /\ to_submit' = to_submit - 1
    /\ UNCHANGED <<step, accepted_cnt, total_attempts, historyVars>>

ActivateOne ==
    /\ ActivateTask(Trainer)
    /\ UNCHANGED <<loopVars, historyVars>>

EndRound ==
    /\ client[Trainer] = "idle"
    /\ to_submit = 0 \/ issued + 1 \notin Tasks
    /\ StepTo("submitting", "wait")
    /\ to_submit' = 0
    /\ UNCHANGED <<dispatcherVars, accepted_cnt, total_attempts, historyVars>>

Missing == ConsumerBatchSize - accepted_cnt

ArriveInTime ==
    /\ step = "wait"
    /\ WaitDrains(Trainer, Missing)
    /\ UNCHANGED <<loopVars, historyVars>>

\* wait_results(timeout=1) expires: `arrived = []' and another round.
ArriveLate ==
    /\ client[Trainer] = "idle"
    /\ Cardinality(pending_results) < Missing
    /\ StepTo("wait", "submit")
    /\ UNCHANGED <<dispatcherVars, to_submit, accepted_cnt, total_attempts,
                   historyVars>>

\* Faulty: one accepted result too few.
BatchCompleteEarly(attempts, accepted) ==
    (IF DynamicBS THEN attempts ELSE accepted + 1) >= ConsumerBatchSize

BatchComplete(attempts, accepted) ==
    (IF DynamicBS THEN attempts ELSE accepted) >= ConsumerBatchSize

\* The results that arrived, all Missing of them, are counted; with dynamic_bs the
\* rejected ones make up the batch as well, and then the first answer is a whole batch:
\* the loop breaks at its last result.
CountBatch ==
    LET arrived == Oldest(drained[Trainer], Missing)
        good == {t \in arrived : verdict[t] = "accepted"}
        attempts == total_attempts
                       + Cardinality(IF DynamicBS THEN arrived ELSE good)
        complete == BatchComplete(attempts, accepted_cnt + Cardinality(good))
    IN /\ step = "wait"
       /\ WaitSelects(Trainer)
       /\ used_version' = [t \in Tasks |-> IF t \in good THEN version
                                           ELSE used_version[t]]
       /\ step' = IF complete THEN "train" ELSE "submit"
       /\ accepted_cnt' = IF complete THEN 0
                          ELSE accepted_cnt + Cardinality(good)
       /\ total_attempts' = IF complete THEN 0 ELSE attempts
       /\ UNCHANGED <<to_submit, start_version>>

-----------------------------------------------------------------------------
(* Training on the batch, and the weight update between pause and resume. *)

TrainAndPause ==
    /\ version < MaxVersion
    /\ StepTo("train", "update")
    /\ Pause
    /\ UNCHANGED <<to_submit, accepted_cnt, total_attempts, historyVars>>

UpdateVersion ==
    /\ StepTo("update", "resume")
    /\ SetVersion
    /\ UNCHANGED <<to_submit, accepted_cnt, total_attempts, historyVars>>

Resume ==
    /\ StepTo("resume", "notify")
    /\ ResumeRunner
    /\ UNCHANGED <<to_submit, accepted_cnt, total_attempts, historyVars>>

Notify ==
    /\ StepTo("notify", "submit")
    /\ ResumeNotify
    /\ UNCHANGED <<to_submit, accepted_cnt, total_attempts, historyVars>>

TrainerStep ==
    \/ BeginRound \/ SubmitOne \/ ActivateOne \/ EndRound
    \/ ArriveInTime \/ ArriveLate \/ CountBatch
    \/ TrainAndPause \/ UpdateVersion \/ Resume \/ Notify

-----------------------------------------------------------------------------
(* The other threads. *)

StartRollout ==
    /\ RunnerStarts
    /\ start_version' = [start_version EXCEPT ![Head(input_queue)] = version]
    /\ UNCHANGED <<used_version, loopVars>>

Rejections == Cardinality({t \in Tasks : verdict[t] = "rejected"})

EndRollout(t) ==
    /\ RolloutAccepted(t) \/ (Rejections < MaxRejects /\ RolloutRejected(t))
    /\ UNCHANGED <<loopVars, historyVars>>

PublishResult(t) ==
    /\ RunnerPublishes(t)
    /\ UNCHANGED <<loopVars, historyVars>>

Background ==
    /\ CommitStep \/ FetchStep \/ RunnerAdmits \/ RunnerEnds
    /\ UNCHANGED <<loopVars, historyVars>>

Next ==
    \/ TrainerStep \/ StartRollout \/ Background
    \/ \E t \in Tasks : EndRollout(t) \/ PublishResult(t)

TrainingSpec == Init /\ [][Next]_vars

\* Besides the threads, every rollout ends: the engines answer or time out.
FairTrainingSpec ==
    /\ TrainingSpec
    /\ WF_vars(TrainerStep)
    /\ WF_vars(CommitStep /\ UNCHANGED <<loopVars, historyVars>>)
    /\ WF_vars(FetchStep /\ UNCHANGED <<loopVars, historyVars>>)
    /\ WF_vars(~paused /\ RunnerAdmits /\ UNCHANGED <<loopVars, historyVars>>)
    /\ WF_vars(~paused /\ StartRollout)
    /\ \A t \in Tasks : /\ WF_vars(EndRollout(t))
                        /\ WF_vars(~paused /\ PublishResult(t))

-----------------------------------------------------------------------------
(* Properties. *)

LoopTypeOK ==
    /\ step \in {"submit", "submitting", "wait", "train", "update", "resume",
                 "notify"}
    /\ to_submit \in 0..ConsumerBatchSize
    /\ accepted_cnt \in 0..ConsumerBatchSize
    /\ total_attempts \in 0..ConsumerBatchSize
    /\ start_version \in [Tasks -> -1..MaxVersion]
    /\ used_version \in [Tasks -> -1..MaxVersion]

Used == {t \in Tasks : used_version[t] # -1}

\* get_capacity bounds how many samples exist, and its documentation says of their
\* age that "by the time samples are consumed, they won't exceed the maximum
\* allowed staleness".  What the code ensures is less: a sample is used more than
\* MaxStaleness versions after the one it started with only if a rollout that was
\* created after it has been used at an earlier version.  (Dynamic batches use up
\* versions on rejected rollouts.)
StaleIsOvertaken ==
    ~DynamicBS => \A t \in Used :
        used_version[t] - start_version[t] > MaxStaleness =>
            \E u \in Used : /\ CreatedBefore(t, u)
                            /\ used_version[u] < used_version[t]

\* "Setting rollout.max_head_offpolicyness=0 reverts AReaL to synchronous RL":
\* what the model is trained on was generated by the model itself.
Synchronous ==
    ~DynamicBS /\ MaxStaleness = 0 =>
        \A t \in Used : used_version[t] = start_version[t]

\* Every batch but a dynamic one is full, and no sample is trained on twice: the
\* version counts the batches.
FullBatches ==
    ~DynamicBS /\ step = "submit" /\ accepted_cnt = 0 =>
        Cardinality(Used) = ConsumerBatchSize * (version - RecoveredVersion)

\* What has been generated for the trainer and not been used stays within what
\* MaxStaleness + 1 batches can hold, the rollouts in progress included.  (A
\* rejected rollout that a dynamic batch counts leaves room for one more.)
BacklogBound ==
    LET ready == {t \in Tasks : verdict[t] = "accepted"} \ Used
    IN ~DynamicBS /\ step \notin {"train", "update"} =>
          Cardinality(ready \cup Unended)
             <= (MaxStaleness + 1) * ConsumerBatchSize - accepted_cnt

\* The trainer reaches the last version: the capacity that is tested, the
\* queues, the wake-ups and the pauses never bring the loop to a halt.
TrainingProgress == <>(version = MaxVersion)
=============================================================================
