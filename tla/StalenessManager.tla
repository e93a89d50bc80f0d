-------------------------- MODULE StalenessManager --------------------------
(***************************************************************************)
(* areal/infra/staleness_manager.py: the counters that decide whether one  *)
(* more rollout may start.  Every method holds the manager's lock for all  *)
(* of its body, so each is one action on `rollout_stat'; the actions are   *)
(* taken by BatchTaskDispatcher, which extends this module.  `version' is  *)
(* what the version provider (the inference engine) returns.               *)
(***************************************************************************)
EXTENDS Integers

CONSTANTS
    MaxConcurrentRollouts,  \* max_concurrent_rollouts
    ConsumerBatchSize,      \* consumer_batch_size
    MaxStaleness,           \* max_staleness, the config's max_head_offpolicyness
    RecoveredVersion        \* version of the checkpoint the trainer started from

ASSUME StalenessAssumption ==
    /\ MaxConcurrentRollouts \in Nat
    /\ ConsumerBatchSize \in Nat
    /\ MaxStaleness \in Nat
    /\ RecoveredVersion \in Nat

VARIABLES rollout_stat, version

\* The fields of RolloutStat.
StatType == [enqueued : Int, running : Int, accepted : Int, rejected : Int]

AtLeastOne(n) == IF n > 1 THEN n ELSE 1

ConcurrencyLimit == AtLeastOne(MaxConcurrentRollouts)

BatchSize == AtLeastOne(ConsumerBatchSize)

\* get_pending_limit
PendingLimit == (MaxStaleness + 1) * ConsumerBatchSize

\* Faulty: one version too many.
MaxSamplesAhead(v) == (MaxStaleness + v + 2) * BatchSize

\* All the samples that may exist at version v, the consumed ones included.
MaxSamples(v) == (MaxStaleness + v + 1) * BatchSize

Samples == rollout_stat.accepted + rollout_stat.running

\* Faulty: a recovered trainer starts with an empty manager.
StatInitForgetful ==
    /\ version = RecoveredVersion
    /\ rollout_stat = [enqueued |-> 0, running |-> 0, rejected |-> 0,
                       accepted |-> 0]

\* A new manager, after on_version_recovered: the samples of the versions
\* before the checkpoint count as accepted.
StatInit ==
    /\ version = RecoveredVersion
    /\ rollout_stat = [enqueued |-> 0, running |-> 0, rejected |-> 0,
                       accepted |-> RecoveredVersion * BatchSize]

\* Faulty: the concurrency limit is not looked at.
GetCapacityStalenessOnly == MaxSamples(version) - Samples

\* get_capacity() > 0, the only use the dispatcher makes of get_capacity.
GetCapacity ==
    LET concurrency == ConcurrencyLimit - rollout_stat.running
        staleness == MaxSamples(version) - Samples
    IN IF concurrency < staleness THEN concurrency ELSE staleness

\* Faulty: one rollout too many.
HasCapacityOffByOne == GetCapacity >= 0

HasCapacity == GetCapacity > 0

OnRolloutEnqueued ==
    rollout_stat' = [rollout_stat EXCEPT !.enqueued = @ + 1]

OnRolloutSubmitted ==
    rollout_stat' = [rollout_stat EXCEPT !.enqueued = @ - 1,
                                         !.running = @ + 1]

OnRolloutAccepted ==
    rollout_stat' = [rollout_stat EXCEPT !.running = @ - 1,
                                         !.accepted = @ + 1]

\* Faulty: a rejected rollout goes on running.
OnRolloutRejectedKeepsRunning ==
    rollout_stat' = [rollout_stat EXCEPT !.rejected = @ + 1]

OnRolloutRejected ==
    rollout_stat' = [rollout_stat EXCEPT !.running = @ - 1,
                                         !.rejected = @ + 1]
=============================================================================
