-------------------------- MODULE DispatcherProofs --------------------------
(***************************************************************************)
(* Proofs about BatchTaskDispatcher, for every value of its constants.     *)
(*                                                                         *)
(* SampleBound is not inductive: the producer tests the capacity in        *)
(* CommitNext and counts the rollout in CommitAccount, and what happens in *)
(* between would be free to use the same capacity.  CapacityInv counts the *)
(* rollout in hand as a permit: only the producer takes permits, and no    *)
(* other step makes the samples grow, so a tested capacity stays valid.    *)
(*                                                                         *)
(* ConcurrencyBound is about the rollouts themselves, so the counter has   *)
(* to be tied to them.  The tie is an inequality (a runner that dies takes *)
(* rollouts with it and leaves the counter), and it holds because each     *)
(* rollout ends once: StartInv says that a task which has not started, or  *)
(* not ended, has no verdict.  ExactlyOnePlace follows from nine sets      *)
(* between which each step moves tasks (PlaceInv), CountersMatch from      *)
(* StartInv and the counts of those sets, OnlyDeadlinesDrop from what a    *)
(* fetch asks for (FetchInv).  What makes a sleeping producer wake up is a       *)
(* liveness property; its safety half, that whoever has to notify it is up *)
(* and has a reason in hand, is NoMissedWakeup.                            *)
(***************************************************************************)
EXTENDS BatchTaskDispatcher, QueueLemmas, FiniteSetTheorems, TLAPS

\* The rollout that was given capacity and is not in the counters yet.
Permit == IF commit \in {"submit", "account"} THEN 1 ELSE 0

CountersTyped ==
    /\ rollout_stat \in StatType
    /\ version \in Nat

CapacityInv ==
    /\ CountersTyped
    /\ Samples + Permit <= MaxSamples(version)
    /\ rollout_stat.running + Permit <= ConcurrencyLimit

-----------------------------------------------------------------------------
\* get_capacity's two limits are integers, and at least one.
LEMMA LimitsTyped ==
    /\ BatchSize \in Nat /\ BatchSize >= 1
    /\ ConcurrencyLimit \in Nat /\ ConcurrencyLimit >= 1
    /\ MaxStaleness \in Nat /\ RecoveredVersion \in Nat
BY StalenessAssumption DEF BatchSize, ConcurrencyLimit, AtLeastOne

\* The room for samples is an integer at every version.
LEMMA MaxSamplesTyped ==
    ASSUME NEW v \in Nat
    PROVE  MaxSamples(v) \in Int
<1>1. PICK b \in Nat : b = BatchSize
  BY LimitsTyped
<1>2. MaxStaleness + v + 1 \in Nat
  BY LimitsTyped
<1>3. \A m \in Nat : m * b \in Int
  OBVIOUS
<1> QED
  BY <1>1, <1>2, <1>3 DEF MaxSamples

\* A product of naturals does not shrink when its first factor grows.
LEMMA ProductGrows ==
    ASSUME NEW m \in Nat, NEW n \in Nat, NEW b \in Nat
    PROVE  m * b <= (m + n) * b
<1>1. (m + n) * b = m * b + n * b
  OBVIOUS
<1>2. m * b \in Nat /\ n * b \in Nat
  OBVIOUS
<1> QED
  BY <1>1, <1>2

\* set_version only adds to the room for samples.
LEMMA MaxSamplesGrows ==
    ASSUME NEW v \in Nat
    PROVE  MaxSamples(v) <= MaxSamples(v + 1)
<1>1. PICK b \in Nat : b = BatchSize
  BY LimitsTyped
<1>2. PICK m \in Nat : m = MaxStaleness + v + 1
  BY LimitsTyped
<1>3. MaxStaleness + (v + 1) + 1 = m + 1
  BY <1>2, LimitsTyped
<1>4. m * b <= (m + 1) * b
  BY ProductGrows
<1> QED
  BY <1>1, <1>2, <1>3, <1>4 DEF MaxSamples

\* A trainer that recovers a version fits the samples of the earlier versions.
LEMMA RecoveredFits == RecoveredVersion * BatchSize <= MaxSamples(RecoveredVersion)
<1>1. PICK b \in Nat : b = BatchSize
  BY LimitsTyped
<1>2. RecoveredVersion * b <= (RecoveredVersion + (MaxStaleness + 1)) * b
  BY LimitsTyped, ProductGrows
<1>3. RecoveredVersion + (MaxStaleness + 1) = MaxStaleness + RecoveredVersion + 1
  BY LimitsTyped
<1> QED
  BY <1>1, <1>2, <1>3 DEF MaxSamples

\* get_capacity() > 0 leaves room for one more under both limits.
LEMMA CapacityIsRoom ==
    ASSUME CountersTyped, HasCapacity
    PROVE  /\ Samples + 1 <= MaxSamples(version)
           /\ rollout_stat.running + 1 <= ConcurrencyLimit
<1>1. PICK m \in Int : m = MaxSamples(version)
  BY MaxSamplesTyped DEF CountersTyped
<1>2. PICK c \in Nat : c = ConcurrencyLimit
  BY LimitsTyped
<1>3. Samples \in Int /\ rollout_stat.running \in Int
  BY DEF CountersTyped, StatType, Samples
<1>4. (IF c - rollout_stat.running < m - Samples
         THEN c - rollout_stat.running ELSE m - Samples) > 0
  BY <1>1, <1>2 DEF HasCapacity, GetCapacity
<1> QED
  BY <1>1, <1>2, <1>3, <1>4

\* Linear arithmetic over what the operators evaluate to.
LEMMA SumShrinks ==
    ASSUME NEW x \in Int, NEW y \in Int, NEW x1 \in Int, NEW y1 \in Int,
           NEW m \in Int, x1 + y1 <= x + y, x + y <= m
    PROVE  x1 + y1 <= m
OBVIOUS

LEMMA BothShrink ==
    ASSUME NEW x \in Int, NEW y \in Int, NEW x1 \in Int, NEW y1 \in Int,
           x1 <= x, y1 <= y
    PROVE  x1 + y1 <= x + y
OBVIOUS

\* Two counters of rollout_stat that change together keep its type and leave
\* the others alone.
LEMMA MovedField ==
    ASSUME NEW s \in StatType
    PROVE  /\ [s EXCEPT !.enqueued = @ - 1, !.running = @ + 1] \in StatType
           /\ [s EXCEPT !.enqueued = @ - 1, !.running = @ + 1].running = s.running + 1
           /\ [s EXCEPT !.enqueued = @ - 1, !.running = @ + 1].accepted = s.accepted
           /\ [s EXCEPT !.running = @ - 1, !.accepted = @ + 1] \in StatType
           /\ [s EXCEPT !.running = @ - 1, !.accepted = @ + 1].running = s.running - 1
           /\ [s EXCEPT !.running = @ - 1, !.accepted = @ + 1].accepted = s.accepted + 1
           /\ [s EXCEPT !.running = @ - 1, !.rejected = @ + 1] \in StatType
           /\ [s EXCEPT !.running = @ - 1, !.rejected = @ + 1].running = s.running - 1
           /\ [s EXCEPT !.running = @ - 1, !.rejected = @ + 1].accepted = s.accepted
<1>1. /\ s.enqueued - 1 \in Int /\ s.running + 1 \in Int /\ s.running - 1 \in Int
      /\ s.accepted + 1 \in Int /\ s.rejected + 1 \in Int
  BY DEF StatType
<1>2. \A x \in Int, y \in Int :
         /\ [s EXCEPT !.enqueued = x, !.running = y] \in StatType
         /\ [s EXCEPT !.running = x, !.accepted = y] \in StatType
         /\ [s EXCEPT !.running = x, !.rejected = y] \in StatType
  BY DEF StatType
<1>3. /\ [s EXCEPT !.enqueued = @ - 1, !.running = @ + 1] \in StatType
      /\ [s EXCEPT !.running = @ - 1, !.accepted = @ + 1] \in StatType
      /\ [s EXCEPT !.running = @ - 1, !.rejected = @ + 1] \in StatType
  BY <1>1, <1>2
<1> QED
  BY <1>3 DEF StatType

\* A notify never gives the producer a permit nor takes one away.
LEMMA WokenKeepsPermit ==
    ASSUME NotifyInput
    PROVE  Permit' = Permit
BY DEF NotifyInput, Woken, Permit

\* What a step that leaves the version alone, and adds neither a sample nor a
\* permit beyond those there are, does to the invariant: nothing.
LEMMA NoMoreSamples ==
    ASSUME CapacityInv,
           rollout_stat' \in StatType, version' = version,
           Samples' + Permit' <= Samples + Permit,
           rollout_stat'.running + Permit' <= rollout_stat.running + Permit
    PROVE  CapacityInv'
<1>1. PICK m \in Int : m = MaxSamples(version)
  BY MaxSamplesTyped DEF CapacityInv, CountersTyped
<1>2. PICK c \in Int : c = ConcurrencyLimit
  BY LimitsTyped
<1>3. MaxSamples(version)' = m /\ ConcurrencyLimit' = c
  BY <1>1, <1>2 DEF MaxSamples, BatchSize, ConcurrencyLimit, AtLeastOne
<1>4. /\ Samples \in Int /\ Samples' \in Int
      /\ rollout_stat.running \in Int /\ rollout_stat'.running \in Int
      /\ Permit \in Int /\ Permit' \in Int
  BY DEF CapacityInv, CountersTyped, StatType, Samples, Permit
<1>5. CountersTyped'
  BY DEF CapacityInv, CountersTyped
<1>6. Samples + Permit <= m /\ rollout_stat.running + Permit <= c
  BY <1>1, <1>2 DEF CapacityInv
<1>7. Samples' + Permit' <= m
  BY <1>4, <1>6, SumShrinks
<1>8. rollout_stat'.running + Permit' <= c
  BY <1>4, <1>6, SumShrinks
<1> QED
  BY <1>3, <1>5, <1>7, <1>8 DEF CapacityInv

\* A step that does not touch the counters only has to keep the permit.
LEMMA SameCounters ==
    ASSUME CapacityInv, UNCHANGED statVars, Permit' <= Permit
    PROVE  CapacityInv'
<1>1. rollout_stat' \in StatType /\ version' = version
  BY DEF CapacityInv, CountersTyped, statVars
<1>2. Samples' = Samples /\ rollout_stat'.running = rollout_stat.running
  BY DEF Samples, statVars
<1>3. /\ Samples \in Int /\ rollout_stat.running \in Int
      /\ Permit \in Int /\ Permit' \in Int
  BY DEF CapacityInv, CountersTyped, StatType, Samples, Permit
<1>4. Samples' + Permit' <= Samples + Permit
  <2>1. Samples' \in Int /\ Samples' <= Samples
    BY <1>2, <1>3
  <2> QED
    BY <1>3, <2>1, BothShrink
<1>5. rollout_stat'.running + Permit' <= rollout_stat.running + Permit
  BY <1>2, <1>3
<1> QED
  BY <1>1, <1>4, <1>5, NoMoreSamples

\* A rollout that ends leaves the running counter, and at most moves to the
\* accepted one.
LEMMA RolloutEndKeepsCapacity ==
    ASSUME CapacityInv, version' = version, commit' = commit,
           OnRolloutAccepted \/ OnRolloutRejected
    PROVE  CapacityInv'
<1>1. rollout_stat \in StatType
  BY DEF CapacityInv, CountersTyped
<1>2. /\ rollout_stat' \in StatType
      /\ rollout_stat'.running = rollout_stat.running - 1
      /\ \/ rollout_stat'.accepted = rollout_stat.accepted + 1
         \/ rollout_stat'.accepted = rollout_stat.accepted
  <2>1. CASE OnRolloutAccepted
    BY <1>1, <2>1, MovedField DEF OnRolloutAccepted
  <2>2. CASE OnRolloutRejected
    BY <1>1, <2>2, MovedField DEF OnRolloutRejected
  <2> QED
    BY <2>1, <2>2
<1>3. Permit' = Permit /\ Permit \in Int
  BY DEF Permit
<1>4. rollout_stat.running \in Int /\ rollout_stat.accepted \in Int
  BY <1>1 DEF StatType
<1>5. Samples' <= Samples /\ Samples \in Int /\ Samples' \in Int
  BY <1>2, <1>4 DEF Samples
<1>6. Samples' + Permit' <= Samples + Permit
  <2>1. Permit' \in Int /\ Permit' <= Permit
    BY <1>3
  <2> QED
    BY <1>3, <1>5, <2>1, BothShrink
<1>7. rollout_stat'.running + Permit' <= rollout_stat.running + Permit
  BY <1>2, <1>3, <1>4
<1> QED
  BY <1>2, <1>6, <1>7, NoMoreSamples

-----------------------------------------------------------------------------
LEMMA InitCapacity == DispatcherInit => CapacityInv
<1> SUFFICES ASSUME DispatcherInit
             PROVE  CapacityInv
  OBVIOUS
<1>1. PICK a \in Int : a = RecoveredVersion * BatchSize
  <2>1. PICK b \in Nat : b = BatchSize
    BY LimitsTyped
  <2>2. RecoveredVersion * b \in Int
    BY LimitsTyped
  <2> QED
    BY <2>1, <2>2
<1>2. /\ version = RecoveredVersion /\ Permit = 0
      /\ rollout_stat = [enqueued |-> 0, running |-> 0, rejected |-> 0,
                         accepted |-> a]
  BY <1>1 DEF DispatcherInit, StatInit, Permit
<1>3. CountersTyped
  BY <1>2, LimitsTyped DEF CountersTyped, StatType
<1>4. Samples + Permit <= MaxSamples(version)
  <2>1. PICK m \in Int : m = MaxSamples(version)
    BY <1>3, MaxSamplesTyped DEF CountersTyped
  <2>2. Samples + Permit = a
    BY <1>2 DEF Samples
  <2>3. a <= m
    BY <1>1, <1>2, <2>1, RecoveredFits
  <2> QED
    BY <2>1, <2>2, <2>3
<1>5. rollout_stat.running + Permit <= ConcurrencyLimit
  BY <1>2, LimitsTyped
<1> QED
  BY <1>3, <1>4, <1>5 DEF CapacityInv

LEMMA CommitKeepsCapacity == CapacityInv /\ CommitStep => CapacityInv'
<1> SUFFICES ASSUME CapacityInv, CommitStep
             PROVE  CapacityInv'
  OBVIOUS
<1>1. CASE CommitNext
  <2>1. HasCapacity
    BY <1>1 DEF CommitNext, MaySubmit
  <2>2. UNCHANGED statVars /\ Permit' = 1
    BY <1>1 DEF CommitNext, Permit
  <2>3. /\ Samples + 1 <= MaxSamples(version)
        /\ rollout_stat.running + 1 <= ConcurrencyLimit
    BY <2>1, CapacityIsRoom DEF CapacityInv
  <2>4. /\ Samples' = Samples /\ rollout_stat' = rollout_stat
        /\ MaxSamples(version)' = MaxSamples(version)
        /\ ConcurrencyLimit' = ConcurrencyLimit
    BY <2>2 DEF statVars, Samples, MaxSamples, BatchSize, ConcurrencyLimit,
       AtLeastOne
  <2>5. CountersTyped'
    BY <2>2 DEF CapacityInv, CountersTyped, statVars
  <2> QED
    BY <2>2, <2>3, <2>4, <2>5 DEF CapacityInv
<1>2. CASE CommitAccount
  <2>1. rollout_stat \in StatType /\ version' = version
    BY <1>2 DEF CapacityInv, CountersTyped, CommitAccount
  <2>2. /\ rollout_stat' \in StatType
        /\ rollout_stat'.running = rollout_stat.running + 1
        /\ rollout_stat'.accepted = rollout_stat.accepted
    BY <1>2, <2>1, MovedField DEF CommitAccount, OnRolloutSubmitted
  <2>3. Permit = 1 /\ Permit' = 0
    BY <1>2 DEF CommitAccount, Permit
  <2>4. rollout_stat.running \in Int /\ rollout_stat.accepted \in Int
    BY <2>1 DEF StatType
  <2>5. Samples' + Permit' <= Samples + Permit
    BY <2>2, <2>3, <2>4 DEF Samples
  <2>6. rollout_stat'.running + Permit' <= rollout_stat.running + Permit
    BY <2>2, <2>3, <2>4
  <2> QED
    BY <2>1, <2>2, <2>5, <2>6, NoMoreSamples
<1>3. CASE CommitSubmit
  <2>1. UNCHANGED statVars /\ Permit' <= Permit
    BY <1>3 DEF CommitSubmit, Permit
  <2> QED
    BY <2>1, SameCounters
<1>4. CASE CommitRequeue \/ CommitRecheckFull
  <2>1. UNCHANGED statVars /\ Permit' <= Permit
    BY <1>4 DEF CommitRequeue, CommitRecheckFull, FullNext, Permit
  <2> QED
    BY <2>1, SameCounters
<1>5. CASE CommitWaits \/ CommitQueueFull \/ CommitExits \/ CommitFails
  <2>1. UNCHANGED statVars /\ Permit' <= Permit
    BY <1>5 DEF CommitWaits, CommitQueueFull, CommitExits, CommitFails, Permit
  <2> QED
    BY <2>1, SameCounters
<1> QED
  BY <1>1, <1>2, <1>3, <1>4, <1>5 DEF CommitStep

LEMMA FetchKeepsCapacity == CapacityInv /\ FetchStep => CapacityInv'
<1> SUFFICES ASSUME CapacityInv, FetchStep
             PROVE  CapacityInv'
  OBVIOUS
<1>1. CASE FetchNotify \/ FetchFails
  <2>1. NotifyInput /\ UNCHANGED statVars
    BY <1>1 DEF FetchNotify, FetchFails
  <2>2. Permit' <= Permit
    BY <2>1, WokenKeepsPermit DEF Permit
  <2> QED
    BY <2>1, <2>2, SameCounters
<1>2. CASE FetchPoll \/ FetchGet \/ FetchTimeout \/ FetchStore \/ FetchExits
  <2>1. UNCHANGED statVars /\ UNCHANGED commitVars
    BY <1>2 DEF FetchPoll, FetchGet, FetchTimeout, FetchStore, FetchExits
  <2>2. Permit' <= Permit
    BY <2>1 DEF Permit, commitVars
  <2> QED
    BY <2>1, <2>2, SameCounters
<1> QED
  BY <1>1, <1>2 DEF FetchStep

LEMMA RunnerKeepsCapacity == CapacityInv /\ RunnerThread => CapacityInv'
<1> SUFFICES ASSUME CapacityInv, RunnerThread
             PROVE  CapacityInv'
  OBVIOUS
<1>1. UNCHANGED statVars /\ UNCHANGED commitVars
  BY DEF RunnerThread, RunnerAdmits, RunnerStarts, RunnerEnds, RunnerPublishes,
     Idle
<1>2. Permit' <= Permit
  BY <1>1 DEF Permit, commitVars
<1> QED
  BY <1>1, <1>2, SameCounters

LEMMA RolloutsKeepCapacity == CapacityInv /\ Rollouts => CapacityInv'
<1> SUFFICES ASSUME CapacityInv, Rollouts
             PROVE  CapacityInv'
  OBVIOUS
<1>1. /\ version' = version /\ commit' = commit
      /\ OnRolloutAccepted \/ OnRolloutRejected
  BY DEF Rollouts, RolloutAccepted, RolloutRejected, Idle, commitVars
<1> QED
  BY <1>1, RolloutEndKeepsCapacity

LEMMA ClientKeepsCapacity ==
    ASSUME CapacityInv, NEW c \in Clients, Calls(c) \/ ClientStep(c)
    PROVE  CapacityInv'
<1>1. CASE SubmitTaskInput(c)
  <2>1. rollout_stat \in StatType /\ version' = version
    BY <1>1 DEF CapacityInv, CountersTyped, SubmitTaskInput
  <2>2. /\ rollout_stat' \in StatType
        /\ rollout_stat'.running = rollout_stat.running
        /\ rollout_stat'.accepted = rollout_stat.accepted
    BY <1>1, <2>1 DEF SubmitTaskInput, OnRolloutEnqueued, StatType
  <2>3. Permit' = Permit /\ Permit \in Int
    BY <1>1, WokenKeepsPermit DEF SubmitTaskInput, Permit
  <2>4. rollout_stat.running \in Int /\ rollout_stat.accepted \in Int
    BY <2>1 DEF StatType
  <2>5. Samples' = Samples /\ Samples \in Int
    BY <2>2, <2>4 DEF Samples
  <2> QED
    BY <2>1, <2>2, <2>3, <2>4, <2>5, NoMoreSamples
<1>2. CASE ~SubmitTaskInput(c)
  <2>1. UNCHANGED statVars /\ UNCHANGED commitVars
    BY <1>2 DEF Calls, ClientStep, WaitDrains, WaitSelects, TaskArrives,
       ActivateTask
  <2>2. Permit' <= Permit
    BY <2>1 DEF Permit, commitVars
  <2> QED
    BY <2>1, <2>2, SameCounters
<1> QED
  BY <1>1, <1>2

LEMMA VersionKeepsCapacity == CapacityInv /\ SetVersion => CapacityInv'
<1> SUFFICES ASSUME CapacityInv, SetVersion
             PROVE  CapacityInv'
  OBVIOUS
<1>1. /\ version \in Nat /\ version' = version + 1
      /\ rollout_stat' = rollout_stat /\ commit' = commit
  BY DEF CapacityInv, CountersTyped, SetVersion, commitVars
<1>2. CountersTyped' /\ Samples' = Samples /\ Permit' = Permit
  BY <1>1 DEF CapacityInv, CountersTyped, Samples, Permit
<1>3. /\ MaxSamples(version)' = MaxSamples(version + 1)
      /\ ConcurrencyLimit' = ConcurrencyLimit
  BY <1>1 DEF MaxSamples, BatchSize, ConcurrencyLimit, AtLeastOne
<1>4. PICK m \in Int, n \in Int :
         /\ m = MaxSamples(version) /\ n = MaxSamples(version + 1) /\ m <= n
  BY <1>1, MaxSamplesTyped, MaxSamplesGrows
<1>5. Samples + Permit \in Int /\ Samples + Permit <= m
  BY <1>4 DEF CapacityInv, CountersTyped, StatType, Samples, Permit
<1>6. Samples + Permit <= n
  BY <1>4, <1>5
<1> QED
  BY <1>1, <1>2, <1>3, <1>4, <1>6 DEF CapacityInv

LEMMA ControlKeepsCapacity ==
    CapacityInv /\ (Pause \/ ResumeRunner \/ ResumeNotify \/ Destroy)
        => CapacityInv'
<1> SUFFICES ASSUME CapacityInv, Pause \/ ResumeRunner \/ ResumeNotify \/ Destroy
             PROVE  CapacityInv'
  OBVIOUS
<1>1. UNCHANGED statVars /\ (NotifyInput \/ UNCHANGED commitVars)
  BY DEF Pause, ResumeRunner, ResumeNotify, Destroy
<1>2. Permit' <= Permit
  BY <1>1, WokenKeepsPermit DEF Permit, commitVars
<1> QED
  BY <1>1, <1>2, SameCounters

LEMMA NextKeepsCapacity ==
    CapacityInv /\ [DispatcherNext]_dispatcherVars => CapacityInv'
<1> SUFFICES ASSUME CapacityInv, [DispatcherNext]_dispatcherVars
             PROVE  CapacityInv'
  OBVIOUS
<1>1. CASE UNCHANGED dispatcherVars
  <2>1. UNCHANGED statVars /\ Permit' <= Permit
    BY <1>1 DEF dispatcherVars, statVars, commitVars, Permit
  <2> QED
    BY <2>1, SameCounters
<1>2. CASE DispatcherNext
  BY <1>2, CommitKeepsCapacity, FetchKeepsCapacity, RunnerKeepsCapacity,
     RolloutsKeepCapacity, ClientKeepsCapacity, VersionKeepsCapacity,
     ControlKeepsCapacity DEF DispatcherNext
<1> QED
  BY <1>1, <1>2

\* The permit is part of the samples in every reachable state.
THEOREM CapacityInvariant == Spec => []CapacityInv
BY InitCapacity, NextKeepsCapacity, PTL DEF Spec

\* What get_capacity is for: whatever the producer, the consumer, the rollouts,
\* the clients and set_version do in between its test and its use, the samples
\* accepted or running are at most those of MaxStaleness + 1 more batches.
THEOREM SamplesAreBounded == Spec => []SampleBound
<1>1. CapacityInv => SampleBound
  <2> SUFFICES ASSUME CapacityInv
               PROVE  SampleBound
    OBVIOUS
  <2>1. PICK m \in Int : m = MaxSamples(version)
    BY MaxSamplesTyped DEF CapacityInv, CountersTyped
  <2>2. Samples \in Int /\ Permit \in 0..1 /\ Samples + Permit <= m
    BY <2>1 DEF CapacityInv, CountersTyped, StatType, Samples, Permit
  <2> QED
    BY <2>1, <2>2 DEF SampleBound
<1> QED
  BY <1>1, CapacityInvariant, PTL
-----------------------------------------------------------------------------
(* The type invariant, one lemma for each component's part of it.          *)

\* Taken from the queue's bound: what SubmitTask needs of its argument.
LEMMA RunnerTypes ==
    ASSUME RunnerTypeOK, RunnerNext \/ UNCHANGED runnerVars
    PROVE  RunnerTypeOK'
<1>1. CASE UNCHANGED runnerVars
  BY <1>1 DEF RunnerTypeOK, runnerVars
<1>2. CASE \E t \in Tasks : Submit(t)
  BY <1>2, MaxQueueSizeAssumption DEF RunnerTypeOK, Submit, InputFull
<1>3. CASE \E t \in Tasks : CoroutineReturns(t)
  BY <1>3 DEF RunnerTypeOK, CoroutineReturns
<1>4. CASE \E t \in Tasks : Publish(t)
  BY <1>4, MaxQueueSizeAssumption DEF RunnerTypeOK, Publish, OutputFull
<1>5. CASE \E flag \in BOOLEAN : SetPaused(flag)
  BY <1>5 DEF RunnerTypeOK, SetPaused
<1>6. CASE Take
  BY <1>6, MaxQueueSizeAssumption DEF RunnerTypeOK, Take
<1>7. CASE Admit \/ FoundEmpty
  BY <1>7 DEF RunnerTypeOK, Admit, FoundEmpty
<1>8. CASE Start
  <2>1. /\ input_queue \in Seq(Tasks) /\ input_queue # <<>>
        /\ Len(input_queue) <= MaxQueueSize /\ MaxQueueSize \in Nat
    BY <1>8, MaxQueueSizeAssumption DEF RunnerTypeOK, Start
  <2>2. /\ Head(input_queue) \in Tasks /\ Tail(input_queue) \in Seq(Tasks)
        /\ Len(Tail(input_queue)) <= MaxQueueSize
    BY <2>1
  <2>3. /\ input_queue' = Tail(input_queue)
        /\ running_tasks' = running_tasks \cup {Head(input_queue)}
        /\ admitting' = FALSE
        /\ UNCHANGED <<finished, output_queue, paused, runner_up>>
    BY <1>8 DEF Start
  <2> QED
    BY <2>2, <2>3 DEF RunnerTypeOK
<1>9. CASE RunnerStops
  BY <1>9 DEF RunnerTypeOK, RunnerStops
<1> QED
  BY <1>1, <1>2, <1>3, <1>4, <1>5, <1>6, <1>7, <1>8, <1>9 DEF RunnerNext

\* Every step of the dispatcher is one that the runner's interface allows.
LEMMA StepUsesRunner ==
    ASSUME CommitTypeOK, [DispatcherNext]_dispatcherVars
    PROVE  RunnerNext \/ UNCHANGED runnerVars
<1>1. CASE UNCHANGED dispatcherVars
  BY <1>1 DEF dispatcherVars
<1>2. CASE CommitStep
  <2>1. CASE CommitSubmit
    BY <2>1 DEF CommitSubmit, CommitTypeOK, Holding, RunnerNext
  <2>2. CASE ~CommitSubmit
    BY <1>2, <2>2 DEF CommitStep, CommitNext, CommitWaits, CommitAccount,
       CommitQueueFull, CommitRequeue, CommitRecheckFull, CommitExits,
       CommitFails
  <2> QED
    BY <2>1, <2>2
<1>3. CASE FetchStep
  BY <1>3 DEF FetchStep, FetchPoll, FetchGet, FetchTimeout, FetchStore,
     FetchNotify, FetchExits, FetchFails, RunnerNext
<1>4. CASE RunnerThread
  BY <1>4 DEF RunnerThread, RunnerAdmits, RunnerStarts, RunnerEnds,
     RunnerPublishes, RunnerNext
<1>5. CASE Rollouts
  BY <1>5 DEF Rollouts, RolloutAccepted, RolloutRejected, RunnerNext
<1>6. CASE \E c \in Clients : Calls(c) \/ ClientStep(c)
  BY <1>6 DEF Calls, ClientStep, SubmitTaskInput, WaitDrains, TaskArrives,
     ActivateTask, WaitSelects
<1>7. CASE Pause \/ ResumeRunner \/ ResumeNotify \/ SetVersion \/ Destroy
  BY <1>7 DEF Pause, ResumeRunner, ResumeNotify, SetVersion, Destroy, RunnerNext
<1> QED
  BY <1>1, <1>2, <1>3, <1>4, <1>5, <1>6, <1>7 DEF DispatcherNext

\* FiniteSetsExt!Max and Min of two numbers.
LEMMA MaxMinOfTwo ==
    ASSUME NEW a \in Int, NEW b \in Int
    PROVE  /\ Max({a, b}) \in {a, b} /\ Max({a, b}) >= a /\ Max({a, b}) >= b
           /\ Min({a, b}) \in {a, b} /\ Min({a, b}) <= a /\ Min({a, b}) <= b
<1>1. \E x \in {a, b} : \A y \in {a, b} : x >= y
  OBVIOUS
<1>2. \E x \in {a, b} : \A y \in {a, b} : x <= y
  OBVIOUS
<1> QED
  BY <1>1, <1>2 DEF Max, Min

\* The consumer asks for at least one result and at most a batch.
LEMMA FetchCountFits ==
    ASSUME NEW n \in Nat
    PROVE  Max({1, Min({n, MaxFetchBatch})}) \in 1..MaxFetchBatch
<1>1. MaxFetchBatch \in Nat \ {0}
  BY DispatcherAssumption
<1>2. PICK k \in Nat : k = Min({n, MaxFetchBatch}) /\ k <= MaxFetchBatch
  BY <1>1, MaxMinOfTwo
<1>3. Max({1, k}) \in {1, k} /\ Max({1, k}) >= 1
  BY MaxMinOfTwo
<1> QED
  BY <1>1, <1>2, <1>3

\* Identifiers are the numbers that TaskIdGenerator counts.
LEMMA TasksAreNaturals == Tasks \subseteq Nat
<1>1. Cardinality(Tasks) \in Nat
  BY DispatcherAssumption, FS_CardinalityType
<1> QED
  BY <1>1, DispatcherAssumption

LEMMA CommitTypes ==
    ASSUME TypeOK, [DispatcherNext]_dispatcherVars
    PROVE  CommitTypeOK'
<1> USE DEF CommitTypeOK, CommitPlaces, Holding
<1>1. CASE UNCHANGED commitVars
  BY <1>1 DEF TypeOK, commitVars
<1>2. CASE NotifyInput
  BY <1>2 DEF TypeOK, NotifyInput, Woken
<1>3. CASE CommitNext
  <2>1. Head(pending_inputs) \in Tasks
    BY <1>3 DEF CommitNext, MaySubmit, TypeOK, TaskTypeOK
  <2> QED
    BY <1>3, <2>1 DEF CommitNext
<1>4. CASE CommitStep /\ ~CommitNext
  BY <1>4 DEF TypeOK, CommitStep, CommitWaits, CommitSubmit, CommitAccount,
     CommitQueueFull, CommitRequeue, CommitRecheckFull, FullNext, CommitExits,
     CommitFails
<1>5. \/ UNCHANGED commitVars \/ NotifyInput \/ CommitStep
  <2>1. CASE UNCHANGED dispatcherVars
    BY <2>1 DEF dispatcherVars
  <2>2. CASE FetchStep
    BY <2>2 DEF FetchStep, FetchPoll, FetchGet, FetchTimeout, FetchStore,
       FetchNotify, FetchExits, FetchFails
  <2>3. CASE RunnerThread \/ Rollouts
    BY <2>3 DEF RunnerThread, RunnerAdmits, RunnerStarts, RunnerEnds,
       RunnerPublishes, Rollouts, RolloutAccepted, RolloutRejected, Idle
  <2>4. CASE \E c \in Clients : Calls(c) \/ ClientStep(c)
    BY <2>4 DEF Calls, ClientStep, SubmitTaskInput, WaitDrains, TaskArrives,
       ActivateTask, WaitSelects
  <2>5. CASE Pause \/ ResumeRunner \/ ResumeNotify \/ SetVersion \/ Destroy
    BY <2>5 DEF Pause, ResumeRunner, ResumeNotify, SetVersion, Destroy
  <2> QED
    BY <2>1, <2>2, <2>3, <2>4, <2>5 DEF DispatcherNext
<1> QED
  BY <1>1, <1>2, <1>3, <1>4, <1>5

LEMMA FetchTypes ==
    ASSUME TypeOK, [DispatcherNext]_dispatcherVars
    PROVE  FetchTypeOK'
<1>1. CASE UNCHANGED fetchVars
  BY <1>1 DEF TypeOK, FetchTypeOK, fetchVars
<1>2. CASE FetchPoll
  <2>1. Len(output_queue) \in Nat
    BY DEF TypeOK, RunnerTypeOK
  <2>2. fetch_count' \in 1..MaxFetchBatch
    BY <1>2, <2>1, FetchCountFits DEF FetchPoll
  <2>3. fetched' = <<>> /\ fetch' \in {"collect", "store"}
    BY <1>2 DEF FetchPoll, Collecting, TypeOK, FetchTypeOK
  <2> QED
    BY <2>2, <2>3, DispatcherAssumption DEF FetchTypeOK
<1>3. CASE FetchGet
  <2>1. Head(output_queue) \in Tasks
    BY <1>3 DEF FetchGet, Take, TypeOK, RunnerTypeOK
  <2> QED
    BY <1>3, <2>1 DEF FetchGet, Collecting, TypeOK, FetchTypeOK
<1>4. CASE FetchTimeout \/ FetchStore \/ FetchFails
  <2>1. /\ fetch' \in {"poll", "notify", "failed"}
        /\ fetch_count' = 0 /\ fetched' = <<>>
    BY <1>4 DEF FetchTimeout, FetchStore, FetchFails
  <2>2. 0 \in 0..MaxFetchBatch
    BY DispatcherAssumption
  <2>3. <<>> \in Seq(Tasks) /\ Len(<<>>) <= 0
    OBVIOUS
  <2> QED
    BY <2>1, <2>2, <2>3 DEF FetchTypeOK
<1>5. CASE FetchNotify \/ FetchExits
  BY <1>5 DEF FetchNotify, FetchExits, TypeOK, FetchTypeOK
<1>6. UNCHANGED fetchVars \/ FetchStep
  <2>1. CASE UNCHANGED dispatcherVars
    BY <2>1 DEF dispatcherVars
  <2>2. CASE CommitStep
    BY <2>2 DEF CommitStep, CommitNext, CommitWaits, CommitSubmit,
       CommitAccount, CommitQueueFull, CommitRequeue, CommitRecheckFull,
       CommitExits, CommitFails, receiveVars
  <2>3. CASE RunnerThread \/ Rollouts
    BY <2>3 DEF RunnerThread, RunnerAdmits, RunnerStarts, RunnerEnds,
       RunnerPublishes, Rollouts, RolloutAccepted, RolloutRejected, Idle
  <2>4. CASE \E c \in Clients : Calls(c) \/ ClientStep(c)
    BY <2>4 DEF Calls, ClientStep, SubmitTaskInput, WaitDrains, TaskArrives,
       ActivateTask, WaitSelects
  <2>5. CASE Pause \/ ResumeRunner \/ ResumeNotify \/ SetVersion \/ Destroy
    BY <2>5 DEF Pause, ResumeRunner, ResumeNotify, SetVersion, Destroy,
       receiveVars
  <2> QED
    BY <2>1, <2>2, <2>3, <2>4, <2>5 DEF DispatcherNext
<1> QED
  BY <1>1, <1>2, <1>3, <1>4, <1>5, <1>6 DEF FetchStep

LEMMA ClientTypes ==
    ASSUME TypeOK, [DispatcherNext]_dispatcherVars
    PROVE  ClientTypeOK'
<1>1. CASE UNCHANGED <<client, request>>
  BY <1>1 DEF TypeOK, ClientTypeOK
<1>2. CASE \E c \in Clients : Calls(c) \/ ClientStep(c)
  <2>1. PICK c \in Clients : Calls(c) \/ ClientStep(c)
    BY <1>2
  <2>2. Tasks \subseteq Nat
    BY TasksAreNaturals
  <2>3. CASE SubmitTaskInput(c)
    BY <2>2, <2>3 DEF SubmitTaskInput, ClientAt, TypeOK, ClientTypeOK
  <2>4. CASE \E count \in Tasks : WaitDrains(c, count)
    BY <2>2, <2>4 DEF WaitDrains, ClientAt, TypeOK, ClientTypeOK
  <2>5. CASE \E t \in Tasks : TaskArrives(c, t)
    BY <2>5 DEF TaskArrives, clientVars, TypeOK, ClientTypeOK, sendVars
  <2>6. CASE ActivateTask(c)
    BY <2>6 DEF ActivateTask, ClientAt, TypeOK, ClientTypeOK
  <2>7. CASE WaitSelects(c)
    BY <2>7 DEF WaitSelects, ClientAt, TypeOK, ClientTypeOK
  <2> QED
    BY <2>1, <2>3, <2>4, <2>5, <2>6, <2>7 DEF Calls, ClientStep
<1>3. \/ UNCHANGED <<client, request>>
      \/ \E c \in Clients : Calls(c) \/ ClientStep(c)
  <2>1. CASE UNCHANGED dispatcherVars
    BY <2>1 DEF dispatcherVars, clientVars
  <2>2. CASE CommitStep
    BY <2>2 DEF CommitStep, CommitNext, CommitWaits, CommitSubmit,
       CommitAccount, CommitQueueFull, CommitRequeue, CommitRecheckFull,
       CommitExits, CommitFails, clientVars, receiveVars
  <2>3. CASE FetchStep
    BY <2>3 DEF FetchStep, FetchPoll, FetchGet, FetchTimeout, FetchStore,
       FetchNotify, FetchExits, FetchFails, clientVars, sendVars, flowVars
  <2>4. CASE RunnerThread \/ Rollouts
    BY <2>4 DEF RunnerThread, RunnerAdmits, RunnerStarts, RunnerEnds,
       RunnerPublishes, Rollouts, RolloutAccepted, RolloutRejected, Idle,
       clientVars
  <2>5. CASE Pause \/ ResumeRunner \/ ResumeNotify \/ SetVersion \/ Destroy
    BY <2>5 DEF Pause, ResumeRunner, ResumeNotify, SetVersion, Destroy,
       clientVars, receiveVars
  <2> QED
    BY <2>1, <2>2, <2>3, <2>4, <2>5 DEF DispatcherNext
<1> QED
  BY <1>1, <1>2, <1>3

LEMMA TaskTypes ==
    ASSUME TypeOK, [DispatcherNext]_dispatcherVars
    PROVE  TaskTypeOK'
<1> DEFINE taskVars == <<issued, pending_inputs, drained, pending_results,
                         active_task_ids, create_order, verdict, delivered,
                         lost>>
<1>1. CASE UNCHANGED taskVars
  BY <1>1 DEF TypeOK, TaskTypeOK
<1>2. CASE CommitStep
  <2>1. CASE CommitNext
    BY <2>1 DEF CommitNext, MaySubmit, TypeOK, TaskTypeOK, resultVars,
       rolloutVars, clientVars, receiveVars
  <2>2. CASE CommitRequeue
    BY <2>2 DEF CommitRequeue, TypeOK, CommitTypeOK, Holding, TaskTypeOK,
       resultVars, rolloutVars, clientVars, receiveVars
  <2>3. CASE CommitStep /\ ~CommitNext /\ ~CommitRequeue
    <3>1. UNCHANGED taskVars
      BY <2>3 DEF CommitStep, CommitWaits, CommitSubmit, CommitAccount,
         CommitQueueFull, CommitRecheckFull, CommitExits, CommitFails,
         inputVars, resultVars, rolloutVars, clientVars, receiveVars
    <3> QED
      BY <1>1, <3>1
  <2> QED
    BY <1>2, <2>1, <2>2, <2>3
<1>3. CASE FetchStep
  <2>1. ToSet(fetched) \subseteq Tasks
    BY RangeTyped DEF TypeOK, FetchTypeOK
  <2>2. CASE FetchTimeout \/ FetchFails
    BY <2>1, <2>2 DEF FetchTimeout, FetchFails, TypeOK, TaskTypeOK, inputVars,
       rolloutVars, clientVars, sendVars
  <2>3. CASE FetchStore
    BY <2>1, <2>3 DEF FetchStore, TypeOK, TaskTypeOK, inputVars, rolloutVars,
       clientVars, sendVars
  <2>4. CASE FetchPoll \/ FetchGet \/ FetchNotify \/ FetchExits
    <3>1. UNCHANGED taskVars
      BY <2>4 DEF FetchPoll, FetchGet, FetchNotify, FetchExits, inputVars,
         resultVars, rolloutVars, clientVars, flowVars
    <3> QED
      BY <1>1, <3>1
  <2> QED
    BY <1>3, <2>2, <2>3, <2>4 DEF FetchStep
<1>4. CASE RunnerThread
  <2>1. CASE RunnerStarts
    <3>1. Head(input_queue) \in Tasks
      BY <2>1 DEF RunnerStarts, Start, TypeOK, RunnerTypeOK
    <3> QED
      BY <2>1, <3>1 DEF RunnerStarts, Idle, TypeOK, TaskTypeOK, inputVars,
         resultVars, clientVars
  <2>2. CASE RunnerEnds
    BY <2>2 DEF RunnerEnds, Idle, TypeOK, RunnerTypeOK, TaskTypeOK, inputVars,
       rolloutVars, clientVars
  <2>3. CASE RunnerAdmits \/ \E t \in Tasks : RunnerPublishes(t)
    <3>1. UNCHANGED taskVars
      BY <2>3 DEF RunnerAdmits, RunnerPublishes, Idle, inputVars, resultVars,
         rolloutVars, clientVars
    <3> QED
      BY <1>1, <3>1
  <2> QED
    BY <1>4, <2>1, <2>2, <2>3 DEF RunnerThread
<1>5. CASE Rollouts
  BY <1>5 DEF Rollouts, RolloutAccepted, RolloutRejected, Idle, TypeOK,
     TaskTypeOK, inputVars, resultVars, clientVars
<1>6. CASE \E c \in Clients : Calls(c) \/ ClientStep(c)
  <2>1. PICK c \in Clients : Calls(c) \/ ClientStep(c)
    BY <1>6
  <2>2. CASE SubmitTaskInput(c)
    BY <2>2 DEF SubmitTaskInput, TypeOK, TaskTypeOK, resultVars, rolloutVars
  <2>3. CASE \E count \in Tasks : WaitDrains(c, count)
    BY <2>3 DEF WaitDrains, TypeOK, TaskTypeOK, inputVars, rolloutVars
  <2>4. CASE \E t \in Tasks : TaskArrives(c, t)
    BY <2>4 DEF TaskArrives, TypeOK, TaskTypeOK, inputVars, rolloutVars,
       clientVars, sendVars
  <2>5. CASE ActivateTask(c)
    BY <2>5 DEF ActivateTask, ClientAt, TypeOK, ClientTypeOK, TaskTypeOK,
       inputVars, rolloutVars
  <2>6. CASE WaitSelects(c)
    <3>1. drained[c] \subseteq Tasks
      BY DEF TypeOK, TaskTypeOK
    <3>2. Oldest(drained[c], request[c]) \subseteq drained[c]
      BY DEF Oldest
    <3> QED
      BY <2>6, <3>1, <3>2 DEF WaitSelects, TypeOK, TaskTypeOK, inputVars,
         rolloutVars
  <2> QED
    BY <2>1, <2>2, <2>3, <2>4, <2>5, <2>6 DEF Calls, ClientStep
<1>7. CASE Pause \/ ResumeRunner \/ ResumeNotify \/ SetVersion \/ Destroy
  <2>1. UNCHANGED taskVars
    BY <1>7 DEF Pause, ResumeRunner, ResumeNotify, SetVersion, Destroy,
       inputVars, resultVars, rolloutVars, clientVars, receiveVars
  <2> QED
    BY <1>1, <2>1
<1>8. CASE UNCHANGED dispatcherVars
  <2>1. UNCHANGED taskVars
    BY <1>8 DEF dispatcherVars, inputVars, resultVars, rolloutVars, clientVars
  <2> QED
    BY <1>1, <2>1
<1> QED
  BY <1>2, <1>3, <1>4, <1>5, <1>6, <1>7, <1>8 DEF DispatcherNext

LEMMA ControlTypes ==
    ASSUME TypeOK, [DispatcherNext]_dispatcherVars
    PROVE  ControlTypeOK'
<1> USE DEF ControlTypeOK, controlVars
<1>1. CASE UNCHANGED dispatcherVars
  BY <1>1 DEF TypeOK, dispatcherVars
<1>2. CASE CommitStep
  BY <1>2 DEF TypeOK, CommitStep, CommitNext, CommitWaits, CommitSubmit,
     CommitAccount, CommitQueueFull, CommitRequeue, CommitRecheckFull,
     CommitExits, CommitFails
<1>3. CASE FetchStep
  BY <1>3 DEF TypeOK, FetchStep, FetchPoll, FetchGet, FetchTimeout, FetchStore,
     FetchNotify, FetchExits, FetchFails
<1>4. CASE RunnerThread \/ Rollouts
  BY <1>4 DEF TypeOK, RunnerThread, RunnerAdmits, RunnerStarts, RunnerEnds,
     RunnerPublishes, Rollouts, RolloutAccepted, RolloutRejected, Idle
<1>5. CASE \E c \in Clients : Calls(c) \/ ClientStep(c)
  BY <1>5 DEF TypeOK, Calls, ClientStep, SubmitTaskInput, WaitDrains,
     TaskArrives, ActivateTask, WaitSelects
<1>6. CASE Pause \/ ResumeRunner \/ ResumeNotify \/ SetVersion \/ Destroy
  BY <1>6 DEF TypeOK, Pause, ResumeRunner, ResumeNotify, SetVersion, Destroy
<1> QED
  BY <1>1, <1>2, <1>3, <1>4, <1>5, <1>6 DEF DispatcherNext

LEMMA CounterTypes ==
    ASSUME TypeOK, [DispatcherNext]_dispatcherVars
    PROVE  CounterTypeOK'
<1> USE DEF CounterTypeOK, statVars
<1>1. CASE UNCHANGED dispatcherVars
  BY <1>1 DEF TypeOK, dispatcherVars
<1>2. CASE CommitStep
  <2>1. CASE CommitAccount
    BY <2>1, MovedField DEF TypeOK, CommitAccount, OnRolloutSubmitted
  <2>2. CASE ~CommitAccount
    BY <1>2, <2>2 DEF TypeOK, CommitStep, CommitNext, CommitWaits, CommitSubmit,
       CommitQueueFull, CommitRequeue, CommitRecheckFull, CommitExits,
       CommitFails
  <2> QED
    BY <2>1, <2>2
<1>3. CASE FetchStep
  BY <1>3 DEF TypeOK, FetchStep, FetchPoll, FetchGet, FetchTimeout, FetchStore,
     FetchNotify, FetchExits, FetchFails
<1>4. CASE RunnerThread
  BY <1>4 DEF TypeOK, RunnerThread, RunnerAdmits, RunnerStarts, RunnerEnds,
     RunnerPublishes
<1>5. CASE Rollouts
  <2>1. version' = version /\ (OnRolloutAccepted \/ OnRolloutRejected)
    BY <1>5 DEF Rollouts, RolloutAccepted, RolloutRejected
  <2>2. CASE OnRolloutAccepted
    BY <2>1, <2>2, MovedField DEF TypeOK, OnRolloutAccepted
  <2>3. CASE OnRolloutRejected
    BY <2>1, <2>3, MovedField DEF TypeOK, OnRolloutRejected
  <2> QED
    BY <2>1, <2>2, <2>3
<1>6. CASE \E c \in Clients : Calls(c) \/ ClientStep(c)
  <2>1. PICK c \in Clients : Calls(c) \/ ClientStep(c)
    BY <1>6
  <2>2. CASE SubmitTaskInput(c)
    <3>1. rollout_stat \in StatType /\ version' = version
      BY <2>2 DEF TypeOK, SubmitTaskInput
    <3>2. rollout_stat' \in StatType
      BY <2>2, <3>1 DEF SubmitTaskInput, OnRolloutEnqueued, StatType
    <3> QED
      BY <3>1, <3>2 DEF TypeOK
  <2>3. CASE ~SubmitTaskInput(c)
    BY <2>1, <2>3 DEF TypeOK, Calls, ClientStep, WaitDrains, TaskArrives,
       ActivateTask, WaitSelects
  <2> QED
    BY <2>2, <2>3
<1>7. CASE SetVersion
  <2>1. /\ version' = version + 1 /\ version < MaxVersion
        /\ rollout_stat' = rollout_stat
    BY <1>7 DEF SetVersion
  <2> QED
    BY <2>1, StalenessAssumption, DispatcherAssumption DEF TypeOK
<1>8. CASE Pause \/ ResumeRunner \/ ResumeNotify \/ Destroy
  BY <1>8 DEF TypeOK, Pause, ResumeRunner, ResumeNotify, Destroy
<1> QED
  BY <1>1, <1>2, <1>3, <1>4, <1>5, <1>6, <1>7, <1>8 DEF DispatcherNext

LEMMA InitTypes == DispatcherInit => TypeOK
<1> SUFFICES ASSUME DispatcherInit
             PROVE  TypeOK
  OBVIOUS
<1>1. RunnerTypeOK
  <2>1. RunnerInit
    BY DEF DispatcherInit
  <2>2. input_queue \in Seq(Tasks) /\ Len(input_queue) <= MaxQueueSize
    BY <2>1, MaxQueueSizeAssumption DEF RunnerInit
  <2>3. output_queue \in Seq(Tasks) /\ Len(output_queue) <= MaxQueueSize
    BY <2>1, MaxQueueSizeAssumption DEF RunnerInit
  <2> QED
    BY <2>1, <2>2, <2>3 DEF RunnerInit, RunnerTypeOK
<1>2. CounterTypeOK
  <2>1. rollout_stat \in StatType
    BY InitCapacity DEF CapacityInv, CountersTyped
  <2>2. version = RecoveredVersion
    BY DEF DispatcherInit, StatInit
  <2>3. RecoveredVersion \in RecoveredVersion..MaxVersion
    BY StalenessAssumption, DispatcherAssumption
  <2> QED
    BY <2>1, <2>2, <2>3 DEF CounterTypeOK
<1>3. CommitTypeOK
  BY DEF DispatcherInit, CommitTypeOK, CommitPlaces, Holding
<1>4. FetchTypeOK
  BY DispatcherAssumption DEF DispatcherInit, FetchTypeOK
<1>5. ClientTypeOK
  BY DEF DispatcherInit, ClientTypeOK
<1>6. TaskTypeOK
  BY DEF DispatcherInit, TaskTypeOK
<1>7. ControlTypeOK
  BY DEF DispatcherInit, ControlTypeOK
<1> QED
  BY <1>1, <1>2, <1>3, <1>4, <1>5, <1>6, <1>7 DEF TypeOK

LEMMA NextTypes == TypeOK /\ [DispatcherNext]_dispatcherVars => TypeOK'
<1> SUFFICES ASSUME TypeOK, [DispatcherNext]_dispatcherVars
             PROVE  TypeOK'
  OBVIOUS
<1>1. RunnerTypeOK'
  BY StepUsesRunner, RunnerTypes DEF TypeOK
<1> QED
  BY <1>1, CounterTypes, CommitTypes, FetchTypes, ClientTypes, TaskTypes,
     ControlTypes DEF TypeOK

\* The queues keep their bounds, a thread is at a place of its program and
\* every variable holds what the code keeps in it.
THEOREM TypeInvariant == Spec => []TypeOK
BY InitTypes, NextTypes, PTL DEF Spec

\* The dispatcher uses the task runner as its interface allows: what holds of
\* RunnerSpec holds of the runner inside the dispatcher.
THEOREM DispatcherRunsRunner == Spec => RunnerSpec
<1>1. DispatcherInit => RunnerInit
  BY DEF DispatcherInit
<1>2. TypeOK /\ [DispatcherNext]_dispatcherVars => [RunnerNext]_runnerVars
  BY StepUsesRunner DEF TypeOK
<1> QED
  BY <1>1, <1>2, TypeInvariant, PTL DEF Spec, RunnerSpec

-----------------------------------------------------------------------------
(* What becomes of each task.                                              *)

\* The input that was taken from the queue and is not in the runner's yet.
PreSubmit == IF commit \in {"submit", "full"} THEN {committing} ELSE {}

NotStarted == ToSet(pending_inputs) \cup PreSubmit \cup ToSet(input_queue)

StartInv ==
    /\ IsInjective(pending_inputs) /\ IsInjective(input_queue)
    /\ ToSet(pending_inputs) \cap ToSet(input_queue) = {}
    /\ PreSubmit \cap ToSet(pending_inputs) = {}
    /\ PreSubmit \cap ToSet(input_queue) = {}
    /\ \A t \in NotStarted : verdict[t] = "none" /\ t \notin running_tasks
    /\ \A t \in running_tasks \ finished : verdict[t] = "none"
    /\ \A t \in NotStarted \cup running_tasks : t <= issued
    /\ \A t \in Tasks : t > issued => verdict[t] = "none"

Uncounted == IF commit = "account" THEN 1 ELSE 0

CountInv == Cardinality(Unended) <= rollout_stat.running + Uncounted

-----------------------------------------------------------------------------
(* A task that has not started, or not ended, has no verdict.              *)

\* What the producer, the runner and the clients do to tasks that are neither
\* issued, nor started, nor ended by the step.
LEMMA FewerTasks ==
    ASSUME StartInv,
           UNCHANGED <<pending_inputs, input_queue, verdict, issued>>,
           PreSubmit' \subseteq PreSubmit,
           running_tasks' \subseteq running_tasks,
           running_tasks' \ finished' \subseteq running_tasks \ finished
    PROVE  StartInv'
<1>1. NotStarted' \subseteq NotStarted
  BY DEF NotStarted
<1> QED
  BY <1>1 DEF StartInv

LEMMA WokenKeepsPreSubmit ==
    ASSUME NotifyInput
    PROVE  PreSubmit' = PreSubmit
BY DEF NotifyInput, Woken, PreSubmit

LEMMA InitStart == DispatcherInit => StartInv
BY DEF DispatcherInit, RunnerInit, StartInv, NotStarted, PreSubmit, ToSet,
   IsInjective

LEMMA CommitKeepsStart == TypeOK /\ StartInv /\ CommitStep => StartInv'
<1> SUFFICES ASSUME TypeOK, StartInv, CommitStep
             PROVE  StartInv'
  OBVIOUS
<1>1. CASE CommitNext
  <2> DEFINE t == Head(pending_inputs)
  <2>1. /\ pending_inputs \in Seq(Tasks) /\ pending_inputs # <<>>
        /\ pending_inputs' = Tail(pending_inputs)
        /\ PreSubmit = {} /\ PreSubmit' = {t}
        /\ UNCHANGED <<input_queue, running_tasks, finished, verdict, issued>>
    BY <1>1 DEF CommitNext, MaySubmit, PreSubmit, runnerVars, rolloutVars,
       TypeOK, TaskTypeOK, receiveVars
  <2>2. /\ ToSet(pending_inputs) = ToSet(pending_inputs') \cup {t}
        /\ IsInjective(pending_inputs') /\ t \notin ToSet(pending_inputs')
    BY <2>1, TailElements DEF StartInv
  <2>3. NotStarted' = NotStarted
    BY <2>1, <2>2 DEF NotStarted
  <2> HIDE DEF t
  <2> QED
    BY <2>1, <2>2, <2>3 DEF StartInv
<1>2. CASE CommitSubmit
  <2>1. /\ input_queue \in Seq(Tasks) /\ committing \in Tasks
        /\ input_queue' = Append(input_queue, committing)
        /\ PreSubmit = {committing} /\ PreSubmit' = {}
        /\ UNCHANGED <<pending_inputs, running_tasks, finished, verdict, issued>>
    BY <1>2 DEF CommitSubmit, Submit, PreSubmit, inputVars, rolloutVars, TypeOK,
       RunnerTypeOK, CommitTypeOK, Holding, receiveVars
  <2>2. /\ ToSet(input_queue') = ToSet(input_queue) \cup {committing}
        /\ IsInjective(input_queue')
    BY <2>1, AppendElements DEF StartInv
  <2>3. NotStarted' = NotStarted
    BY <2>1, <2>2 DEF NotStarted
  <2> QED
    BY <2>1, <2>2, <2>3 DEF StartInv
<1>3. CASE CommitRequeue
  <2>1. /\ pending_inputs \in Seq(Tasks) /\ committing \in Tasks
        /\ pending_inputs' = <<committing>> \o pending_inputs
        /\ PreSubmit = {committing} /\ PreSubmit' = {}
        /\ UNCHANGED <<input_queue, running_tasks, finished, verdict, issued>>
    BY <1>3 DEF CommitRequeue, FullNext, PreSubmit, runnerVars, rolloutVars,
       TypeOK, TaskTypeOK, CommitTypeOK, Holding, receiveVars
  <2>2. /\ ToSet(pending_inputs') = ToSet(pending_inputs) \cup {committing}
        /\ IsInjective(pending_inputs')
    BY <2>1, ConsElements DEF StartInv
  <2>3. NotStarted' = NotStarted
    BY <2>1, <2>2 DEF NotStarted
  <2> QED
    BY <2>1, <2>2, <2>3 DEF StartInv
<1>4. CASE \/ CommitWaits \/ CommitAccount \/ CommitQueueFull
           \/ CommitRecheckFull \/ CommitExits \/ CommitFails
  <2>1. /\ UNCHANGED <<pending_inputs, input_queue, verdict, issued,
                       running_tasks, finished>>
        /\ PreSubmit' \subseteq PreSubmit
    BY <1>4 DEF CommitWaits, CommitAccount, CommitQueueFull, CommitRecheckFull,
       FullNext, CommitExits, CommitFails, PreSubmit, runnerVars, inputVars,
       rolloutVars, receiveVars
  <2> QED
    BY <2>1, FewerTasks
<1> QED
  BY <1>1, <1>2, <1>3, <1>4 DEF CommitStep

LEMMA RunnerKeepsStart == TypeOK /\ StartInv /\ RunnerThread => StartInv'
<1> SUFFICES ASSUME TypeOK, StartInv, RunnerThread
             PROVE  StartInv'
  OBVIOUS
<1>1. PreSubmit' = PreSubmit /\ UNCHANGED <<pending_inputs, issued, verdict>>
  BY DEF RunnerThread, RunnerAdmits, RunnerStarts, RunnerEnds, RunnerPublishes,
     Idle, PreSubmit, commitVars, inputVars, rolloutVars
<1>2. CASE RunnerStarts
  <2> DEFINE t == Head(input_queue)
  <2>1. /\ input_queue \in Seq(Tasks) /\ input_queue # <<>>
        /\ input_queue' = Tail(input_queue)
        /\ running_tasks' = running_tasks \cup {t} /\ finished' = finished
    BY <1>2 DEF RunnerStarts, Start, TypeOK, RunnerTypeOK
  <2>2. /\ ToSet(input_queue) = ToSet(input_queue') \cup {t}
        /\ IsInjective(input_queue') /\ t \notin ToSet(input_queue')
    BY <2>1, TailElements DEF StartInv
  <2> HIDE DEF t
  <2>3. /\ t \in NotStarted /\ t \notin ToSet(pending_inputs)
        /\ t \notin PreSubmit
    BY <2>2 DEF NotStarted, StartInv
  <2>4. NotStarted' = NotStarted \ {t}
    BY <1>1, <2>1, <2>2, <2>3 DEF NotStarted
  <2> QED
    BY <1>1, <2>1, <2>2, <2>3, <2>4 DEF StartInv
<1>3. CASE RunnerAdmits \/ RunnerEnds \/ \E t \in Tasks : RunnerPublishes(t)
  <2>1. /\ input_queue' = input_queue
        /\ running_tasks' \subseteq running_tasks
        /\ running_tasks' \ finished' \subseteq running_tasks \ finished
    BY <1>3 DEF RunnerAdmits, Admit, FoundEmpty, RunnerEnds, RunnerStops,
       RunnerPublishes, Publish
  <2> QED
    BY <1>1, <2>1, FewerTasks
<1> QED
  BY <1>2, <1>3 DEF RunnerThread

LEMMA RolloutsKeepStart == TypeOK /\ StartInv /\ Rollouts => StartInv'
<1> SUFFICES ASSUME TypeOK, StartInv, NEW t \in Tasks,
                    RolloutAccepted(t) \/ RolloutRejected(t)
             PROVE  StartInv'
  BY DEF Rollouts
<1>1. /\ t \in running_tasks \ finished
      /\ finished' = finished \cup {t}
      /\ PreSubmit' = PreSubmit
      /\ UNCHANGED <<pending_inputs, issued, input_queue, running_tasks>>
      /\ \A u \in Tasks \ {t} : verdict'[u] = verdict[u]
  BY DEF RolloutAccepted, RolloutRejected, CoroutineReturns, Idle, PreSubmit,
     commitVars, inputVars, TypeOK, TaskTypeOK
<1>2. NotStarted' = NotStarted /\ t \notin NotStarted /\ t <= issued
  BY <1>1 DEF NotStarted, StartInv
<1>3. NotStarted \subseteq Tasks /\ running_tasks \subseteq Tasks
  BY RangeTyped DEF NotStarted, PreSubmit, TypeOK, TaskTypeOK, RunnerTypeOK,
     CommitTypeOK, Holding
<1>4. \A u \in NotStarted' : verdict'[u] = "none" /\ u \notin running_tasks'
  BY <1>1, <1>2, <1>3 DEF StartInv
<1>5. \A u \in running_tasks' \ finished' : verdict'[u] = "none"
  BY <1>1, <1>3 DEF StartInv
<1>6. \A u \in Tasks : u > issued' => verdict'[u] = "none"
  <2> SUFFICES ASSUME NEW u \in Tasks, u > issued
               PROVE  verdict'[u] = "none"
    BY <1>1
  <2>1. u # t
    BY <1>2, TasksAreNaturals DEF TypeOK, TaskTypeOK
  <2> QED
    BY <1>1, <2>1 DEF StartInv
<1> QED
  BY <1>1, <1>2, <1>4, <1>5, <1>6 DEF StartInv

LEMMA SubmitKeepsStart ==
    ASSUME TypeOK, StartInv, NEW c \in Clients, SubmitTaskInput(c)
    PROVE  StartInv'
<1> DEFINE t == issued + 1
<1>1. /\ t \in Tasks /\ issued' = t /\ issued \in Nat
      /\ pending_inputs \in Seq(Tasks)
      /\ pending_inputs' = Append(pending_inputs, t)
      /\ NotifyInput
      /\ UNCHANGED <<input_queue, running_tasks, finished, verdict>>
  BY DEF SubmitTaskInput, runnerVars, rolloutVars, TypeOK, TaskTypeOK
<1>2. PreSubmit' = PreSubmit
  BY <1>1, WokenKeepsPreSubmit
<1>3. NotStarted \subseteq Nat /\ running_tasks \subseteq Nat
  BY RangeTyped, TasksAreNaturals DEF NotStarted, PreSubmit, TypeOK, TaskTypeOK,
     RunnerTypeOK, CommitTypeOK, Holding
<1>4. t \notin NotStarted /\ t \notin running_tasks /\ verdict[t] = "none"
  BY <1>1, <1>3 DEF StartInv
<1>5. /\ ToSet(pending_inputs') = ToSet(pending_inputs) \cup {t}
      /\ IsInjective(pending_inputs')
  BY <1>1, <1>4, AppendElements DEF StartInv, NotStarted
<1>6. NotStarted' = NotStarted \cup {t}
  BY <1>1, <1>2, <1>5 DEF NotStarted
<1>7. /\ ToSet(pending_inputs') \cap ToSet(input_queue') = {}
      /\ PreSubmit' \cap ToSet(pending_inputs') = {}
      /\ PreSubmit' \cap ToSet(input_queue') = {}
  BY <1>1, <1>2, <1>4, <1>5 DEF StartInv, NotStarted
<1>8. \A u \in NotStarted' \cup running_tasks' : u <= issued'
  <2> SUFFICES ASSUME NEW u \in NotStarted \cup running_tasks
               PROVE  u <= t
    BY <1>1, <1>6
  <2>1. u <= issued /\ u \in Nat
    BY <1>3 DEF StartInv
  <2> QED
    BY <1>1, <2>1
<1>9. \A u \in Tasks : u > issued' => verdict'[u] = "none"
  <2> SUFFICES ASSUME NEW u \in Tasks, u > t
               PROVE  verdict[u] = "none"
    BY <1>1
  <2>1. u > issued
    BY <1>1, TasksAreNaturals
  <2> QED
    BY <2>1 DEF StartInv
<1> HIDE DEF t
<1> QED
  BY <1>1, <1>4, <1>5, <1>6, <1>7, <1>8, <1>9 DEF StartInv

LEMMA NextKeepsStart ==
    TypeOK /\ StartInv /\ [DispatcherNext]_dispatcherVars => StartInv'
<1> SUFFICES ASSUME TypeOK, StartInv, [DispatcherNext]_dispatcherVars
             PROVE  StartInv'
  OBVIOUS
<1> DEFINE Same == UNCHANGED <<pending_inputs, input_queue, verdict, issued,
                               running_tasks, finished>>
<1>1. CASE UNCHANGED dispatcherVars
  <2>1. Same /\ PreSubmit' = PreSubmit
    BY <1>1 DEF dispatcherVars, runnerVars, inputVars, rolloutVars, commitVars,
       PreSubmit
  <2> QED
    BY <2>1, FewerTasks
<1>2. CASE FetchStep
  <2>1. Same /\ (NotifyInput \/ UNCHANGED commitVars)
    BY <1>2 DEF FetchStep, FetchPoll, FetchGet, Take, FetchTimeout, FetchStore,
       FetchNotify, FetchExits, FetchFails, runnerVars, inputVars, rolloutVars,
       sendVars, flowVars
  <2>2. PreSubmit' = PreSubmit
    BY <2>1, WokenKeepsPreSubmit DEF commitVars, PreSubmit
  <2> QED
    BY <2>1, <2>2, FewerTasks
<1>3. CASE \E c \in Clients : Calls(c) \/ ClientStep(c)
  <2>1. PICK c \in Clients : Calls(c) \/ ClientStep(c)
    BY <1>3
  <2>2. CASE ~SubmitTaskInput(c)
    <3>1. Same /\ UNCHANGED commitVars
      BY <2>1, <2>2 DEF Calls, ClientStep, WaitDrains, TaskArrives,
         ActivateTask, WaitSelects, runnerVars, inputVars, rolloutVars, sendVars
    <3>2. PreSubmit' = PreSubmit
      BY <3>1 DEF commitVars, PreSubmit
    <3> QED
      BY <3>1, <3>2, FewerTasks
  <2> QED
    BY <2>2, SubmitKeepsStart
<1>4. CASE Pause \/ ResumeRunner \/ ResumeNotify \/ SetVersion \/ Destroy
  <2>1. Same /\ (NotifyInput \/ UNCHANGED commitVars)
    BY <1>4 DEF Pause, ResumeRunner, ResumeNotify, SetVersion, Destroy,
       SetPaused, runnerVars, inputVars, rolloutVars, receiveVars
  <2>2. PreSubmit' = PreSubmit
    BY <2>1, WokenKeepsPreSubmit DEF commitVars, PreSubmit
  <2> QED
    BY <2>1, <2>2, FewerTasks
<1> QED
  BY <1>1, <1>2, <1>3, <1>4, CommitKeepsStart, RunnerKeepsStart,
     RolloutsKeepStart DEF DispatcherNext

-----------------------------------------------------------------------------
(* The counter and the rollouts.                                           *)

LEMMA UnendedFinite ==
    ASSUME TypeOK
    PROVE  IsFiniteSet(Unended) /\ Cardinality(Unended) \in Nat
<1>1. Unended \subseteq Tasks
  BY RangeTyped DEF Unended, InFlight, TypeOK, RunnerTypeOK
<1>2. IsFiniteSet(Unended)
  BY <1>1, DispatcherAssumption, FS_Subset
<1> QED
  BY <1>2, FS_CardinalityType

\* A step that starts no rollout and leaves the counter alone.
LEMMA NoMoreUnended ==
    ASSUME TypeOK, CountInv, Unended' \subseteq Unended,
           rollout_stat'.running + Uncounted' = rollout_stat.running + Uncounted
    PROVE  CountInv'
<1>1. /\ Cardinality(Unended') <= Cardinality(Unended)
      /\ Cardinality(Unended') \in Nat /\ Cardinality(Unended) \in Nat
  <2>1. IsFiniteSet(Unended) /\ IsFiniteSet(Unended')
    BY UnendedFinite, FS_Subset
  <2> QED
    BY <2>1, FS_Subset, FS_CardinalityType
<1>2. rollout_stat.running + Uncounted \in Int
  BY DEF TypeOK, CounterTypeOK, StatType, Uncounted
<1>3. Cardinality(Unended') <= rollout_stat.running + Uncounted
  BY <1>1, <1>2 DEF CountInv
<1> QED
  BY <1>3 DEF CountInv

\* runner.submit adds one rollout, and on_rollout_submitted is due.
LEMMA SubmitIsUncounted ==
    ASSUME TypeOK, StartInv, CountInv, CommitSubmit
    PROVE  CountInv'
<1>1. /\ input_queue' = Append(input_queue, committing)
      /\ input_queue \in Seq(Tasks) /\ committing \in Tasks
      /\ UNCHANGED <<verdict, running_tasks, rollout_stat>>
      /\ Uncounted = 0 /\ Uncounted' = 1
  BY DEF CommitSubmit, Submit, Uncounted, statVars, rolloutVars, TypeOK,
     RunnerTypeOK, CommitTypeOK, Holding, receiveVars
<1>2. ToSet(input_queue') = ToSet(input_queue) \cup {committing}
  BY <1>1, AppendElements
<1>3. Unended' \subseteq Unended \cup {committing}
  BY <1>1, <1>2 DEF Unended, InFlight
<1>4. /\ IsFiniteSet(Unended) /\ Cardinality(Unended) \in Nat
      /\ IsFiniteSet(Unended \cup {committing})
      /\ Cardinality(Unended \cup {committing}) <= Cardinality(Unended) + 1
  BY UnendedFinite, FS_AddElement
<1>5. /\ Cardinality(Unended') <= Cardinality(Unended \cup {committing})
      /\ Cardinality(Unended') \in Nat
      /\ Cardinality(Unended \cup {committing}) \in Nat
  BY <1>3, <1>4, FS_Subset, FS_CardinalityType
<1>6. rollout_stat.running \in Int
  BY DEF TypeOK, CounterTypeOK, StatType
<1>7. Cardinality(Unended) <= rollout_stat.running
  BY <1>1, <1>4, <1>6 DEF CountInv
<1>8. Cardinality(Unended') <= rollout_stat.running + 1
  BY <1>4, <1>5, <1>6, <1>7
<1> QED
  BY <1>1, <1>8 DEF CountInv

\* A rollout that ends was counted among those that had not.
LEMMA RolloutEndIsCounted ==
    ASSUME TypeOK, StartInv, CountInv, NEW t \in Tasks,
           RolloutAccepted(t) \/ RolloutRejected(t)
    PROVE  CountInv'
<1>1. /\ t \in running_tasks \ finished /\ verdict'[t] # "none"
      /\ \A u \in Tasks \ {t} : verdict'[u] = verdict[u]
      /\ UNCHANGED <<input_queue, running_tasks, commit>>
  BY DEF RolloutAccepted, RolloutRejected, CoroutineReturns, Idle, commitVars,
     TypeOK, TaskTypeOK
<1>2. rollout_stat'.running = rollout_stat.running - 1
  BY MovedField DEF RolloutAccepted, RolloutRejected, OnRolloutAccepted,
     OnRolloutRejected, TypeOK, CounterTypeOK
<1>3. t \in Unended
  BY <1>1 DEF StartInv, Unended, InFlight
<1>4. InFlight' = InFlight /\ InFlight \subseteq Tasks
  BY <1>1, RangeTyped DEF InFlight, TypeOK, RunnerTypeOK
<1>5. Unended' \subseteq Unended \ {t}
  BY <1>1, <1>4 DEF Unended
<1>6. /\ IsFiniteSet(Unended \ {t}) /\ Cardinality(Unended) \in Nat
      /\ Cardinality(Unended \ {t}) = Cardinality(Unended) - 1
  BY <1>3, UnendedFinite, FS_RemoveElement
<1>7. Cardinality(Unended') <= Cardinality(Unended) - 1
      /\ Cardinality(Unended') \in Nat
  BY <1>5, <1>6, FS_Subset, FS_CardinalityType
<1>8. rollout_stat.running \in Int /\ Uncounted \in Int /\ Uncounted' = Uncounted
  BY <1>1 DEF TypeOK, CounterTypeOK, StatType, Uncounted
<1>9. Cardinality(Unended) <= rollout_stat.running + Uncounted
  BY DEF CountInv
<1>10. Cardinality(Unended') <= rollout_stat.running - 1 + Uncounted
  BY <1>6, <1>7, <1>8, <1>9
<1> QED
  BY <1>2, <1>8, <1>10 DEF CountInv

LEMMA NextKeepsCount ==
    TypeOK /\ StartInv /\ CountInv /\ [DispatcherNext]_dispatcherVars
        => CountInv'
<1> SUFFICES ASSUME TypeOK, StartInv, CountInv,
                    [DispatcherNext]_dispatcherVars
             PROVE  CountInv'
  OBVIOUS
<1> DEFINE SameTasks == UNCHANGED <<input_queue, running_tasks, verdict>>
           SameCount == rollout_stat'.running + Uncounted'
                           = rollout_stat.running + Uncounted
<1>1. ASSUME SameTasks
      PROVE  Unended' = Unended
  BY <1>1 DEF Unended, InFlight
<1>2. ASSUME rollout_stat'.running = rollout_stat.running,
             NotifyInput \/ commit' = commit
      PROVE  SameCount
  BY <1>2 DEF NotifyInput, Woken, Uncounted
<1>3. CASE UNCHANGED dispatcherVars
  <2>1. SameTasks /\ commit' = commit /\ rollout_stat' = rollout_stat
    BY <1>3 DEF dispatcherVars, runnerVars, rolloutVars, commitVars, statVars
  <2> QED
    BY <1>1, <1>2, <2>1, NoMoreUnended
<1>4. CASE CommitStep /\ ~CommitSubmit
  <2>1. SameTasks
    BY <1>4 DEF CommitStep, CommitNext, CommitWaits, CommitAccount,
       CommitQueueFull, CommitRequeue, CommitRecheckFull, CommitExits,
       CommitFails, runnerVars, rolloutVars, receiveVars
  <2>2. CASE CommitAccount
    <3>1. rollout_stat'.running = rollout_stat.running + 1
      BY <2>2, MovedField DEF CommitAccount, OnRolloutSubmitted, TypeOK,
         CounterTypeOK
    <3>2. Uncounted = 1 /\ Uncounted' = 0 /\ rollout_stat.running \in Int
      BY <2>2 DEF CommitAccount, Uncounted, TypeOK, CounterTypeOK, StatType
    <3> QED
      BY <1>1, <2>1, <3>1, <3>2, NoMoreUnended
  <2>3. CASE ~CommitAccount
    <3>1. rollout_stat' = rollout_stat /\ Uncounted' = Uncounted
      BY <1>4, <2>3 DEF CommitStep, CommitNext, CommitWaits, CommitQueueFull,
         CommitRequeue, CommitRecheckFull, FullNext, CommitExits, CommitFails,
         statVars, Uncounted
    <3> QED
      BY <1>1, <2>1, <3>1, NoMoreUnended
  <2> QED
    BY <2>2, <2>3
<1>5. CASE FetchStep
  <2>1. /\ SameTasks /\ rollout_stat' = rollout_stat
        /\ NotifyInput \/ commit' = commit
    BY <1>5 DEF FetchStep, FetchPoll, FetchGet, Take, FetchTimeout, FetchStore,
       FetchNotify, FetchExits, FetchFails, runnerVars, rolloutVars, statVars,
       commitVars, sendVars, flowVars
  <2> QED
    BY <1>1, <1>2, <2>1, NoMoreUnended
<1>6. CASE RunnerThread
  <2>1. /\ rollout_stat' = rollout_stat /\ verdict' = verdict
        /\ commit' = commit
    BY <1>6 DEF RunnerThread, RunnerAdmits, RunnerStarts, RunnerEnds,
       RunnerPublishes, Idle, rolloutVars, statVars, commitVars
  <2>2. InFlight' \subseteq InFlight
    <3>1. CASE RunnerStarts
      <4>1. /\ input_queue \in Seq(Tasks) /\ input_queue # <<>>
            /\ input_queue' = Tail(input_queue)
            /\ running_tasks' = running_tasks \cup {Head(input_queue)}
        BY <3>1 DEF RunnerStarts, Start, TypeOK, RunnerTypeOK
      <4>2. ToSet(input_queue) = ToSet(input_queue') \cup {Head(input_queue)}
        BY <4>1, TailElements
      <4> QED
        BY <4>1, <4>2 DEF InFlight
    <3>2. CASE ~RunnerStarts
      BY <1>6, <3>2 DEF RunnerThread, RunnerAdmits, Admit, FoundEmpty,
         RunnerEnds, RunnerStops, RunnerPublishes, Publish, InFlight
    <3> QED
      BY <3>1, <3>2
  <2>3. Unended' \subseteq Unended
    BY <2>1, <2>2 DEF Unended
  <2> QED
    BY <1>2, <2>1, <2>3, NoMoreUnended
<1>7. CASE \E c \in Clients : Calls(c) \/ ClientStep(c)
  <2>1. PICK c \in Clients : Calls(c) \/ ClientStep(c)
    BY <1>7
  <2>2. SameTasks
    BY <2>1 DEF Calls, ClientStep, SubmitTaskInput, WaitDrains, TaskArrives,
       ActivateTask, WaitSelects, runnerVars, rolloutVars, sendVars
  <2>3. CASE SubmitTaskInput(c)
    <3>1. NotifyInput /\ rollout_stat'.running = rollout_stat.running
      BY <2>3 DEF SubmitTaskInput, OnRolloutEnqueued, TypeOK, CounterTypeOK,
         StatType
    <3> QED
      BY <1>1, <1>2, <2>2, <3>1, NoMoreUnended
  <2>4. CASE ~SubmitTaskInput(c)
    <3>1. commit' = commit /\ rollout_stat' = rollout_stat
      BY <2>1, <2>4 DEF Calls, ClientStep, WaitDrains, TaskArrives,
         ActivateTask, WaitSelects, statVars, commitVars
    <3> QED
      BY <1>1, <1>2, <2>2, <3>1, NoMoreUnended
  <2> QED
    BY <2>3, <2>4
<1>8. CASE Pause \/ ResumeRunner \/ ResumeNotify \/ SetVersion \/ Destroy
  <2>1. /\ SameTasks /\ rollout_stat' = rollout_stat
        /\ NotifyInput \/ commit' = commit
    BY <1>8 DEF Pause, ResumeRunner, ResumeNotify, SetVersion, Destroy,
       SetPaused, runnerVars, rolloutVars, statVars, commitVars, receiveVars
  <2> QED
    BY <1>1, <1>2, <2>1, NoMoreUnended
<1> QED
  BY <1>3, <1>4, <1>5, <1>6, <1>7, <1>8, SubmitIsUncounted,
     RolloutEndIsCounted DEF DispatcherNext, Rollouts

LEMMA InitCount == DispatcherInit => CountInv
<1> SUFFICES ASSUME DispatcherInit
             PROVE  CountInv
  OBVIOUS
<1>1. Unended = {}
  BY DEF DispatcherInit, RunnerInit, Unended, InFlight, ToSet
<1>2. rollout_stat.running = 0 /\ Uncounted = 0
  BY DEF DispatcherInit, StatInit, Uncounted
<1> QED
  BY <1>1, <1>2, FS_EmptySet DEF CountInv

\* "The number of concurrent rollouts doesn't exceed the configured maximum":
\* at most max_concurrent_rollouts rollouts are in the runner and have not
\* ended, although the producer submits each before it counts it.
THEOREM RolloutsAreBounded == Spec => []ConcurrencyBound
<1> DEFINE Inv == TypeOK /\ StartInv /\ CountInv
<1>1. DispatcherInit => Inv
  BY InitTypes, InitStart, InitCount
<1>2. Inv /\ [DispatcherNext]_dispatcherVars => Inv'
  BY NextTypes, NextKeepsStart, NextKeepsCount
<1>3. Inv /\ CapacityInv => ConcurrencyBound
  <2> SUFFICES ASSUME Inv, CapacityInv
               PROVE  ConcurrencyBound
    OBVIOUS
  <2>1. /\ Cardinality(Unended) \in Nat /\ rollout_stat.running \in Int
        /\ Uncounted \in Int /\ Permit \in Int /\ Uncounted <= Permit
    BY UnendedFinite DEF TypeOK, CounterTypeOK, StatType, Uncounted, Permit
  <2>2. PICK c \in Nat : c = ConcurrencyLimit
    BY LimitsTyped
  <2>3. /\ Cardinality(Unended) <= rollout_stat.running + Uncounted
        /\ rollout_stat.running + Permit <= c
    BY <2>2 DEF CountInv, CapacityInv
  <2>4. Cardinality(Unended) <= c
    BY <2>1, <2>2, <2>3
  <2> QED
    BY <2>2, <2>4 DEF ConcurrencyBound
<1> HIDE DEF Inv
<1> QED
  BY <1>1, <1>2, <1>3, CapacityInvariant, PTL DEF Spec

-----------------------------------------------------------------------------
(* Every task is in one place.                                             *)

\* The input the producer holds, also after it failed with it.
Held == IF commit = "account" THEN {} ELSE {committing} \ {0}

\* The places a task can be in, as Places has them.
Place(i) ==
    CASE i = 1 -> ToSet(pending_inputs)
      [] i = 2 -> Held
      [] i = 3 -> InFlight
      [] i = 4 -> ToSet(output_queue)
      [] i = 5 -> ToSet(fetched)
      [] i = 6 -> pending_results
      [] i = 7 -> UNION {drained[c] : c \in Clients}
      [] i = 8 -> delivered
      [] i = 9 -> lost

\* A task that has been issued is in one place, the others in none.
PlaceInv ==
    \A t \in Tasks :
        IF t <= issued
        THEN \E i \in 1..9 : t \in Place(i) /\ \A j \in 1..9 \ {i} : t \notin Place(j)
        ELSE \A j \in 1..9 : t \notin Place(j)

\* Where the producer holds no input.
Empty == {"next", "waiting", "waiting_full", "recheck_full", "exited"}

\* What keeps the places apart.
SeparateInv ==
    /\ IsInjective(output_queue) /\ IsInjective(fetched)
    /\ \A c, d \in Clients : c # d => drained[c] \cap drained[d] = {}
    /\ \A c \in Clients : client[c] # "select" => drained[c] = {}
    /\ commit \in Empty => committing = 0

\* No task is the producer's 0.
LEMMA TasksArePositive == \A t \in Tasks : t \in Nat /\ t > 0
<1>1. Cardinality(Tasks) \in Nat
  BY DispatcherAssumption, FS_CardinalityType
<1> QED
  BY <1>1, DispatcherAssumption

\* Tasks that leave one place for two others, each for one of them.
LEMMA MoveApart ==
    ASSUME PlaceInv, issued' = issued,
           NEW a \in 1..9, NEW b \in 1..9, NEW d \in 1..9, a # b, a # d, b # d,
           Place(a)' \subseteq Place(a),
           Place(b) \subseteq Place(b)', Place(b)' \ Place(b) \subseteq Place(a) \ Place(a)',
           Place(d) \subseteq Place(d)', Place(d)' \ Place(d) \subseteq Place(a) \ Place(a)',
           (Place(b)' \ Place(b)) \cap (Place(d)' \ Place(d)) = {},
           Place(a) \ Place(a)' \subseteq Place(b)' \cup Place(d)',
           \A j \in 1..9 \ {a, b, d} : Place(j)' = Place(j)
    PROVE  PlaceInv'
<1> SUFFICES ASSUME NEW t \in Tasks
             PROVE  (IF t <= issued
                     THEN \E i \in 1..9 : t \in Place(i) /\ \A j \in 1..9 \ {i} : t \notin Place(j)
                     ELSE \A j \in 1..9 : t \notin Place(j))'
  BY DEF PlaceInv
<1>1. CASE t <= issued
  <2>1. PICK i \in 1..9 : t \in Place(i) /\ \A j \in 1..9 \ {i} : t \notin Place(j)
    BY <1>1 DEF PlaceInv
  <2>2. CASE \A j \in 1..9 : t \in Place(j)' <=> t \in Place(j)
    BY <1>1, <2>1, <2>2
  <2>3. CASE i = a /\ t \notin Place(a)'
    <3>1. CASE t \in Place(b)'
      <4>1. \A j \in 1..9 \ {b} : t \notin Place(j)'
        BY <2>1, <2>3, <3>1
      <4> QED
        BY <1>1, <3>1, <4>1
    <3>2. CASE t \in Place(d)'
      <4>1. \A j \in 1..9 \ {d} : t \notin Place(j)'
        BY <2>1, <2>3, <3>2
      <4> QED
        BY <1>1, <3>2, <4>1
    <3> QED
      BY <2>1, <2>3, <3>1, <3>2
  <2>4. CASE i # a \/ t \in Place(a)'
    <3>1. \A j \in 1..9 : t \in Place(j)' <=> t \in Place(j)
      BY <2>1, <2>4
    <3> QED
      BY <2>2, <3>1
  <2> QED
    BY <2>3, <2>4
<1>2. CASE ~(t <= issued)
  <2>1. \A j \in 1..9 : t \notin Place(j)
    BY <1>2 DEF PlaceInv
  <2>2. \A j \in 1..9 : t \notin Place(j)'
    BY <2>1
  <2> QED
    BY <1>2, <2>2
<1> QED
  BY <1>1, <1>2

\* Tasks that leave one place for another one.
LEMMA MoveTo ==
    ASSUME PlaceInv, issued' = issued, NEW a \in 1..9, NEW b \in 1..9, a # b,
           Place(a)' \subseteq Place(a),
           Place(b)' = Place(b) \cup (Place(a) \ Place(a)'),
           \A j \in 1..9 : j # a /\ j # b => Place(j)' = Place(j)
    PROVE  PlaceInv'
<1>1. PICK d \in 1..9 : d # a /\ d # b
  OBVIOUS
<1>2. /\ Place(b) \subseteq Place(b)' /\ Place(b)' \ Place(b) \subseteq Place(a) \ Place(a)'
      /\ Place(d)' = Place(d) /\ Place(d) \subseteq Place(d)'
      /\ Place(d)' \ Place(d) \subseteq Place(a) \ Place(a)'
      /\ (Place(b)' \ Place(b)) \cap (Place(d)' \ Place(d)) = {}
      /\ Place(a) \ Place(a)' \subseteq Place(b)' \cup Place(d)'
      /\ \A j \in 1..9 \ {a, b, d} : Place(j)' = Place(j)
  BY <1>1
<1> QED
  BY <1>1, <1>2, MoveApart

\* Where a task is, it is nowhere else.
LEMMA Elsewhere ==
    ASSUME PlaceInv, NEW i \in 1..9, NEW j \in 1..9, i # j
    PROVE  Tasks \cap Place(i) \cap Place(j) = {}
BY DEF PlaceInv

\* A step that moves nothing.
LEMMA StayPut ==
    ASSUME PlaceInv, issued' = issued, \A j \in 1..9 : Place(j)' = Place(j)
    PROVE  PlaceInv'
BY DEF PlaceInv

\* At first nothing has been issued and every place is empty.
LEMMA InitPlace == DispatcherInit => PlaceInv /\ SeparateInv
<1> SUFFICES ASSUME DispatcherInit PROVE PlaceInv /\ SeparateInv
  OBVIOUS
<1>1. \A j \in 1..9 : Place(j) = {}
  BY DEF DispatcherInit, RunnerInit, Place, Held, InFlight, ToSet
<1>2. \A t \in Tasks : ~(t <= issued)
  BY TasksArePositive DEF DispatcherInit
<1>3. SeparateInv
  BY DEF DispatcherInit, RunnerInit, SeparateInv, IsInjective, Empty
<1> QED
  BY <1>1, <1>2, <1>3 DEF PlaceInv

\* The sets of places in terms of the variables.
LEMMA PlacesAre ==
    /\ Place(1) = ToSet(pending_inputs) /\ Place(2) = Held /\ Place(3) = InFlight
    /\ Place(4) = ToSet(output_queue) /\ Place(5) = ToSet(fetched)
    /\ Place(6) = pending_results /\ Place(7) = UNION {drained[c] : c \in Clients}
    /\ Place(8) = delivered /\ Place(9) = lost
BY DEF Place

\* Who wakes the producer takes nothing from it.
LEMMA WokenKeepsHeld ==
    ASSUME NotifyInput, SeparateInv
    PROVE  Held' = Held /\ (commit' \in Empty => committing' = 0)
BY DEF NotifyInput, Woken, Held, SeparateInv, Empty

\* The producer moves an input from the queue to the runner, or back.
LEMMA CommitKeepsPlaces ==
    ASSUME TypeOK, StartInv, PlaceInv, SeparateInv, CommitStep
    PROVE  PlaceInv' /\ SeparateInv'
<1>1. /\ UNCHANGED <<issued, running_tasks, output_queue, fetched, pending_results, drained,
                     delivered, lost, client>>
  BY DEF CommitStep, CommitNext, CommitWaits, CommitSubmit, Submit, CommitAccount,
     CommitQueueFull, CommitRequeue, CommitRecheckFull, CommitExits, CommitFails,
     runnerVars, inputVars, receiveVars, fetchVars, clientVars, resultVars
<1>2. \A j \in 4..9 : Place(j)' = Place(j)
  BY <1>1 DEF Place
<1>3. SeparateInv'
  <2>1. commit' \in Empty => committing' = 0
    BY DEF CommitStep, CommitNext, CommitWaits, CommitSubmit, CommitAccount,
       CommitQueueFull, CommitRequeue, CommitRecheckFull, CommitExits, CommitFails,
       FullNext, SeparateInv, Empty
  <2> QED
    BY <1>1, <2>1 DEF SeparateInv
<1>4. CASE CommitNext
  <2> DEFINE t == Head(pending_inputs)
  <2>1. /\ pending_inputs \in Seq(Tasks) /\ pending_inputs # <<>>
        /\ pending_inputs' = Tail(pending_inputs) /\ input_queue' = input_queue
        /\ commit' = "submit" /\ committing' = t /\ commit = "next" /\ committing = 0
    BY <1>4 DEF CommitNext, MaySubmit, TypeOK, TaskTypeOK, runnerVars, SeparateInv, Empty
  <2>2. /\ ToSet(pending_inputs) = ToSet(pending_inputs') \cup {t}
        /\ t \notin ToSet(pending_inputs') /\ t \in Tasks
    BY <2>1, TailElements DEF StartInv
  <2> HIDE DEF t
  <2>3. Place(1)' = Place(1) \ {t} /\ Place(2)' = Place(2) \cup {t} /\ Place(3)' = Place(3)
    BY <1>1, <2>1, <2>2, TasksArePositive DEF Place, Held, InFlight
  <2>4. {t} \subseteq Place(1)
    BY <2>2 DEF Place
  <2>5. \A j \in 1..9 : j # 1 /\ j # 2 => Place(j)' = Place(j)
    BY <1>2, <2>3
  <2>6. /\ Place(1)' \subseteq Place(1)
        /\ Place(2)' = Place(2) \cup (Place(1) \ Place(1)')
    BY <2>3, <2>4
  <2>7. PlaceInv'
    BY <1>1, <2>5, <2>6, MoveTo
  <2> QED
    BY <1>3, <2>7
<1>5. CASE CommitSubmit
  <2>1. /\ input_queue \in Seq(Tasks) /\ committing \in Tasks
        /\ input_queue' = Append(input_queue, committing)
        /\ commit = "submit" /\ commit' = "account"
        /\ UNCHANGED <<pending_inputs, committing>>
    BY <1>5 DEF CommitSubmit, Submit, inputVars, TypeOK, RunnerTypeOK, CommitTypeOK,
       Holding
  <2>2. ToSet(input_queue') = ToSet(input_queue) \cup {committing}
    BY <2>1, AppendElements
  <2>3. /\ Place(1)' = Place(1) /\ Place(2) = {committing} /\ Place(2)' = {}
        /\ Place(3)' = Place(3) \cup {committing}
    BY <1>1, <2>1, <2>2, TasksArePositive DEF Place, Held, InFlight
  <2>4. \A j \in 1..9 : j # 2 /\ j # 3 => Place(j)' = Place(j)
    BY <1>2, <2>3
  <2>5. /\ Place(2)' \subseteq Place(2)
        /\ Place(3)' = Place(3) \cup (Place(2) \ Place(2)')
    BY <2>3
  <2>6. PlaceInv'
    BY <1>1, <2>4, <2>5, MoveTo
  <2> QED
    BY <1>3, <2>6
<1>6. CASE CommitRequeue
  <2>1. /\ pending_inputs \in Seq(Tasks) /\ committing \in Tasks
        /\ pending_inputs' = <<committing>> \o pending_inputs
        /\ commit = "full" /\ commit' # "account" /\ committing' = 0
        /\ UNCHANGED input_queue
    BY <1>6 DEF CommitRequeue, FullNext, runnerVars, TypeOK, TaskTypeOK, CommitTypeOK,
       Holding
  <2>2. ToSet(pending_inputs') = ToSet(pending_inputs) \cup {committing}
    BY <2>1, ConsElements
  <2>3. /\ Place(1)' = Place(1) \cup {committing} /\ Place(2) = {committing}
        /\ Place(2)' = {} /\ Place(3)' = Place(3)
    BY <1>1, <2>1, <2>2, TasksArePositive DEF Place, Held, InFlight
  <2>4. \A j \in 1..9 : j # 2 /\ j # 1 => Place(j)' = Place(j)
    BY <1>2, <2>3
  <2>5. /\ Place(2)' \subseteq Place(2)
        /\ Place(1)' = Place(1) \cup (Place(2) \ Place(2)')
    BY <2>3
  <2>6. PlaceInv'
    BY <1>1, <2>4, <2>5, MoveTo
  <2> QED
    BY <1>3, <2>6
<1>7. CASE \/ CommitWaits \/ CommitAccount \/ CommitQueueFull
           \/ CommitRecheckFull \/ CommitExits \/ CommitFails
  <2>1. UNCHANGED <<pending_inputs, input_queue>>
    BY <1>7 DEF CommitWaits, CommitAccount, CommitQueueFull, CommitRecheckFull,
       CommitExits, CommitFails, runnerVars, inputVars
  <2>2. Held' = Held
    BY <1>7 DEF CommitWaits, CommitAccount, CommitQueueFull, CommitRecheckFull,
       FullNext, CommitExits, CommitFails, Held
  <2>3. \A j \in 1..3 : Place(j)' = Place(j)
    BY <1>1, <2>1, <2>2 DEF Place, InFlight
  <2>4. \A j \in 1..9 : Place(j)' = Place(j)
    BY <1>2, <2>3
  <2> QED
    BY <1>1, <1>3, <2>4, StayPut
<1> QED
  BY <1>4, <1>5, <1>6, <1>7 DEF CommitStep

\* The consumer moves a result from the runner to _pending_results, or drops it.
LEMMA FetchKeepsPlaces ==
    ASSUME TypeOK, StartInv, PlaceInv, SeparateInv, FetchStep
    PROVE  PlaceInv' /\ SeparateInv'
<1>1. /\ UNCHANGED <<issued, pending_inputs, input_queue, running_tasks, drained, delivered,
                     client>>
      /\ UNCHANGED commitVars \/ NotifyInput
  BY DEF FetchStep, FetchPoll, FetchGet, Take, FetchTimeout, FetchStore, FetchNotify,
     FetchExits, FetchFails, runnerVars, inputVars, flowVars, sendVars, clientVars,
     resultVars
<1>2. Held' = Held /\ (commit' \in Empty => committing' = 0)
  BY <1>1, WokenKeepsHeld DEF commitVars, Held, SeparateInv
<1>3. \A j \in {1, 2, 3, 7, 8} : Place(j)' = Place(j)
  BY <1>1, <1>2 DEF Place, InFlight
<1>4. output_queue \in Seq(Tasks) /\ fetched \in Seq(Tasks)
  BY DEF TypeOK, RunnerTypeOK, FetchTypeOK
<1>5. CASE FetchGet
  <2> DEFINE t == Head(output_queue)
  <2>1. /\ output_queue # <<>> /\ output_queue' = Tail(output_queue)
        /\ fetched' = Append(fetched, t)
        /\ UNCHANGED <<pending_results, lost>>
    BY <1>5 DEF FetchGet, Take, flowVars, resultVars
  <2>2. /\ ToSet(output_queue) = ToSet(output_queue') \cup {t}
        /\ IsInjective(output_queue') /\ t \notin ToSet(output_queue') /\ t \in Tasks
    BY <1>4, <2>1, TailElements DEF SeparateInv
  <2> HIDE DEF t
  <2>3. t \notin ToSet(fetched)
    BY <2>2, Elsewhere, PlacesAre
  <2>4. ToSet(fetched') = ToSet(fetched) \cup {t} /\ IsInjective(fetched')
    BY <1>4, <2>1, <2>2, <2>3, AppendElements DEF SeparateInv
  <2>5. /\ \A j \in 1..9 : j # 4 /\ j # 5 => Place(j)' = Place(j)
        /\ Place(4)' \subseteq Place(4)
        /\ Place(5)' = Place(5) \cup (Place(4) \ Place(4)')
    BY <1>3, <2>1, <2>2, <2>4, SMTT(30) DEF Place
  <2>6. PlaceInv'
    BY <1>1, <2>5, MoveTo
  <2> QED
    BY <1>1, <1>2, <2>2, <2>4, <2>6 DEF SeparateInv
<1>6. CASE FetchTimeout \/ FetchFails
  <2>1. /\ fetched' = <<>> /\ lost' = lost \cup ToSet(fetched)
        /\ UNCHANGED <<pending_results, output_queue>>
    BY <1>6 DEF FetchTimeout, FetchFails, runnerVars
  <2>2. ToSet(fetched') = {} /\ IsInjective(fetched')
    BY <2>1 DEF ToSet, IsInjective
  <2>3. /\ \A j \in 1..9 : j # 5 /\ j # 9 => Place(j)' = Place(j)
        /\ Place(5)' \subseteq Place(5)
        /\ Place(9)' = Place(9) \cup (Place(5) \ Place(5)')
    BY <1>3, <2>1, <2>2 DEF Place
  <2>4. PlaceInv'
    BY <1>1, <2>3, MoveTo
  <2> QED
    BY <1>1, <1>2, <2>1, <2>2, <2>4 DEF SeparateInv
<1>7. CASE FetchStore
  <2>1. /\ fetched' = <<>> /\ pending_results' = pending_results \cup ToSet(fetched)
        /\ UNCHANGED <<lost, output_queue>>
    BY <1>7 DEF FetchStore, runnerVars
  <2>2. ToSet(fetched') = {} /\ IsInjective(fetched')
    BY <2>1 DEF ToSet, IsInjective
  <2>3. /\ \A j \in 1..9 : j # 5 /\ j # 6 => Place(j)' = Place(j)
        /\ Place(5)' \subseteq Place(5)
        /\ Place(6)' = Place(6) \cup (Place(5) \ Place(5)')
    BY <1>3, <2>1, <2>2 DEF Place
  <2>4. PlaceInv'
    BY <1>1, <2>3, MoveTo
  <2> QED
    BY <1>1, <1>2, <2>1, <2>2, <2>4 DEF SeparateInv
<1>8. CASE FetchPoll \/ FetchNotify \/ FetchExits
  <2>1. UNCHANGED <<output_queue, fetched, pending_results, lost>>
    BY <1>8 DEF FetchPoll, FetchNotify, FetchExits, runnerVars, flowVars, resultVars
  <2>2. \A j \in 1..9 : Place(j)' = Place(j)
    <3>1. \A j \in {4, 5, 6, 9} : Place(j)' = Place(j)
      BY <2>1 DEF Place
    <3> QED
      BY <1>3, <3>1
  <2> QED
    BY <1>1, <1>2, <2>1, <2>2, StayPut DEF SeparateInv
<1> QED
  BY <1>5, <1>6, <1>7, <1>8 DEF FetchStep

\* The runner starts and publishes tasks; when it ends, those it runs are lost.
LEMMA RunnerKeepsPlaces ==
    ASSUME TypeOK, StartInv, PlaceInv, SeparateInv, RunnerThread \/ Rollouts
    PROVE  PlaceInv' /\ SeparateInv'
<1>1. UNCHANGED <<issued, pending_inputs, commit, committing, fetched, pending_results,
                  drained, delivered, client>>
  BY DEF RunnerThread, Rollouts, RunnerAdmits, RunnerStarts, RunnerEnds, RunnerPublishes,
     RolloutAccepted, RolloutRejected, Idle, commitVars, fetchVars, clientVars, inputVars,
     resultVars
<1>2. \A j \in {1, 2, 5, 6, 7, 8} : Place(j)' = Place(j)
  BY <1>1 DEF Place, Held
<1>3. output_queue \in Seq(Tasks) /\ input_queue \in Seq(Tasks) /\ running_tasks \subseteq Tasks
  BY DEF TypeOK, RunnerTypeOK
<1>4. running_tasks \cap ToSet(input_queue) = {}
  BY DEF StartInv, NotStarted
<1>5. CASE RunnerStarts
  <2>1. /\ input_queue # <<>> /\ input_queue' = Tail(input_queue)
        /\ running_tasks' = running_tasks \cup {Head(input_queue)}
        /\ UNCHANGED <<output_queue, lost>>
    BY <1>5 DEF RunnerStarts, Start, resultVars
  <2>2. ToSet(input_queue) = ToSet(input_queue') \cup {Head(input_queue)}
    BY <1>3, <2>1, TailElements
  <2>3. InFlight' = InFlight
    BY <2>1, <2>2 DEF InFlight
  <2>4. \A j \in 1..9 : Place(j)' = Place(j)
    <3>1. \A j \in {3, 4, 9} : Place(j)' = Place(j)
      BY <2>1, <2>3 DEF Place
    <3> QED
      BY <1>2, <3>1
  <2> QED
    BY <1>1, <2>1, <2>4, StayPut DEF SeparateInv
<1>6. CASE \E t \in Tasks : RunnerPublishes(t)
  <2>1. PICK t \in Tasks : RunnerPublishes(t)
    BY <1>6
  <2>2. /\ t \in running_tasks /\ running_tasks' = running_tasks \ {t}
        /\ output_queue' = Append(output_queue, t)
        /\ UNCHANGED <<input_queue, lost>>
    BY <2>1 DEF RunnerPublishes, Publish, resultVars, TypeOK, RunnerTypeOK
  <2>3. t \notin ToSet(output_queue)
    BY <2>2, Elsewhere, PlacesAre DEF InFlight
  <2>4. ToSet(output_queue') = ToSet(output_queue) \cup {t} /\ IsInjective(output_queue')
    BY <1>3, <2>2, <2>3, AppendElements DEF SeparateInv
  <2>5. InFlight' = InFlight \ {t} /\ t \in InFlight
    BY <1>4, <2>2 DEF InFlight
  <2>6. /\ \A j \in 1..9 : j # 3 /\ j # 4 => Place(j)' = Place(j)
        /\ Place(3)' \subseteq Place(3)
        /\ Place(4)' = Place(4) \cup (Place(3) \ Place(3)')
    BY <1>2, <2>2, <2>4, <2>5 DEF Place
  <2>7. PlaceInv'
    BY <1>1, <2>6, MoveTo
  <2> QED
    BY <1>1, <2>4, <2>7 DEF SeparateInv
<1>7. CASE RunnerEnds
  <2>1. /\ running_tasks' = {} /\ lost' = lost \cup running_tasks
        /\ UNCHANGED <<input_queue, output_queue>>
    BY <1>7 DEF RunnerEnds, RunnerStops
  <2>2. InFlight' = InFlight \ running_tasks /\ running_tasks \subseteq InFlight
    BY <1>4, <2>1 DEF InFlight
  <2>3. /\ \A j \in 1..9 : j # 3 /\ j # 9 => Place(j)' = Place(j)
        /\ Place(3)' \subseteq Place(3)
        /\ Place(9)' = Place(9) \cup (Place(3) \ Place(3)')
    BY <1>2, <2>1, <2>2 DEF Place
  <2>4. PlaceInv'
    BY <1>1, <2>3, MoveTo
  <2> QED
    BY <1>1, <2>1, <2>4 DEF SeparateInv
<1>8. CASE RunnerAdmits \/ Rollouts
  <2>1. UNCHANGED <<input_queue, running_tasks, output_queue, lost>>
    BY <1>8 DEF RunnerAdmits, Admit, FoundEmpty, Rollouts, RolloutAccepted, RolloutRejected,
       CoroutineReturns, resultVars
  <2>2. \A j \in 1..9 : Place(j)' = Place(j)
    <3>1. \A j \in {3, 4, 9} : Place(j)' = Place(j)
      BY <2>1 DEF Place, InFlight
    <3> QED
      BY <1>2, <3>1
  <2> QED
    BY <1>1, <2>1, <2>2, StayPut DEF SeparateInv
<1> QED
  BY <1>5, <1>6, <1>7, <1>8 DEF RunnerThread

\* A new input is in the queue and nowhere else.
LEMMA SubmitKeepsPlaces ==
    ASSUME TypeOK, StartInv, PlaceInv, SeparateInv, NEW c \in Clients, SubmitTaskInput(c)
    PROVE  PlaceInv' /\ SeparateInv'
<1> DEFINE u == issued + 1
<1>1. /\ u \in Tasks /\ issued' = u /\ issued \in Nat /\ pending_inputs \in Seq(Tasks)
      /\ pending_inputs' = Append(pending_inputs, u)
      /\ client[c] = "idle" /\ client' = [client EXCEPT ![c] = "activate"]
      /\ UNCHANGED <<input_queue, running_tasks, output_queue, fetched, pending_results,
                     drained, delivered, lost>>
  BY DEF SubmitTaskInput, ClientAt, runnerVars, fetchVars, resultVars, TypeOK, TaskTypeOK
<1>2. Held' = Held /\ (commit' \in Empty => committing' = 0)
  BY WokenKeepsHeld DEF SubmitTaskInput
<1>3. ToSet(pending_inputs') = ToSet(pending_inputs) \cup {u}
  BY <1>1, AppendElements
<1>4. \A j \in 1..9 : Place(j)' = Place(j) \cup (IF j = 1 THEN {u} ELSE {})
  <2>1. \A j \in {1, 2, 3, 4, 5} :
            Place(j)' = Place(j) \cup (IF j = 1 THEN {u} ELSE {})
    BY <1>1, <1>2, <1>3 DEF Place, InFlight
  <2>2. \A j \in {6, 7, 8, 9} :
            Place(j)' = Place(j) \cup (IF j = 1 THEN {u} ELSE {})
    BY <1>1 DEF Place
  <2> QED
    BY <2>1, <2>2
<1>5. PlaceInv'
  <2> SUFFICES ASSUME NEW t \in Tasks
               PROVE  (IF t <= issued
                       THEN \E i \in 1..9 : t \in Place(i) /\ \A j \in 1..9 \ {i} : t \notin Place(j)
                       ELSE \A j \in 1..9 : t \notin Place(j))'
    BY DEF PlaceInv
  <2>1. t \in Nat /\ (t <= issued' <=> t <= issued \/ t = u) /\ ~(u <= issued)
    BY <1>1, TasksArePositive
  <2> HIDE DEF u
  <2>2. CASE t = u
    <3>1. \A j \in 1..9 : u \notin Place(j)
      BY <1>1, <2>1 DEF PlaceInv
    <3>2. u \in Place(1)' /\ \A j \in 1..9 \ {1} : u \notin Place(j)'
      BY <1>4, <3>1
    <3> QED
      BY <2>1, <2>2, <3>2
  <2>3. CASE t # u
    <3>1. \A j \in 1..9 : t \in Place(j)' <=> t \in Place(j)
      BY <1>4, <2>3
    <3> QED
      BY <2>1, <2>3, <3>1 DEF PlaceInv
  <2> QED
    BY <2>2, <2>3
<1>6. \A d \in Clients : client'[d] # "select" => drained'[d] = {}
  BY <1>1 DEF SeparateInv, TypeOK, ClientTypeOK
<1> QED
  BY <1>1, <1>2, <1>5, <1>6 DEF SeparateInv

\* A client drains the results, keeps the oldest and puts the others back.
LEMMA ClientKeepsPlaces ==
    ASSUME TypeOK, StartInv, PlaceInv, SeparateInv, NEW c \in Clients,
           Calls(c) \/ ClientStep(c)
    PROVE  PlaceInv' /\ SeparateInv'
<1>1. CASE SubmitTaskInput(c)
  BY <1>1, SubmitKeepsPlaces
<1> SUFFICES ASSUME ~SubmitTaskInput(c)
             PROVE  PlaceInv' /\ SeparateInv'
  BY <1>1
<1>2. UNCHANGED <<issued, pending_inputs, commit, committing, input_queue, running_tasks,
                  output_queue, fetched, lost>>
  BY DEF Calls, ClientStep, WaitDrains, TaskArrives, ActivateTask, WaitSelects, runnerVars,
     commitVars, fetchVars, inputVars, sendVars
<1>3. \A j \in {1, 2, 3, 4, 5, 9} : Place(j)' = Place(j)
  BY <1>2 DEF Place, Held, InFlight
<1>4. client \in [Clients -> {"idle", "activate", "select"}] /\ drained \in [Clients -> SUBSET Tasks]
  BY DEF TypeOK, ClientTypeOK, TaskTypeOK
<1> DEFINE Drained == UNION {drained[d] : d \in Clients}
<1>5. CASE ActivateTask(c)
  <2>1. /\ client' = [client EXCEPT ![c] = "idle"] /\ client[c] = "activate"
        /\ UNCHANGED <<pending_results, drained, delivered>>
    BY <1>5 DEF ActivateTask, ClientAt
  <2>2. \A j \in {6, 7, 8} : Place(j)' = Place(j)
    BY <2>1 DEF Place
  <2>3. \A j \in 1..9 : Place(j)' = Place(j)
    BY <1>3, <2>2
  <2>4. PlaceInv'
    BY <1>2, <2>3, StayPut
  <2> QED
    BY <1>2, <1>4, <2>1, <2>4 DEF SeparateInv
<1>6. CASE \E count \in Tasks : WaitDrains(c, count)
  <2>1. /\ client' = [client EXCEPT ![c] = "select"] /\ client[c] = "idle"
        /\ drained' = [drained EXCEPT ![c] = pending_results]
        /\ pending_results' = {} /\ delivered' = delivered
    BY <1>6 DEF WaitDrains, ClientAt
  <2>2. drained[c] = {}
    BY <2>1 DEF SeparateInv
  <2>3. Place(7)' = Place(7) \cup pending_results
    <3>1. ASSUME NEW t
          PROVE  t \in Place(7)' <=> t \in Place(7) \/ t \in pending_results
      BY <1>4, <2>1, <2>2 DEF Place
    <3> QED
      BY <3>1
  <2>4. Place(6)' = {} /\ Place(6) = pending_results /\ Place(8)' = Place(8)
    BY <2>1 DEF Place
  <2>5. /\ \A j \in 1..9 : j # 6 /\ j # 7 => Place(j)' = Place(j)
        /\ Place(6)' \subseteq Place(6)
        /\ Place(7)' = Place(7) \cup (Place(6) \ Place(6)')
    BY <1>3, <2>3, <2>4
  <2>6. PlaceInv'
    BY <1>2, <2>5, MoveTo
  <2>7. pending_results \subseteq Tasks /\ \A d \in Clients : pending_results \cap drained[d] = {}
    <3>1. Tasks \cap Place(6) \cap Place(7) = {}
      BY Elsewhere
    <3> QED
      BY <3>1 DEF Place, TypeOK, TaskTypeOK
  <2> QED
    BY <1>2, <1>4, <2>1, <2>6, <2>7 DEF SeparateInv
<1>7. CASE \E t \in Tasks : TaskArrives(c, t)
  <2>1. PICK t \in Tasks : TaskArrives(c, t)
    BY <1>7
  <2>2. /\ t \in pending_results /\ pending_results' = pending_results \ {t}
        /\ delivered' = delivered \cup {t}
        /\ UNCHANGED <<client, drained>>
    BY <2>1 DEF TaskArrives, sendVars, clientVars
  <2>3. Place(6)' = Place(6) \ {t} /\ t \in Place(6) /\ Place(8)' = Place(8) \cup {t}
        /\ Place(7)' = Place(7)
    BY <2>2 DEF Place
  <2>4. /\ \A j \in 1..9 : j # 6 /\ j # 8 => Place(j)' = Place(j)
        /\ Place(6)' \subseteq Place(6)
        /\ Place(8)' = Place(8) \cup (Place(6) \ Place(6)')
    BY <1>3, <2>3
  <2>5. PlaceInv'
    BY <1>2, <2>4, MoveTo
  <2> QED
    BY <1>2, <2>2, <2>5 DEF SeparateInv
<1>8. CASE WaitSelects(c)
  <2> DEFINE S == Oldest(drained[c], request[c])
  <2>1. /\ client' = [client EXCEPT ![c] = "idle"]
        /\ drained' = [drained EXCEPT ![c] = {}]
        /\ pending_results' = pending_results \cup (drained[c] \ S)
        /\ delivered' = delivered \cup S /\ S \subseteq drained[c]
    BY <1>8 DEF WaitSelects, ClientAt, Oldest
  <2> HIDE DEF S
  <2>2. Place(7)' = Place(7) \ drained[c] /\ drained[c] \subseteq Place(7)
    <3>1. ASSUME NEW t
          PROVE  t \in Place(7)' <=> t \in Place(7) /\ t \notin drained[c]
      BY <1>4, <2>1 DEF Place, SeparateInv
    <3> QED
      BY <3>1 DEF Place
  <2>3. Place(6)' = Place(6) \cup (drained[c] \ S) /\ Place(8)' = Place(8) \cup S
    BY <2>1 DEF Place
  <2> DEFINE M == drained[c] \ S
  <2>4. /\ M \subseteq Place(7) /\ S \subseteq Place(7) /\ M \cap S = {}
        /\ Place(7)' = Place(7) \ (M \cup S) /\ Place(6)' = Place(6) \cup M
        /\ Place(8)' = Place(8) \cup S
    BY <2>1, <2>2, <2>3
  <2> HIDE DEF M
  <2>5. /\ \A j \in 1..9 \ {7, 6, 8} : Place(j)' = Place(j)
        /\ Place(7)' \subseteq Place(7)
        /\ Place(6) \subseteq Place(6)' /\ Place(6)' \ Place(6) \subseteq Place(7) \ Place(7)'
        /\ Place(8) \subseteq Place(8)' /\ Place(8)' \ Place(8) \subseteq Place(7) \ Place(7)'
        /\ (Place(6)' \ Place(6)) \cap (Place(8)' \ Place(8)) = {}
        /\ Place(7) \ Place(7)' \subseteq Place(6)' \cup Place(8)'
    BY <1>3, <2>4
  <2>6. 7 \in 1..9 /\ 6 \in 1..9 /\ 8 \in 1..9 /\ 7 # 6 /\ 7 # 8 /\ 6 # 8
    OBVIOUS
  <2>7. PlaceInv'
    BY <1>2, <2>5, <2>6, MoveApart, ZenonT(30)
  <2> QED
    BY <1>2, <1>4, <2>1, <2>7 DEF SeparateInv
<1> QED
  BY <1>5, <1>6, <1>7, <1>8 DEF Calls, ClientStep

\* pause, resume, set_version and destroy move no task.
LEMMA ControlKeepsPlaces ==
    ASSUME PlaceInv, SeparateInv,
           Pause \/ ResumeRunner \/ ResumeNotify \/ SetVersion \/ Destroy
    PROVE  PlaceInv' /\ SeparateInv'
<1>1. /\ UNCHANGED <<issued, pending_inputs, input_queue, running_tasks, output_queue,
                     fetched, pending_results, drained, delivered, lost, client>>
      /\ UNCHANGED commitVars \/ NotifyInput
  BY DEF Pause, ResumeRunner, ResumeNotify, SetVersion, Destroy, SetPaused, runnerVars,
     receiveVars, fetchVars, clientVars, resultVars, inputVars
<1>2. Held' = Held /\ (commit' \in Empty => committing' = 0)
  BY <1>1, WokenKeepsHeld DEF commitVars, Held, SeparateInv
<1>3. \A j \in 1..9 : Place(j)' = Place(j)
  <2>1. \A j \in {1, 2, 3, 4, 5} : Place(j)' = Place(j)
    BY <1>1, <1>2 DEF Place, InFlight
  <2>2. \A j \in {6, 7, 8, 9} : Place(j)' = Place(j)
    BY <1>1 DEF Place
  <2> QED
    BY <2>1, <2>2
<1> QED
  BY <1>1, <1>2, <1>3, StayPut DEF SeparateInv

\* Every step keeps each task in one place.
LEMMA NextKeepsPlaces ==
    TypeOK /\ StartInv /\ PlaceInv /\ SeparateInv /\ [DispatcherNext]_dispatcherVars
        => PlaceInv' /\ SeparateInv'
<1> SUFFICES ASSUME TypeOK, StartInv, PlaceInv, SeparateInv, [DispatcherNext]_dispatcherVars
             PROVE  PlaceInv' /\ SeparateInv'
  OBVIOUS
<1>1. CASE UNCHANGED dispatcherVars
  <2>1. UNCHANGED <<issued, pending_inputs, commit, committing, input_queue, running_tasks,
                    output_queue, fetched, pending_results, drained, delivered, lost, client>>
    BY <1>1 DEF dispatcherVars, runnerVars, commitVars, fetchVars, clientVars, inputVars,
       resultVars
  <2>2. \A j \in 1..9 : Place(j)' = Place(j)
    <3>1. \A j \in {1, 2, 3, 4, 5} : Place(j)' = Place(j)
      BY <2>1 DEF Place, InFlight, Held
    <3>2. \A j \in {6, 7, 8, 9} : Place(j)' = Place(j)
      BY <2>1 DEF Place
    <3> QED
      BY <3>1, <3>2
  <2> QED
    BY <2>1, <2>2, StayPut DEF SeparateInv
<1>2. CASE DispatcherNext
  BY <1>2, CommitKeepsPlaces, FetchKeepsPlaces, RunnerKeepsPlaces, ClientKeepsPlaces,
     ControlKeepsPlaces DEF DispatcherNext
<1> QED
  BY <1>1, <1>2

\* The tuple of the property says the same.
LEMMA OnePlace == TypeOK /\ StartInv /\ PlaceInv /\ SeparateInv => ExactlyOnePlace
<1> SUFFICES ASSUME TypeOK, StartInv, PlaceInv, SeparateInv
             PROVE  ExactlyOnePlace
  OBVIOUS
<1>1. \A q \in {pending_inputs, input_queue, output_queue, fetched} : IsInjective(q)
  BY DEF StartInv, SeparateInv
<1>2. ASSUME NEW t \in Tasks, t <= issued
      PROVE  \E i \in 1..9 : \A j \in 1..9 : Places(t)[j] <=> (i = j)
  <2>1. \A j \in 1..9 : Places(t)[j] <=> t \in Place(j)
    <3> DEFINE p1 == t \in ToSet(pending_inputs)
               p2 == commit # "account" /\ committing = t
               p3 == t \in InFlight
               p4 == t \in ToSet(output_queue)
               p5 == t \in ToSet(fetched)
               p6 == t \in pending_results
               p7 == \E c \in Clients : t \in drained[c]
               p8 == t \in delivered
               p9 == t \in lost
    <3>4. Places(t) = <<p1, p2, p3, p4, p5, p6, p7, p8, p9>>
      BY DEF Places
    <3> HIDE DEF p1, p2, p3, p4, p5, p6, p7, p8, p9
    <3>5. /\ Places(t)[1] = p1 /\ Places(t)[2] = p2 /\ Places(t)[3] = p3
          /\ Places(t)[4] = p4 /\ Places(t)[5] = p5 /\ Places(t)[6] = p6
          /\ Places(t)[7] = p7 /\ Places(t)[8] = p8 /\ Places(t)[9] = p9
      BY <3>4
    <3>1. (p1 <=> t \in Place(1)) /\ (p2 <=> t \in Place(2)) /\ (p3 <=> t \in Place(3))
      BY PlacesAre, TasksArePositive DEF Held, p1, p2, p3
    <3>2. (p4 <=> t \in Place(4)) /\ (p5 <=> t \in Place(5)) /\ (p6 <=> t \in Place(6))
      BY PlacesAre DEF p4, p5, p6
    <3>3. (p7 <=> t \in Place(7)) /\ (p8 <=> t \in Place(8)) /\ (p9 <=> t \in Place(9))
      BY PlacesAre DEF p7, p8, p9
    <3>6. \A j \in {1, 2, 3, 4, 5} : Places(t)[j] <=> t \in Place(j)
      BY <3>1, <3>2, <3>5
    <3>7. \A j \in {6, 7, 8, 9} : Places(t)[j] <=> t \in Place(j)
      BY <3>2, <3>3, <3>5
    <3> QED
      BY <3>6, <3>7
  <2>2. PICK i \in 1..9 : t \in Place(i) /\ \A j \in 1..9 \ {i} : t \notin Place(j)
    BY <1>2 DEF PlaceInv
  <2> QED
    BY <2>1, <2>2
<1> QED
  BY <1>1, <1>2 DEF ExactlyOnePlace

\* No input is executed twice and no result is delivered twice, or to two clients:
\* an issued task is in exactly one place, and in a queue once.
THEOREM NothingTwice == Spec => []ExactlyOnePlace
<1> DEFINE Inv == TypeOK /\ StartInv /\ PlaceInv /\ SeparateInv
<1>1. DispatcherInit => Inv
  BY InitTypes, InitStart, InitPlace
<1>2. Inv /\ [DispatcherNext]_dispatcherVars => Inv'
  BY NextTypes, NextKeepsStart, NextKeepsPlaces
<1>3. Inv => ExactlyOnePlace
  BY OnePlace
<1> HIDE DEF Inv
<1> QED
  BY <1>1, <1>2, <1>3, PTL DEF Spec

-----------------------------------------------------------------------------
(* The counters and the tasks.                                             *)

\* A coroutine that returned has reported.
FinishedInv == \A t \in finished : verdict[t] # "none"

Ended(how) == {t \in Tasks : verdict[t] = how}

HeldCount == IF Holding THEN 1 ELSE 0

EnqueuedInv == commit # "failed" => rollout_stat.enqueued = Len(pending_inputs) + HeldCount

RunningInv == runner_up => rollout_stat.running = Cardinality(Unended) - Uncounted

VerdictInv ==
    /\ rollout_stat.rejected = Cardinality(Ended("rejected"))
    /\ rollout_stat.accepted = RecoveredVersion * BatchSize + Cardinality(Ended("accepted"))

CountersInv == FinishedInv /\ EnqueuedInv /\ RunningInv /\ VerdictInv

\* A step of the threads that ends no rollout and counts none.
LEMMA CountersStay ==
    ASSUME TypeOK, CountersInv, rollout_stat' = rollout_stat,
           UNCHANGED <<verdict, pending_inputs, runner_up>>,
           HeldCount' = HeldCount, Uncounted' = Uncounted,
           commit' # "failed" => commit # "failed",
           Unended' = Unended, finished' \subseteq finished
    PROVE  CountersInv'
BY DEF CountersInv, FinishedInv, EnqueuedInv, RunningInv, VerdictInv, Ended

\* Who wakes the producer changes nothing that is counted.
LEMMA WokenKeepsCounts ==
    ASSUME NotifyInput \/ UNCHANGED commit
    PROVE  HeldCount' = HeldCount /\ Uncounted' = Uncounted
           /\ (commit' # "failed" => commit # "failed")
BY DEF NotifyInput, Woken, HeldCount, Holding, Uncounted

\* The rollouts that ended are finitely many.
LEMMA EndedFinite ==
    ASSUME NEW how
    PROVE  IsFiniteSet(Ended(how)) /\ Cardinality(Ended(how)) \in Nat
<1>1. Ended(how) \subseteq Tasks
  BY DEF Ended
<1> QED
  BY <1>1, DispatcherAssumption, FS_Subset, FS_CardinalityType

\* At first only the samples of recovered versions are counted.
LEMMA InitCounters == DispatcherInit => CountersInv
<1> SUFFICES ASSUME DispatcherInit PROVE CountersInv
  OBVIOUS
<1>1. /\ Unended = {} /\ Ended("rejected") = {} /\ Ended("accepted") = {}
      /\ finished = {} /\ Cardinality({}) = 0
  BY FS_EmptySet DEF DispatcherInit, RunnerInit, Unended, InFlight, ToSet, Ended
<1>2. /\ rollout_stat.enqueued = 0 /\ rollout_stat.running = 0 /\ rollout_stat.rejected = 0
      /\ rollout_stat.accepted = RecoveredVersion * BatchSize
      /\ pending_inputs = <<>> /\ HeldCount = 0 /\ Uncounted = 0
  BY DEF DispatcherInit, StatInit, HeldCount, Holding, Uncounted
<1>3. PICK k \in Nat : k = RecoveredVersion * BatchSize
  BY StalenessAssumption DEF BatchSize, AtLeastOne
<1>4. VerdictInv
  <2>1. Cardinality(Ended("rejected")) = 0 /\ Cardinality(Ended("accepted")) = 0
    BY <1>1
  <2>2. rollout_stat.accepted = k /\ k + 0 = k
    BY <1>2, <1>3
  <2> QED
    BY <1>2, <1>3, <2>1, <2>2 DEF VerdictInv
<1> QED
  BY <1>1, <1>2, <1>4 DEF CountersInv, FinishedInv, EnqueuedInv, RunningInv

\* The producer's steps: enqueued goes down when a rollout is submitted.
LEMMA CommitKeepsCounters ==
    ASSUME TypeOK, StartInv, CountersInv, CommitStep
    PROVE  CountersInv'
<1>1. /\ UNCHANGED <<verdict, runner_up, running_tasks, finished>>
  BY DEF CommitStep, CommitNext, CommitWaits, CommitSubmit, Submit, CommitAccount,
     CommitQueueFull, CommitRequeue, CommitRecheckFull, CommitExits, CommitFails,
     runnerVars, receiveVars, rolloutVars
<1>2. FinishedInv'
  BY <1>1 DEF CountersInv, FinishedInv
<1>3. /\ pending_inputs \in Seq(Tasks) /\ Len(pending_inputs) \in Nat
      /\ rollout_stat.running \in Int /\ rollout_stat.enqueued \in Int
      /\ Cardinality(Unended) \in Nat
  BY UnendedFinite DEF TypeOK, TaskTypeOK, CounterTypeOK, StatType
<1>4. CASE CommitNext
  <2>1. /\ pending_inputs # <<>> /\ pending_inputs' = Tail(pending_inputs)
        /\ HeldCount = 0 /\ HeldCount' = 1 /\ Uncounted = 0 /\ Uncounted' = 0
        /\ commit = "next" /\ UNCHANGED <<rollout_stat, input_queue>>
    BY <1>4 DEF CommitNext, MaySubmit, HeldCount, Holding, Uncounted, runnerVars, statVars
  <2>2. Len(pending_inputs') = Len(pending_inputs) - 1
    BY <1>3, <2>1
  <2>3. EnqueuedInv'
    BY <1>3, <2>1, <2>2 DEF CountersInv, EnqueuedInv
  <2>4. Unended' = Unended
    BY <1>1, <2>1 DEF Unended, InFlight
  <2> QED
    BY <1>1, <1>2, <2>1, <2>3, <2>4 DEF CountersInv, RunningInv, VerdictInv, Ended
<1>5. CASE CommitSubmit
  <2>1. /\ input_queue' = Append(input_queue, committing) /\ input_queue \in Seq(Tasks)
        /\ committing \in Tasks /\ PreSubmit = {committing}
        /\ HeldCount = 1 /\ HeldCount' = 1 /\ Uncounted = 0 /\ Uncounted' = 1
        /\ commit = "submit" /\ UNCHANGED <<rollout_stat, pending_inputs>>
    BY <1>5 DEF CommitSubmit, Submit, HeldCount, Holding, Uncounted, statVars, inputVars,
       TypeOK, RunnerTypeOK, CommitTypeOK, PreSubmit
  <2>2. ToSet(input_queue') = ToSet(input_queue) \cup {committing}
    BY <2>1, AppendElements
  <2>3. committing \notin InFlight /\ verdict[committing] = "none"
    BY <2>1 DEF StartInv, NotStarted, InFlight
  <2>4. Unended' = Unended \cup {committing} /\ committing \notin Unended
    BY <1>1, <2>1, <2>2, <2>3 DEF Unended, InFlight
  <2>5. Cardinality(Unended') = Cardinality(Unended) + 1
    BY <2>4, UnendedFinite, FS_AddElement
  <2>6. RunningInv'
    BY <1>1, <1>3, <2>1, <2>5 DEF CountersInv, RunningInv
  <2>7. EnqueuedInv'
    BY <2>1 DEF CountersInv, EnqueuedInv
  <2> QED
    BY <1>1, <1>2, <2>1, <2>6, <2>7 DEF CountersInv, VerdictInv, Ended
<1>6. CASE CommitAccount
  <2>1. /\ HeldCount = 1 /\ HeldCount' = 0 /\ Uncounted = 1 /\ Uncounted' = 0
        /\ commit = "account" /\ UNCHANGED <<input_queue, pending_inputs>>
    BY <1>6 DEF CommitAccount, HeldCount, Holding, Uncounted, runnerVars, inputVars
  <2>2. /\ rollout_stat'.running = rollout_stat.running + 1
        /\ rollout_stat'.enqueued = rollout_stat.enqueued - 1
        /\ rollout_stat'.rejected = rollout_stat.rejected
        /\ rollout_stat'.accepted = rollout_stat.accepted
    BY <1>6 DEF CommitAccount, OnRolloutSubmitted, TypeOK, CounterTypeOK, StatType
  <2>3. Unended' = Unended
    BY <1>1, <2>1 DEF Unended, InFlight
  <2>4. EnqueuedInv'
    BY <1>3, <2>1, <2>2 DEF CountersInv, EnqueuedInv
  <2>5. RunningInv'
    BY <1>1, <1>3, <2>1, <2>2, <2>3 DEF CountersInv, RunningInv
  <2> QED
    BY <1>1, <1>2, <2>2, <2>4, <2>5 DEF CountersInv, VerdictInv, Ended
<1>7. CASE CommitRequeue
  <2>1. /\ pending_inputs' = <<committing>> \o pending_inputs /\ committing \in Tasks
        /\ HeldCount = 1 /\ HeldCount' = 0 /\ Uncounted = 0 /\ Uncounted' = 0
        /\ commit = "full" /\ UNCHANGED <<rollout_stat, input_queue>>
    BY <1>7 DEF CommitRequeue, FullNext, HeldCount, Holding, Uncounted, runnerVars,
       statVars, TypeOK, CommitTypeOK
  <2>2. Len(pending_inputs') = Len(pending_inputs) + 1
    BY <1>3, <2>1
  <2>3. EnqueuedInv'
    BY <1>3, <2>1, <2>2 DEF CountersInv, EnqueuedInv
  <2>4. Unended' = Unended
    BY <1>1, <2>1 DEF Unended, InFlight
  <2> QED
    BY <1>1, <1>2, <2>1, <2>3, <2>4 DEF CountersInv, RunningInv, VerdictInv, Ended
<1>8. CASE CommitWaits \/ CommitQueueFull \/ CommitRecheckFull \/ CommitExits
  <2>1. /\ HeldCount' = HeldCount /\ Uncounted' = Uncounted /\ commit # "failed"
        /\ UNCHANGED <<rollout_stat, input_queue, pending_inputs>>
    BY <1>8 DEF CommitWaits, CommitQueueFull, CommitRecheckFull, CommitExits, FullNext,
       HeldCount, Holding, Uncounted, runnerVars, statVars, inputVars
  <2>2. Unended' = Unended
    BY <1>1, <2>1 DEF Unended, InFlight
  <2> QED
    BY <1>1, <2>1, <2>2, CountersStay
<1>9. CASE CommitFails
  <2>1. /\ Uncounted = 0 /\ Uncounted' = 0 /\ commit' = "failed"
        /\ UNCHANGED <<rollout_stat, input_queue, pending_inputs>>
    BY <1>9 DEF CommitFails, Uncounted, runnerVars, statVars, inputVars
  <2>2. Unended' = Unended
    BY <1>1, <2>1 DEF Unended, InFlight
  <2>3. EnqueuedInv' /\ RunningInv'
    BY <1>1, <2>1, <2>2 DEF CountersInv, EnqueuedInv, RunningInv
  <2> QED
    BY <1>1, <1>2, <2>1, <2>3 DEF CountersInv, VerdictInv, Ended
<1> QED
  BY <1>4, <1>5, <1>6, <1>7, <1>8, <1>9 DEF CommitStep

\* What the runner starts or publishes is counted elsewhere.
LEMMA RunnerKeepsCounters ==
    ASSUME TypeOK, StartInv, CountersInv, RunnerThread
    PROVE  CountersInv'
<1>1. UNCHANGED <<rollout_stat, verdict, pending_inputs, commit>>
  BY DEF RunnerThread, RunnerAdmits, RunnerStarts, RunnerEnds, RunnerPublishes, Idle,
     rolloutVars, statVars, commitVars, inputVars
<1>2. HeldCount' = HeldCount /\ Uncounted' = Uncounted
  BY <1>1 DEF HeldCount, Holding, Uncounted
<1>3. running_tasks \cap ToSet(input_queue) = {} /\ input_queue \in Seq(Tasks)
  BY DEF StartInv, NotStarted, TypeOK, RunnerTypeOK
<1>4. CASE RunnerStarts
  <2>1. /\ input_queue # <<>> /\ input_queue' = Tail(input_queue)
        /\ running_tasks' = running_tasks \cup {Head(input_queue)}
        /\ UNCHANGED <<finished, runner_up>>
    BY <1>4 DEF RunnerStarts, Start
  <2>2. ToSet(input_queue) = ToSet(input_queue') \cup {Head(input_queue)}
    BY <1>3, <2>1, TailElements
  <2>3. Unended' = Unended
    BY <1>1, <2>1, <2>2 DEF Unended, InFlight
  <2> QED
    BY <1>1, <1>2, <2>1, <2>3, CountersStay
<1>5. CASE \E t \in Tasks : RunnerPublishes(t)
  <2>1. PICK t \in Tasks : RunnerPublishes(t)
    BY <1>5
  <2>2. /\ t \in finished /\ running_tasks' = running_tasks \ {t}
        /\ finished' = finished \ {t} /\ UNCHANGED <<input_queue, runner_up>>
    BY <2>1 DEF RunnerPublishes, Publish
  <2>3. verdict[t] # "none"
    BY <2>2 DEF CountersInv, FinishedInv
  <2>4. Unended' = Unended
    BY <1>1, <2>2, <2>3 DEF Unended, InFlight
  <2> QED
    BY <1>1, <1>2, <2>2, <2>4, CountersStay
<1>6. CASE RunnerAdmits
  <2>1. UNCHANGED <<input_queue, running_tasks, finished, runner_up>>
    BY <1>6 DEF RunnerAdmits, Admit, FoundEmpty
  <2>2. Unended' = Unended
    BY <1>1, <2>1 DEF Unended, InFlight
  <2> QED
    BY <1>1, <1>2, <2>1, <2>2, CountersStay
<1>7. CASE RunnerEnds
  <2>1. ~runner_up' /\ finished' = {}
    BY <1>7 DEF RunnerEnds, RunnerStops
  <2> QED
    BY <1>1, <1>2, <2>1 DEF CountersInv, FinishedInv, EnqueuedInv, RunningInv, VerdictInv,
       Ended
<1> QED
  BY <1>4, <1>5, <1>6, <1>7 DEF RunnerThread

\* A rollout that ends moves from running to accepted or rejected.
LEMMA RolloutsKeepCounters ==
    ASSUME TypeOK, StartInv, CountersInv, NEW t \in Tasks, NEW how \in {"accepted", "rejected"},
           IF how = "accepted" THEN RolloutAccepted(t) ELSE RolloutRejected(t)
    PROVE  CountersInv'
<1>1. /\ t \in running_tasks \ finished /\ verdict' = [verdict EXCEPT ![t] = how]
      /\ finished' = finished \cup {t} /\ runner_up' = runner_up
      /\ UNCHANGED <<input_queue, running_tasks, commit, pending_inputs>>
  BY DEF RolloutAccepted, RolloutRejected, CoroutineReturns, Idle, commitVars, inputVars
<1>2. /\ rollout_stat'.running = rollout_stat.running - 1
      /\ rollout_stat'.enqueued = rollout_stat.enqueued
      /\ rollout_stat'.accepted = rollout_stat.accepted + (IF how = "accepted" THEN 1 ELSE 0)
      /\ rollout_stat'.rejected = rollout_stat.rejected + (IF how = "rejected" THEN 1 ELSE 0)
      /\ rollout_stat.running \in Int /\ rollout_stat.accepted \in Int
      /\ rollout_stat.rejected \in Int
  <2>1. /\ rollout_stat \in StatType /\ rollout_stat.running \in Int
        /\ rollout_stat.accepted \in Int /\ rollout_stat.rejected \in Int
    BY DEF TypeOK, CounterTypeOK, StatType
  <2>2. CASE how = "accepted"
    <3>1. rollout_stat' = [rollout_stat EXCEPT !.running = @ - 1, !.accepted = @ + 1]
      BY <2>2 DEF RolloutAccepted, OnRolloutAccepted
    <3>2. /\ rollout_stat'.running = rollout_stat.running - 1
          /\ rollout_stat'.accepted = rollout_stat.accepted + 1
          /\ rollout_stat'.enqueued = rollout_stat.enqueued
          /\ rollout_stat'.rejected = rollout_stat.rejected
      BY <2>1, <3>1 DEF StatType
    <3> QED
      BY <2>1, <2>2, <3>2
  <2>3. CASE how = "rejected"
    <3>1. rollout_stat' = [rollout_stat EXCEPT !.running = @ - 1, !.rejected = @ + 1]
      BY <2>3 DEF RolloutRejected, OnRolloutRejected
    <3>2. /\ rollout_stat'.running = rollout_stat.running - 1
          /\ rollout_stat'.rejected = rollout_stat.rejected + 1
          /\ rollout_stat'.enqueued = rollout_stat.enqueued
          /\ rollout_stat'.accepted = rollout_stat.accepted
      BY <2>1, <3>1 DEF StatType
    <3> QED
      BY <2>1, <2>3, <3>2
  <2> QED
    BY <2>2, <2>3
<1>3. verdict \in [Tasks -> {"none", "accepted", "rejected"}] /\ verdict[t] = "none"
  BY <1>1 DEF TypeOK, TaskTypeOK, StartInv
<1>4. HeldCount' = HeldCount /\ Uncounted' = Uncounted /\ Uncounted \in Int
  BY <1>1 DEF HeldCount, Holding, Uncounted
<1>5. FinishedInv'
  BY <1>1, <1>3 DEF CountersInv, FinishedInv, TypeOK, RunnerTypeOK
<1>6. EnqueuedInv'
  BY <1>1, <1>2, <1>4 DEF CountersInv, EnqueuedInv
<1>7. RunningInv'
  <2>1. InFlight' = InFlight /\ InFlight \subseteq Tasks /\ t \in Unended
    BY <1>1, <1>3, RangeTyped DEF InFlight, Unended, TypeOK, RunnerTypeOK
  <2>2. Unended' = Unended \ {t}
    BY <1>1, <1>3, <2>1 DEF Unended
  <2>3. Cardinality(Unended') = Cardinality(Unended) - 1 /\ Cardinality(Unended) \in Nat
    BY <2>1, <2>2, UnendedFinite, FS_RemoveElement
  <2> QED
    BY <1>1, <1>2, <1>4, <2>3 DEF CountersInv, RunningInv
<1>8. VerdictInv'
  <2>1. \A h \in {"accepted", "rejected"} :
            Ended(h)' = IF h = how THEN Ended(h) \cup {t} ELSE Ended(h)
    BY <1>1, <1>3 DEF Ended
  <2>2. t \notin Ended(how)
    BY <1>3 DEF Ended
  <2>3. Cardinality(Ended(how)') = Cardinality(Ended(how)) + 1
    BY <2>1, <2>2, EndedFinite, FS_AddElement
  <2>4. RecoveredVersion * BatchSize \in Nat
    BY StalenessAssumption DEF BatchSize, AtLeastOne
  <2>5. PICK k \in Nat : k = RecoveredVersion * BatchSize
    BY <2>4
  <2>6. Cardinality(Ended("accepted")) \in Nat /\ Cardinality(Ended("rejected")) \in Nat
    BY EndedFinite
  <2>7. /\ rollout_stat.rejected = Cardinality(Ended("rejected"))
        /\ rollout_stat.accepted = k + Cardinality(Ended("accepted"))
    BY <2>5 DEF CountersInv, VerdictInv
  <2>8. CASE how = "accepted"
    <3>1. /\ rollout_stat'.rejected = Cardinality(Ended("rejected")')
          /\ rollout_stat'.accepted = k + Cardinality(Ended("accepted")')
      BY <1>2, <2>1, <2>3, <2>6, <2>7, <2>8
    <3> QED
      BY <2>5, <3>1 DEF VerdictInv
  <2>9. CASE how = "rejected"
    <3>1. /\ rollout_stat'.rejected = Cardinality(Ended("rejected")')
          /\ rollout_stat'.accepted = k + Cardinality(Ended("accepted")')
      BY <1>2, <2>1, <2>3, <2>6, <2>7, <2>9
    <3> QED
      BY <2>5, <3>1 DEF VerdictInv
  <2> QED
    BY <2>8, <2>9
<1> QED
  BY <1>5, <1>6, <1>7, <1>8 DEF CountersInv

\* Every step keeps the counters.
LEMMA NextKeepsCounters ==
    TypeOK /\ StartInv /\ CountersInv /\ [DispatcherNext]_dispatcherVars => CountersInv'
<1> SUFFICES ASSUME TypeOK, StartInv, CountersInv, [DispatcherNext]_dispatcherVars
             PROVE  CountersInv'
  OBVIOUS
<1> DEFINE Same == UNCHANGED <<input_queue, running_tasks, finished, runner_up, verdict,
                               rollout_stat>>
<1>1. ASSUME Same, UNCHANGED pending_inputs, NotifyInput \/ UNCHANGED commit
      PROVE  CountersInv'
  <2>1. Unended' = Unended
    BY <1>1 DEF Unended, InFlight
  <2> QED
    BY <1>1, <2>1, WokenKeepsCounts, CountersStay
<1>2. CASE UNCHANGED dispatcherVars
  BY <1>1, <1>2 DEF dispatcherVars, runnerVars, statVars, rolloutVars, inputVars, commitVars
<1>3. CASE FetchStep
  <2>1. Same /\ UNCHANGED pending_inputs /\ (NotifyInput \/ UNCHANGED commit)
    BY <1>3 DEF FetchStep, FetchPoll, FetchGet, Take, FetchTimeout, FetchStore, FetchNotify,
       FetchExits, FetchFails, runnerVars, inputVars, rolloutVars, statVars, commitVars,
       sendVars, flowVars
  <2> QED
    BY <1>1, <2>1
<1>4. CASE \E c \in Clients : Calls(c) \/ ClientStep(c)
  <2>1. PICK c \in Clients : Calls(c) \/ ClientStep(c)
    BY <1>4
  <2>2. CASE SubmitTaskInput(c)
    <3>1. /\ pending_inputs' = Append(pending_inputs, issued + 1) /\ issued + 1 \in Tasks
          /\ pending_inputs \in Seq(Tasks) /\ NotifyInput
          /\ UNCHANGED <<input_queue, running_tasks, finished, runner_up, verdict>>
      BY <2>2 DEF SubmitTaskInput, runnerVars, rolloutVars, TypeOK, TaskTypeOK
    <3>2. /\ rollout_stat'.enqueued = rollout_stat.enqueued + 1
          /\ rollout_stat'.running = rollout_stat.running
          /\ rollout_stat'.accepted = rollout_stat.accepted
          /\ rollout_stat'.rejected = rollout_stat.rejected
          /\ rollout_stat.enqueued \in Int
      BY <2>2 DEF SubmitTaskInput, OnRolloutEnqueued, TypeOK, CounterTypeOK, StatType
    <3>3. /\ HeldCount' = HeldCount /\ Uncounted' = Uncounted /\ HeldCount \in {0, 1}
          /\ commit' # "failed" => commit # "failed"
      BY <3>1, WokenKeepsCounts DEF HeldCount
    <3>4. Len(pending_inputs') = Len(pending_inputs) + 1 /\ Len(pending_inputs) \in Nat
      BY <3>1
    <3>5. EnqueuedInv'
      BY <3>2, <3>3, <3>4 DEF CountersInv, EnqueuedInv
    <3>6. Unended' = Unended
      BY <3>1 DEF Unended, InFlight
    <3> QED
      BY <3>1, <3>2, <3>3, <3>5, <3>6 DEF CountersInv, FinishedInv, RunningInv, VerdictInv,
         Ended
  <2>3. CASE ~SubmitTaskInput(c)
    <3>1. Same /\ UNCHANGED pending_inputs /\ UNCHANGED commit
      BY <2>1, <2>3 DEF Calls, ClientStep, WaitDrains, TaskArrives, ActivateTask,
         WaitSelects, runnerVars, inputVars, rolloutVars, statVars, commitVars, sendVars
    <3> QED
      BY <1>1, <3>1
  <2> QED
    BY <2>2, <2>3
<1>5. CASE Pause \/ ResumeRunner \/ ResumeNotify \/ SetVersion \/ Destroy
  <2>1. Same /\ UNCHANGED pending_inputs /\ (NotifyInput \/ UNCHANGED commit)
    BY <1>5 DEF Pause, ResumeRunner, ResumeNotify, SetVersion, Destroy, SetPaused,
       runnerVars, inputVars, rolloutVars, receiveVars, statVars, commitVars
  <2> QED
    BY <1>1, <2>1
<1>6. CASE Rollouts
  BY <1>6, RolloutsKeepCounters DEF Rollouts
<1> QED
  BY <1>2, <1>3, <1>4, <1>5, <1>6, CommitKeepsCounters, RunnerKeepsCounters
     DEF DispatcherNext

\* The counters of the StalenessManager are those of the tasks, up to the one that
\* is submitted and not yet counted.
THEOREM CountersAreTrue == Spec => []CountersMatch
<1> DEFINE Inv == TypeOK /\ StartInv /\ CountersInv
<1>1. DispatcherInit => Inv
  BY InitTypes, InitStart, InitCounters
<1>2. Inv /\ [DispatcherNext]_dispatcherVars => Inv'
  BY NextTypes, NextKeepsStart, NextKeepsCounters
<1>3. Inv => CountersMatch
  BY DEF CountersInv, EnqueuedInv, RunningInv, VerdictInv, Ended, HeldCount, Uncounted,
     CountersMatch
<1> HIDE DEF Inv
<1> QED
  BY <1>1, <1>2, <1>3, PTL DEF Spec

-----------------------------------------------------------------------------
(* Results are dropped at a deadline only.                                 *)

\* A fetch asks for one result or for results that are there: it has taken nothing
\* when it finds the queue empty.
FetchInv ==
    fetch = "collect" =>
        /\ Len(fetched) < fetch_count
        /\ fetch_count = 1 \/ Len(output_queue) + Len(fetched) >= fetch_count

\* The consumer keeps to what it asked for.
LEMMA FetchStepKeepsFetch ==
    ASSUME TypeOK, FetchInv, FetchStep
    PROVE  FetchInv'
<1>1. /\ Len(output_queue) \in Nat /\ Len(fetched) \in Nat /\ fetch_count \in Nat
      /\ output_queue \in Seq(Tasks) /\ fetched \in Seq(Tasks) /\ MaxFetchBatch \in Nat \ {0}
  BY DispatcherAssumption DEF TypeOK, RunnerTypeOK, FetchTypeOK
<1>2. CASE FetchPoll
  <2>1. /\ fetch_count' = Max({1, Min({Len(output_queue), MaxFetchBatch})})
        /\ fetched' = fetched /\ output_queue' = output_queue /\ fetch = "poll"
    BY <1>2 DEF FetchPoll, runnerVars
  <2>2. fetched = <<>>
    BY <2>1 DEF TypeOK, FetchTypeOK
  <2>3. fetch_count' = 1 \/ (fetch_count' \in Nat \ {0} /\ fetch_count' <= Len(output_queue))
    <3>1. PICK n \in Nat : n = Len(output_queue)
      BY <1>1
    <3>2. PICK k \in Nat : k = Min({n, MaxFetchBatch}) /\ k <= n
      <4>1. /\ Min({n, MaxFetchBatch}) \in {n, MaxFetchBatch}
            /\ Min({n, MaxFetchBatch}) <= n
        <5>1. n \in Int /\ MaxFetchBatch \in Int
          BY <1>1
        <5> QED
          BY <5>1, MaxMinOfTwo
      <4>2. Min({n, MaxFetchBatch}) \in Nat
        BY <1>1, <4>1
      <4> QED
        BY <4>1, <4>2
    <3>3. Max({1, k}) \in {1, k} /\ Max({1, k}) >= 1
      BY MaxMinOfTwo
    <3> QED
      BY <2>1, <3>1, <3>2, <3>3
  <2>4. Len(fetched) = 0
    BY <2>2
  <2> QED
    BY <1>1, <2>1, <2>3, <2>4 DEF FetchInv
<1>3. CASE FetchGet
  <2>1. /\ output_queue # <<>> /\ output_queue' = Tail(output_queue)
        /\ fetched' = Append(fetched, Head(output_queue)) /\ Len(fetched) < fetch_count
        /\ fetch = "collect" /\ fetch_count' = fetch_count
        /\ fetch' = IF Len(fetched) + 1 < fetch_count THEN "collect" ELSE "store"
    BY <1>3 DEF FetchGet, Take, Collecting
  <2>2. Len(output_queue') = Len(output_queue) - 1 /\ Len(fetched') = Len(fetched) + 1
    BY <1>1, <2>1
  <2> QED
    BY <1>1, <2>1, <2>2 DEF FetchInv
<1>4. CASE FetchTimeout \/ FetchStore \/ FetchNotify \/ FetchExits \/ FetchFails
  <2>1. fetch' # "collect"
    BY <1>4 DEF FetchTimeout, FetchStore, FetchNotify, FetchExits, FetchFails
  <2> QED
    BY <2>1 DEF FetchInv
<1> QED
  BY <1>2, <1>3, <1>4 DEF FetchStep

\* So does every step of the others.
LEMMA NextKeepsFetch ==
    TypeOK /\ FetchInv /\ [DispatcherNext]_dispatcherVars => FetchInv'
<1> SUFFICES ASSUME TypeOK, FetchInv, [DispatcherNext]_dispatcherVars
             PROVE  FetchInv'
  OBVIOUS
<1> DEFINE Same == UNCHANGED <<fetch, fetch_count, fetched, output_queue>>
<1>1. ASSUME Same PROVE FetchInv'
  BY <1>1 DEF FetchInv
<1>2. CASE UNCHANGED dispatcherVars
  BY <1>1, <1>2 DEF dispatcherVars, runnerVars, fetchVars
<1>3. CASE CommitStep
  <2>1. Same
    BY <1>3 DEF CommitStep, CommitNext, CommitWaits, CommitSubmit, Submit, CommitAccount,
       CommitQueueFull, CommitRequeue, CommitRecheckFull, CommitExits, CommitFails,
       runnerVars, receiveVars, fetchVars
  <2> QED
    BY <1>1, <2>1
<1>4. CASE RunnerThread \/ Rollouts
  <2>1. UNCHANGED <<fetch, fetch_count, fetched>>
    BY <1>4 DEF RunnerThread, Rollouts, RunnerAdmits, RunnerStarts, RunnerEnds,
       RunnerPublishes, RolloutAccepted, RolloutRejected, Idle, fetchVars
  <2>2. CASE RunnerEnds
    BY <1>1, <2>1, <2>2 DEF RunnerEnds, RunnerStops
  <2>3. CASE \E t \in Tasks : RunnerPublishes(t)
    <3>1. PICK t \in Tasks : RunnerPublishes(t)
      BY <2>3
    <3>2. output_queue' = Append(output_queue, t)
      BY <3>1 DEF RunnerPublishes, Publish
    <3>3. /\ Len(output_queue') = Len(output_queue) + 1 /\ Len(output_queue) \in Nat
          /\ Len(fetched) \in Nat /\ fetch_count \in Nat
      BY <3>2, DispatcherAssumption DEF TypeOK, RunnerTypeOK, FetchTypeOK
    <3> QED
      BY <2>1, <3>2, <3>3 DEF FetchInv
  <2>4. CASE RunnerAdmits \/ RunnerStarts \/ Rollouts
    <3>1. UNCHANGED output_queue
      BY <2>4 DEF RunnerAdmits, Admit, FoundEmpty, RunnerStarts, Start, Rollouts,
         RolloutAccepted, RolloutRejected, CoroutineReturns
    <3> QED
      BY <1>1, <2>1, <3>1
  <2> QED
    BY <1>4, <2>2, <2>3, <2>4 DEF RunnerThread
<1>5. CASE \E c \in Clients : Calls(c) \/ ClientStep(c)
  <2>1. Same
    BY <1>5 DEF Calls, ClientStep, SubmitTaskInput, WaitDrains, TaskArrives, ActivateTask,
       WaitSelects, runnerVars, fetchVars
  <2> QED
    BY <1>1, <2>1
<1>6. CASE Pause \/ ResumeRunner \/ ResumeNotify \/ SetVersion \/ Destroy
  <2>1. Same
    BY <1>6 DEF Pause, ResumeRunner, ResumeNotify, SetVersion, Destroy, SetPaused,
       runnerVars, receiveVars, fetchVars
  <2> QED
    BY <1>1, <2>1
<1> QED
  BY <1>2, <1>3, <1>4, <1>5, <1>6, FetchStepKeepsFetch DEF DispatcherNext

\* The steps that drop results: the deadline of a fetch, and two that leave a dead
\* runner or a dead thread behind.
LEMMA WhatDrops ==
    ASSUME DispatcherNext, lost' # lost, runner_up', ~thread_exception'
    PROVE  FetchTimeout
<1>1. CASE CommitStep
  BY <1>1 DEF CommitStep, CommitNext, CommitWaits, CommitSubmit, CommitAccount,
     CommitQueueFull, CommitRequeue, CommitRecheckFull, CommitExits, CommitFails,
     receiveVars, resultVars
<1>2. CASE FetchStep
  BY <1>2 DEF FetchStep, FetchPoll, FetchGet, FetchStore, FetchNotify, FetchExits,
     FetchFails, flowVars, resultVars
<1>3. CASE RunnerThread \/ Rollouts
  BY <1>3 DEF RunnerThread, Rollouts, RunnerAdmits, RunnerStarts, RunnerEnds,
     RunnerStops, RunnerPublishes, RolloutAccepted, RolloutRejected, resultVars
<1>4. CASE \E c \in Clients : Calls(c) \/ ClientStep(c)
  BY <1>4 DEF Calls, ClientStep, SubmitTaskInput, WaitDrains, TaskArrives,
     ActivateTask, WaitSelects, resultVars
<1>5. CASE Pause \/ ResumeRunner \/ ResumeNotify \/ SetVersion \/ Destroy
  BY <1>5 DEF Pause, ResumeRunner, ResumeNotify, SetVersion, Destroy, receiveVars,
     resultVars
<1> QED
  BY <1>1, <1>2, <1>3, <1>4, <1>5 DEF DispatcherNext

\* However slow a fetch may be, healthy threads drop results only at its deadline,
\* some of a batch that was ready when it was asked for and the rest of which still
\* waits in the queue.
THEOREM ResultsAreKept == Spec => OnlyDeadlinesDrop
<1> DEFINE Inv == TypeOK /\ FetchInv
           Deadline == /\ fetch = "collect" /\ lost' = lost \cup ToSet(fetched)
                       /\ Len(fetched) < fetch_count
                       /\ Len(fetched) + Len(output_queue) >= fetch_count
           Drop == lost' # lost /\ runner_up' /\ ~thread_exception' => Deadline
<1>1. DispatcherInit => Inv
  BY InitTypes DEF DispatcherInit, FetchInv
<1>2. Inv /\ [DispatcherNext]_dispatcherVars => Inv'
  BY NextTypes, NextKeepsFetch
<1>3. Inv /\ [DispatcherNext]_dispatcherVars => [Drop]_dispatcherVars
  <2> SUFFICES ASSUME Inv, DispatcherNext, lost' # lost, runner_up',
                      ~thread_exception'
               PROVE  Deadline
    OBVIOUS
  <2>1. FetchTimeout
    BY WhatDrops
  <2>2. fetch = "collect" /\ lost' = lost \cup ToSet(fetched)
    BY <2>1 DEF FetchTimeout
  <2>3. /\ Len(output_queue) \in Nat /\ Len(fetched) \in Nat /\ fetch_count \in Nat
        /\ fetched \in Seq(Tasks)
    BY DispatcherAssumption DEF TypeOK, RunnerTypeOK, FetchTypeOK
  <2>4. Len(fetched) # 0
    <3>1. ToSet(fetched) # {}
      BY <2>2
    <3>2. fetched # <<>>
      BY <3>1 DEF ToSet
    <3> QED
      BY <2>3, <3>2
  <2> QED
    BY <2>2, <2>3, <2>4 DEF FetchInv
<1> HIDE DEF Inv
<1>4. Spec => [][Drop]_dispatcherVars
  BY <1>1, <1>2, <1>3, PTL DEF Spec
<1> QED
  BY <1>4 DEF OnlyDeadlinesDrop

-----------------------------------------------------------------------------
(* The producer is told of every chance to submit.                         *)

\* A result is on its way to the consumer's notify, or the runner is dead and
\* the consumer will notify when it finds out.
Tidings ==
    \/ finished # {} \/ output_queue # <<>> \/ fetched # <<>>
    \/ fetch = "notify" \/ ~runner_up

\* A producer that sleeps on input_cv through a chance to submit is about to be
\* notified, by a consumer that is up.
NoMissedWakeup ==
    /\ commit = "waiting" =>
          ~shutdown /\ ~thread_exception /\ fetch \notin {"failed", "exited"}
    /\ commit = "waiting" /\ MaySubmit => resuming \/ Tidings
    /\ commit = "waiting_full" => ~shutdown /\ fetch # "exited"
    /\ commit = "waiting_full" /\ HasRunnerCapacity =>
          resuming \/ Tidings \/ Unended # {}

\* A consumer that has left says why.
ConsumerInv ==
    (fetch = "failed" => thread_exception) /\ (fetch = "exited" => shutdown)

SleepInv == ConsumerInv /\ NoMissedWakeup

\* Whoever notifies under input_cv leaves no producer asleep.
LEMMA NotifyWakes ==
    ASSUME NotifyInput
    PROVE  commit' \notin {"waiting", "waiting_full"}
BY DEF NotifyInput, Woken

LEMMA SleeplessKeepsSleep ==
    ASSUME commit' \notin {"waiting", "waiting_full"}, ConsumerInv'
    PROVE  SleepInv'
BY DEF SleepInv, NoMissedWakeup

\* What get_capacity reads.
LEMMA SameCapacity ==
    ASSUME UNCHANGED <<rollout_stat, version>>
    PROVE  HasCapacity' = HasCapacity
BY DEF HasCapacity, GetCapacity, Samples, MaxSamples

\* A step that changes neither what the producer waits for nor what is told of it.
LEMMA SleepSame ==
    ASSUME SleepInv,
           UNCHANGED <<rollout_stat, version, paused, pending_inputs,
                       input_queue, commit, resuming, shutdown,
                       thread_exception, fetch, running_tasks, verdict>>,
           Tidings => Tidings'
    PROVE  SleepInv'
<1>1. HasCapacity' = HasCapacity
  BY SameCapacity
<1>2. MaySubmit' = MaySubmit
  BY <1>1 DEF MaySubmit
<1>3. HasRunnerCapacity' = HasRunnerCapacity
  BY <1>1 DEF HasRunnerCapacity, InputFull
<1>4. Unended' = Unended
  BY DEF Unended, InFlight
<1> QED
  BY <1>2, <1>3, <1>4 DEF SleepInv, ConsumerInv, NoMissedWakeup

\* The producer goes to sleep only after a test that failed.
LEMMA CommitKeepsSleep == SleepInv /\ CommitStep => SleepInv'
<1> SUFFICES ASSUME SleepInv, CommitStep
             PROVE  SleepInv'
  OBVIOUS
<1>1. UNCHANGED <<fetch, shutdown>> /\ (thread_exception => thread_exception')
  BY DEF CommitStep, CommitNext, CommitWaits, CommitSubmit, CommitAccount,
     CommitQueueFull, CommitRequeue, CommitRecheckFull, CommitExits, CommitFails,
     receiveVars, fetchVars, controlVars
<1>2. ConsumerInv'
  BY <1>1 DEF SleepInv, ConsumerInv
<1>3. CASE CommitWaits
  <2>1. /\ commit' = "waiting" /\ ~shutdown /\ ~thread_exception /\ ~MaySubmit
        /\ UNCHANGED <<rollout_stat, version, paused, pending_inputs,
                       thread_exception>>
    BY <1>3 DEF CommitWaits, runnerVars, statVars, inputVars, controlVars
  <2>2. ~MaySubmit'
    BY <2>1, SameCapacity DEF MaySubmit
  <2>3. fetch' \notin {"failed", "exited"}
    BY <1>1, <2>1 DEF SleepInv, ConsumerInv
  <2> QED
    BY <1>1, <1>2, <2>1, <2>2, <2>3 DEF SleepInv, NoMissedWakeup
<1>4. CASE CommitRequeue \/ CommitRecheckFull
  <2>1. /\ commit' = FullNext
        /\ UNCHANGED <<rollout_stat, version, paused, input_queue>>
    BY <1>4 DEF CommitRequeue, CommitRecheckFull, runnerVars, statVars
  <2>2. HasRunnerCapacity' = HasRunnerCapacity
    BY <2>1, SameCapacity DEF HasRunnerCapacity, InputFull
  <2>3. commit' = "waiting_full" => ~shutdown /\ ~HasRunnerCapacity
    BY <2>1 DEF FullNext
  <2>4. commit' # "waiting"
    BY <2>1 DEF FullNext
  <2>5. fetch = "exited" => shutdown
    BY DEF SleepInv, ConsumerInv
  <2> QED
    BY <1>1, <1>2, <2>2, <2>3, <2>4, <2>5 DEF SleepInv, NoMissedWakeup
<1>5. CASE \/ CommitNext \/ CommitSubmit \/ CommitAccount \/ CommitQueueFull
           \/ CommitExits \/ CommitFails
  <2>1. commit' \notin {"waiting", "waiting_full"}
    BY <1>5 DEF CommitNext, CommitSubmit, CommitAccount, CommitQueueFull,
       CommitExits, CommitFails
  <2> QED
    BY <1>2, <2>1, SleeplessKeepsSleep
<1> QED
  BY <1>3, <1>4, <1>5 DEF CommitStep

\* The consumer carries a result until it has notified.
LEMMA FetchKeepsSleep ==
    ASSUME TypeOK, FetchInv, SleepInv, FetchStep
    PROVE  SleepInv'
<1>1. CASE FetchNotify \/ FetchFails
  <2>1. commit' \notin {"waiting", "waiting_full"}
    BY <1>1, NotifyWakes DEF FetchNotify, FetchFails
  <2>2. ConsumerInv'
    BY <1>1 DEF FetchNotify, FetchFails, ConsumerInv
  <2> QED
    BY <2>1, <2>2, SleeplessKeepsSleep
<1>2. CASE FetchExits
  <2>1. /\ shutdown /\ fetch' = "exited" /\ UNCHANGED <<commit, shutdown>>
    BY <1>2 DEF FetchExits, commitVars, controlVars
  <2>2. commit \notin {"waiting", "waiting_full"}
    BY <2>1 DEF SleepInv, NoMissedWakeup
  <2> QED
    BY <2>1, <2>2, SleeplessKeepsSleep DEF ConsumerInv
<1>3. CASE FetchPoll \/ FetchGet \/ FetchTimeout \/ FetchStore
  <2>1. /\ UNCHANGED <<rollout_stat, version, paused, pending_inputs,
                       input_queue, commit, resuming, shutdown,
                       thread_exception, running_tasks, verdict, finished,
                       runner_up>>
        /\ fetch' \in {"poll", "collect", "store", "notify"}
        /\ fetch # "notify"
    BY <1>3 DEF FetchPoll, FetchGet, Take, Collecting, FetchTimeout, FetchStore,
       runnerVars, statVars, flowVars, sendVars, inputVars, rolloutVars, commitVars,
       controlVars
  <2>2. Tidings => Tidings'
    <3>1. CASE FetchPoll
      BY <2>1, <3>1 DEF FetchPoll, runnerVars, Tidings
    <3>2. CASE FetchGet
      <4>1. fetched' = Append(fetched, Head(output_queue))
        BY <3>2 DEF FetchGet
      <4>2. fetched' # <<>>
        BY <4>1 DEF TypeOK, FetchTypeOK
      <4> QED
        BY <4>2 DEF Tidings
    <3>3. CASE FetchTimeout
      <4>1. fetch = "collect" /\ output_queue' = output_queue
        BY <3>3 DEF FetchTimeout, runnerVars
      <4>2. CASE output_queue = <<>>
        <5>1. Len(output_queue) = 0 /\ Len(fetched) \in Nat /\ fetch_count \in Nat
          BY <4>2, DispatcherAssumption DEF TypeOK, FetchTypeOK
        <5>2. Len(fetched) = 0
          BY <4>1, <5>1 DEF FetchInv
        <5>3. fetched = <<>>
          BY <5>2 DEF TypeOK, FetchTypeOK
        <5> QED
          BY <2>1, <4>1, <4>2, <5>3 DEF Tidings
      <4>3. CASE output_queue # <<>>
        BY <4>1, <4>3 DEF Tidings
      <4> QED
        BY <4>2, <4>3
    <3>4. CASE FetchStore
      BY <3>4 DEF FetchStore, Tidings
    <3> QED
      BY <1>3, <3>1, <3>2, <3>3, <3>4
  <2>3. HasCapacity' = HasCapacity
    BY <2>1, SameCapacity
  <2>4. MaySubmit' = MaySubmit /\ HasRunnerCapacity' = HasRunnerCapacity
    BY <2>1, <2>3 DEF MaySubmit, HasRunnerCapacity, InputFull
  <2>5. Unended' = Unended
    BY <2>1 DEF Unended, InFlight
  <2> QED
    BY <2>1, <2>2, <2>4, <2>5 DEF SleepInv, ConsumerInv, NoMissedWakeup
<1> QED
  BY <1>1, <1>2, <1>3 DEF FetchStep

\* A rollout that ends, a publication and the end of the runner are tidings; a
\* start makes room in the input queue and leaves a rollout that has to end.
LEMMA RunnerKeepsSleep ==
    ASSUME TypeOK, StartInv, SleepInv, RunnerThread \/ Rollouts
    PROVE  SleepInv'
<1>1. UNCHANGED <<version, pending_inputs, commit, resuming, shutdown,
                  thread_exception, fetch, fetched, paused>>
  BY DEF RunnerThread, Rollouts, RunnerAdmits, Admit, FoundEmpty, RunnerStarts,
     Start, RunnerEnds, RunnerStops, RunnerPublishes, Publish, RolloutAccepted,
     RolloutRejected, CoroutineReturns, Idle, statVars, commitVars, fetchVars,
     inputVars, controlVars
<1>2. ConsumerInv'
  BY <1>1 DEF SleepInv, ConsumerInv
<1>3. ASSUME Tidings'
      PROVE  SleepInv'
  BY <1>1, <1>2, <1>3 DEF SleepInv, NoMissedWakeup
<1>4. CASE Rollouts
  <2>1. finished' # {}
    BY <1>4 DEF Rollouts, RolloutAccepted, RolloutRejected, CoroutineReturns
  <2> QED
    BY <1>3, <2>1 DEF Tidings
<1>5. CASE RunnerEnds
  <2>1. ~runner_up'
    BY <1>5 DEF RunnerEnds, RunnerStops
  <2> QED
    BY <1>3, <2>1 DEF Tidings
<1>6. CASE \E t \in Tasks : RunnerPublishes(t)
  <2>1. PICK t \in Tasks : output_queue' = Append(output_queue, t)
    BY <1>6 DEF RunnerPublishes, Publish
  <2>2. output_queue' # <<>>
    BY <2>1 DEF TypeOK, RunnerTypeOK
  <2> QED
    BY <1>3, <2>2 DEF Tidings
<1>7. CASE RunnerAdmits
  <2>1. UNCHANGED <<rollout_stat, input_queue, running_tasks, verdict, finished,
                    output_queue, runner_up>>
    BY <1>7 DEF RunnerAdmits, Admit, FoundEmpty, statVars, rolloutVars
  <2>2. Tidings => Tidings'
    BY <1>1, <2>1 DEF Tidings
  <2> QED
    BY <1>1, <2>1, <2>2, SleepSame
<1>8. CASE RunnerStarts
  <2> DEFINE t == Head(input_queue)
  <2>1. /\ UNCHANGED <<rollout_stat, verdict, finished, output_queue, runner_up>>
        /\ input_queue # <<>> /\ running_tasks' = running_tasks \cup {t}
    BY <1>8 DEF RunnerStarts, Start, statVars
  <2>2. input_queue \in Seq(Tasks)
    BY DEF TypeOK, RunnerTypeOK
  <2>3. t \in ToSet(input_queue)
    BY <2>1, <2>2, TailElements
  <2> HIDE DEF t
  <2>4. verdict[t] = "none"
    BY <2>3 DEF StartInv, NotStarted
  <2>5. Unended' # {}
    BY <2>1, <2>4 DEF Unended, InFlight
  <2>6. MaySubmit' = MaySubmit
    BY <1>1, <2>1, SameCapacity DEF MaySubmit
  <2>7. Tidings => Tidings'
    BY <1>1, <2>1 DEF Tidings
  <2> QED
    BY <1>1, <1>2, <2>5, <2>6, <2>7 DEF SleepInv, NoMissedWakeup
<1> QED
  BY <1>4, <1>5, <1>6, <1>7, <1>8 DEF RunnerThread

\* Inputs, pauses, resumptions and destroy() notify; a version comes while the
\* producer may not submit, and the resumption after it notifies.
LEMMA ControlKeepsSleep ==
    ASSUME SleepInv,
           \/ \E c \in Clients : SubmitTaskInput(c)
           \/ Pause \/ ResumeRunner \/ ResumeNotify \/ SetVersion \/ Destroy
    PROVE  SleepInv'
<1>1. /\ UNCHANGED <<fetch, thread_exception>>
      /\ UNCHANGED shutdown \/ shutdown' = TRUE
  BY DEF SubmitTaskInput, Pause, ResumeRunner, ResumeNotify, SetVersion, Destroy,
     receiveVars, fetchVars, controlVars
<1>2. ConsumerInv'
  BY <1>1 DEF SleepInv, ConsumerInv
<1>3. CASE \/ \E c \in Clients : SubmitTaskInput(c)
           \/ Pause \/ ResumeNotify \/ Destroy
  <2>1. NotifyInput
    BY <1>3 DEF SubmitTaskInput, Pause, ResumeNotify, Destroy
  <2> QED
    BY <1>2, <2>1, NotifyWakes, SleeplessKeepsSleep
<1>4. CASE ResumeRunner
  <2>1. resuming' /\ UNCHANGED <<commit, shutdown>>
    BY <1>4 DEF ResumeRunner, commitVars
  <2> QED
    BY <1>1, <1>2, <2>1 DEF SleepInv, NoMissedWakeup
<1>5. CASE SetVersion
  <2>1. paused' /\ UNCHANGED <<commit, shutdown>>
    BY <1>5 DEF SetVersion, runnerVars, commitVars, controlVars
  <2>2. ~MaySubmit' /\ ~HasRunnerCapacity'
    BY <2>1 DEF MaySubmit, HasRunnerCapacity
  <2> QED
    BY <1>1, <1>2, <2>1, <2>2 DEF SleepInv, NoMissedWakeup
<1> QED
  BY <1>3, <1>4, <1>5

LEMMA NextKeepsSleep ==
    ASSUME TypeOK, StartInv, FetchInv, SleepInv, [DispatcherNext]_dispatcherVars
    PROVE  SleepInv'
<1> DEFINE Same == UNCHANGED <<rollout_stat, version, paused, pending_inputs,
                       input_queue, commit, resuming, shutdown,
                       thread_exception, fetch, running_tasks, verdict,
                       finished, output_queue, fetched, runner_up>>
<1>1. ASSUME Same
      PROVE  SleepInv'
  <2>1. Tidings => Tidings'
    BY <1>1 DEF Tidings
  <2> QED
    BY <1>1, <2>1, SleepSame
<1>2. CASE UNCHANGED dispatcherVars
  <2>1. Same
    BY <1>2 DEF dispatcherVars, runnerVars, statVars, commitVars, fetchVars,
       inputVars, rolloutVars, controlVars
  <2> QED
    BY <1>1, <2>1
<1>3. ASSUME NEW c \in Clients,
             \/ ClientStep(c)
             \/ \E count \in Tasks : WaitDrains(c, count)
             \/ \E t \in Tasks : TaskArrives(c, t)
      PROVE  SleepInv'
  <2>1. Same
    BY <1>3 DEF ClientStep, ActivateTask, WaitSelects, WaitDrains, TaskArrives,
       runnerVars, statVars, commitVars, fetchVars, sendVars, inputVars,
       rolloutVars, controlVars
  <2> QED
    BY <1>1, <2>1
<1>4. CASE CommitStep
  BY <1>4, CommitKeepsSleep
<1>5. CASE FetchStep
  BY <1>5, FetchKeepsSleep
<1>6. CASE RunnerThread \/ Rollouts
  BY <1>6, RunnerKeepsSleep
<1>7. CASE \/ \E c \in Clients : SubmitTaskInput(c)
           \/ Pause \/ ResumeRunner \/ ResumeNotify \/ SetVersion \/ Destroy
  BY <1>7, ControlKeepsSleep
<1> QED
  BY <1>2, <1>3, <1>4, <1>5, <1>6, <1>7 DEF DispatcherNext, Calls

\* Whenever the producer sleeps on input_cv although it may submit, the thread
\* that has to notify it is up and has the reason in hand: the safety half of
\* ProducerIsWoken, FullIsWoken and ShutdownEnds, also when a fetch that is slow
\* drops results.
THEOREM ProducerIsTold == Spec => []NoMissedWakeup
<1> DEFINE Inv == TypeOK /\ StartInv /\ FetchInv /\ SleepInv
<1>1. DispatcherInit => Inv
  <2>1. DispatcherInit => FetchInv /\ SleepInv
    BY DEF DispatcherInit, FetchInv, SleepInv, ConsumerInv,
       NoMissedWakeup
  <2> QED
    BY <2>1, InitTypes, InitStart
<1>2. Inv /\ [DispatcherNext]_dispatcherVars => Inv'
  BY NextTypes, NextKeepsStart, NextKeepsFetch, NextKeepsSleep
<1>3. Inv => NoMissedWakeup
  BY DEF SleepInv
<1> HIDE DEF Inv
<1> QED
  BY <1>1, <1>2, <1>3, PTL DEF Spec

-----------------------------------------------------------------------------
(* No identifier is left behind.                                           *)

\* At most one thread submits and waits.
OneClient == \A c, d \in Clients : c = d

\* ActiveIsOutstanding, and what it needs of a task between its two critical sections.
ActiveInv ==
    /\ ActiveIsOutstanding
    /\ \A c \in Clients : client[c] = "activate" =>
          request[c] \in Tasks \ delivered /\ request[c] <= issued

\* Every step of a dispatcher with one client keeps the identifiers.
LEMMA NextKeepsActive ==
    ASSUME OneClient, TypeOK, PlaceInv, ActiveInv, [DispatcherNext]_dispatcherVars
    PROVE  ActiveInv'
<1> DEFINE Same == UNCHANGED <<issued, active_task_ids, delivered, client, request>>
<1>1. ASSUME Same PROVE ActiveInv'
  BY <1>1 DEF ActiveInv, ActiveIsOutstanding
<1>2. CASE UNCHANGED dispatcherVars
  BY <1>1, <1>2 DEF dispatcherVars, inputVars, resultVars, clientVars
<1>3. CASE CommitStep
  <2>1. Same
    BY <1>3 DEF CommitStep, CommitNext, CommitWaits, CommitSubmit, CommitAccount,
       CommitQueueFull, CommitRequeue, CommitRecheckFull, CommitExits, CommitFails,
       receiveVars, clientVars, resultVars, inputVars
  <2> QED
    BY <1>1, <2>1
<1>4. CASE FetchStep
  <2>1. Same
    BY <1>4 DEF FetchStep, FetchPoll, FetchGet, FetchTimeout, FetchStore, FetchNotify,
       FetchExits, FetchFails, inputVars, flowVars, sendVars, clientVars, resultVars
  <2> QED
    BY <1>1, <2>1
<1>5. CASE RunnerThread \/ Rollouts
  <2>1. Same
    BY <1>5 DEF RunnerThread, Rollouts, RunnerAdmits, RunnerStarts, RunnerEnds,
       RunnerPublishes, RolloutAccepted, RolloutRejected, Idle, clientVars, inputVars,
       resultVars
  <2> QED
    BY <1>1, <2>1
<1>6. CASE Pause \/ ResumeRunner \/ ResumeNotify \/ SetVersion \/ Destroy
  <2>1. Same
    BY <1>6 DEF Pause, ResumeRunner, ResumeNotify, SetVersion, Destroy, SetPaused,
       receiveVars, clientVars, resultVars, inputVars
  <2> QED
    BY <1>1, <2>1
<1>7. ASSUME NEW c \in Clients, Calls(c) \/ ClientStep(c)
      PROVE  ActiveInv'
  <2>1. /\ client \in [Clients -> {"idle", "activate", "select"}]
        /\ request \in [Clients -> Nat] /\ issued \in Nat
    BY DEF TypeOK, ClientTypeOK, TaskTypeOK
  <2>2. \A d \in Clients : d = c
    BY <1>7 DEF OneClient
  <2>3. CASE SubmitTaskInput(c)
    <3> DEFINE u == issued + 1
    <3>1. /\ u \in Tasks /\ issued' = u /\ client[c] = "idle"
          /\ client' = [client EXCEPT ![c] = "activate"]
          /\ request' = [request EXCEPT ![c] = u]
          /\ UNCHANGED <<active_task_ids, delivered>>
      BY <2>3 DEF SubmitTaskInput, ClientAt, resultVars
    <3>2. u \notin delivered
      <4>1. ~(u <= issued)
        BY <2>1
      <4>2. u \notin Place(8)
        BY <3>1, <4>1 DEF PlaceInv
      <4> QED
        BY <4>2, PlacesAre
    <3>3. \A t \in Tasks : t <= issued' => t <= issued \/ t = u
      BY <2>1, <3>1, TasksArePositive
    <3>4. u <= u
      BY <2>1
    <3> HIDE DEF u
    <3>5. client'[c] = "activate" /\ request'[c] = u
      BY <2>1, <3>1
    <3>6. \A t \in Tasks : t <= issued => t \in delivered \cup active_task_ids
      BY <2>2, <3>1 DEF ActiveInv, ActiveIsOutstanding
    <3> QED
      BY <2>2, <3>1, <3>2, <3>3, <3>4, <3>5, <3>6 DEF ActiveInv, ActiveIsOutstanding
  <2>4. CASE ActivateTask(c)
    <3>1. /\ client[c] = "activate" /\ client' = [client EXCEPT ![c] = "idle"]
          /\ active_task_ids' = active_task_ids \cup {request[c]}
          /\ UNCHANGED <<issued, delivered>>
      BY <2>4 DEF ActivateTask, ClientAt, inputVars
    <3>2. client'[c] = "idle"
      BY <2>1, <3>1
    <3> QED
      BY <2>2, <3>1, <3>2 DEF ActiveInv, ActiveIsOutstanding
  <2>5. CASE \E count \in Tasks : WaitDrains(c, count)
    <3>1. /\ client[c] = "idle" /\ client' = [client EXCEPT ![c] = "select"]
          /\ UNCHANGED <<issued, active_task_ids, delivered>>
      BY <2>5 DEF WaitDrains, ClientAt, inputVars
    <3>2. client'[c] = "select"
      BY <2>1, <3>1
    <3> QED
      BY <2>2, <3>1, <3>2 DEF ActiveInv, ActiveIsOutstanding
  <2>6. CASE WaitSelects(c)
    <3> DEFINE S == Oldest(drained[c], request[c])
    <3>1. /\ client[c] = "select" /\ client' = [client EXCEPT ![c] = "idle"]
          /\ active_task_ids' = active_task_ids \ S /\ delivered' = delivered \cup S
          /\ UNCHANGED issued
      BY <2>6 DEF WaitSelects, ClientAt, inputVars
    <3> HIDE DEF S
    <3>2. client'[c] = "idle"
      BY <2>1, <3>1
    <3> QED
      BY <2>2, <3>1, <3>2 DEF ActiveInv, ActiveIsOutstanding
  <2>7. CASE \E t \in Tasks : TaskArrives(c, t)
    <3>1. PICK t \in Tasks : TaskArrives(c, t)
      BY <2>7
    <3>2. /\ client[c] = "idle" /\ client' = client /\ issued' = issued
          /\ active_task_ids' = active_task_ids \ {t} /\ delivered' = delivered \cup {t}
      BY <3>1 DEF TaskArrives, sendVars, clientVars, inputVars
    <3> QED
      BY <2>2, <3>2 DEF ActiveInv, ActiveIsOutstanding
  <2> QED
    BY <1>7, <2>3, <2>4, <2>5, <2>6, <2>7 DEF Calls, ClientStep
<1> QED
  BY <1>2, <1>3, <1>4, <1>5, <1>6, <1>7 DEF DispatcherNext

\* With one client, as all of the repository's callers are, an identifier is active
\* from the end of its submission until its result is delivered.
THEOREM ActiveTasks ==
    ASSUME OneClient
    PROVE  Spec => []ActiveIsOutstanding
<1> DEFINE Inv == TypeOK /\ StartInv /\ PlaceInv /\ SeparateInv /\ ActiveInv
<1>1. DispatcherInit => Inv
  <2>1. DispatcherInit => ActiveInv
    BY TasksArePositive DEF DispatcherInit, ActiveInv, ActiveIsOutstanding
  <2> QED
    BY <2>1, InitTypes, InitStart, InitPlace
<1>2. Inv /\ [DispatcherNext]_dispatcherVars => Inv'
  BY NextTypes, NextKeepsStart, NextKeepsPlaces, NextKeepsActive
<1>3. Inv => ActiveIsOutstanding
  BY DEF ActiveInv
<1> HIDE DEF Inv
<1> QED
  BY <1>1, <1>2, <1>3, PTL DEF Spec
=============================================================================
