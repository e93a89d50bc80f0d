--------------------------- MODULE RecoveryProofs ---------------------------
(***************************************************************************)
(* Recovery never skips a step of the actor, for any number of steps and   *)
(* restarts and any frequencies.  A crash may come between the weights and *)
(* recover_info, so the argument ties the weights on disk to the step that *)
(* recover_info names: they hold at least the steps before it (DiskInv),   *)
(* and no step more often than the run was started (CountInv).             *)
(***************************************************************************)
EXTENDS Recovery, SequenceTheorems, TLAPS

Inside == {"save", "save_critic", "checkpoint", "dump", "evaluate"}

FileNames == {"step_info", "saver_info", "evaluator_info", "stats_logger_info",
              "checkpoint_info", "dataloader_info"}

Counts == [Steps -> Nat]

\* Types, as far as the argument needs them; inside the loop the step exists.
RecoveryTypeInv ==
    /\ critic \in BOOLEAN /\ run_id \in Nat /\ step \in Nat /\ dumped \in Nat
    /\ pc \in Inside \cup {"train", "exit", "launch", "ended"}
    /\ pc \in Inside \cup {"train"} => step \in Steps
    /\ trained \in [{"default", "critic"} -> Counts]
    /\ weights \in [{"default", "critic"} -> Counts]
    /\ info = [f \in FileNames |-> info[f]]
    /\ \A f \in FileNames : "at" \in DOMAIN info[f] /\ info[f].at \in Int

Has(w, k) == \A s \in Steps : s < k => w[s] >= 1

\* What the trainer has in memory.
MemoryInv ==
    /\ pc \in {"train", "exit"} => Has(trained["default"], step)
    /\ pc \in Inside => Has(trained["default"], step + 1)

\* No step counts more than once for each start.
CountInv ==
    /\ Running => \A s \in Steps :
          /\ trained["default"][s] <= run_id + 1
          /\ s > step \/ (s = step /\ pc \notin Inside) => trained["default"][s] <= run_id
    /\ \A s \in Steps : weights["default"][s] <= IF pc = "launch" THEN run_id ELSE run_id + 1

\* What a restart finds.  While a checkpoint is written the weights come first,
\* then step_info, then the files that make recover_info readable.
DiskInv ==
    /\ Readable => Has(weights["default"], info["step_info"].at + 1)
    /\ Running /\ Readable => info["step_info"].at <= step
    /\ pc = "dump" =>
          /\ dumped < Len(Stages)
          /\ dumped >= 1 => Has(weights["default"], step + 1)
          /\ dumped > Len(Models) => info["step_info"].at = step

RecoveryInv == RecoveryTypeInv /\ MemoryInv /\ CountInv /\ DiskInv

\* The files of a checkpoint.
LEMMA FilesAre == ToSet(Files) = FileNames
BY DEF ToSet, Files, FileNames

\* The order in which a checkpoint is written.
LEMMA StagesAre ==
    ASSUME critic \in BOOLEAN
    PROVE  /\ Len(Models) \in {1, 2} /\ Len(Stages) = Len(Models) + 6
           /\ ToSet(Models) \subseteq {"default", "critic"}
           /\ Stages[1] = "default" /\ Stages[Len(Models) + 1] = "step_info"
           /\ \A k \in 1..Len(Stages) :
                 /\ k <= Len(Models) => Stages[k] \in ToSet(Models)
                 /\ k > Len(Models) => Stages[k] \in FileNames
<1> DEFINE Names == {"default", "critic"} \cup FileNames
<1>1. /\ Models \in Seq(Names) /\ Len(Models) \in {1, 2} /\ Models[1] = "default"
      /\ ToSet(Models) \subseteq {"default", "critic"}
      /\ \A k \in 1..Len(Models) : Models[k] \in ToSet(Models)
  <2>1. CASE critic
    <3>1. Models = <<"default", "critic">>
      BY <2>1 DEF Models
    <3>2. ToSet(Models) = {"default", "critic"}
      BY <3>1 DEF ToSet
    <3> QED
      BY <3>1, <3>2
  <2>2. CASE ~critic
    <3>1. Models = <<"default">>
      BY <2>2 DEF Models
    <3>2. ToSet(Models) = {"default"}
      BY <3>1 DEF ToSet
    <3> QED
      BY <3>1, <3>2
  <2> QED
    BY <2>1, <2>2
<1>2. /\ Files \in Seq(Names) /\ Len(Files) = 6 /\ Files[1] = "step_info"
      /\ \A k \in 1..6 : Files[k] \in FileNames
  BY DEF Files, FileNames
<1> HIDE DEF Names
<1>3. /\ Len(Models \o Files) = Len(Models) + Len(Files)
      /\ \A k \in 1..Len(Models) + Len(Files) :
            (Models \o Files)[k] = IF k <= Len(Models) THEN Models[k] ELSE Files[k - Len(Models)]
  <2>1. Models \in Seq(Names) /\ Files \in Seq(Names)
    BY <1>1, <1>2
  <2> QED
    BY <2>1, ConcatProperties, Zenon
<1>4. PICK n \in {1, 2} : n = Len(Models)
  BY <1>1
<1>5. Len(Stages) = n + 6
  BY <1>2, <1>3, <1>4 DEF Stages
<1>6. \A k \in 1..n + 6 :
         Stages[k] = IF k <= n THEN Models[k] ELSE Files[k - n]
  BY <1>2, <1>3, <1>4 DEF Stages
<1>7. Stages[1] = "default" /\ Stages[n + 1] = "step_info"
  BY <1>1, <1>2, <1>4, <1>6
<1>8. \A k \in 1..n + 6 : /\ k <= n => Stages[k] \in ToSet(Models)
                          /\ k > n => Stages[k] \in FileNames
  <2> SUFFICES ASSUME NEW k \in 1..n + 6
               PROVE  /\ k <= n => Stages[k] \in ToSet(Models)
                      /\ k > n => Stages[k] \in FileNames
    OBVIOUS
  <2>1. CASE k <= n
    <3>1. k \in 1..Len(Models) /\ Stages[k] = Models[k]
      BY <1>4, <1>6, <2>1
    <3> QED
      BY <1>1, <2>1, <3>1
  <2>2. CASE k > n
    <3>1. k - n \in 1..6 /\ Stages[k] = Files[k - n] /\ ~(k <= n)
      BY <1>4, <1>6, <2>2
    <3> QED
      BY <1>2, <3>1
  <2> QED
    BY <1>4, <2>1, <2>2
<1> QED
  BY <1>1, <1>4, <1>5, <1>7, <1>8

\* At first there is neither a model nor a checkpoint.
LEMMA InitInv == Init => RecoveryInv
<1> SUFFICES ASSUME Init PROVE RecoveryInv
  OBVIOUS
<1>1. RecoveryTypeInv
  <2>1. info = [f \in FileNames |-> NoFile] /\ NoFile = [at |-> -2, ctl |-> NewFreqCtl]
    BY FilesAre DEF Init, NoFile, Missing
  <2>2. "at" \in DOMAIN NoFile /\ NoFile.at \in Int
    BY <2>1
  <2>3. Untrained \in [{"default", "critic"} -> Counts]
    BY DEF Untrained, Counts
  <2> QED
    BY <2>1, <2>2, <2>3 DEF Init, RecoveryTypeInv, Inside
<1>2. MemoryInv /\ CountInv
  BY RecoveryAssumption DEF Init, MemoryInv, CountInv, Untrained, Has, Running, Inside, Steps
<1>3. ~Readable
  BY FilesAre DEF Init, Readable, NoFile, Missing, FileNames
<1> QED
  BY <1>1, <1>2, <1>3 DEF RecoveryInv, DiskInv, Init

\* A start takes the weights and the step that one checkpoint, or a later dump that
\* was cut off, has left: at least the steps before it.
LEMMA LaunchInv == ASSUME RecoveryInv, Launch PROVE RecoveryInv'
<1> USE DEF RecoveryInv
<1>1. CASE Readable
  <2>1. info["step_info"].at \in Int /\ info["step_info"].at >= 0
    BY <1>1, FilesAre DEF RecoveryTypeInv, Readable, FileNames
  <2>2. step' = info["step_info"].at + 1 /\ trained' = LoadedWeights
    BY <1>1 DEF Launch
  <2>3. trained'["default"] = weights["default"]
    BY <2>2 DEF LoadedWeights, Untrained
  <2>4. trained' \in [{"default", "critic"} -> Counts]
    BY <2>2 DEF LoadedWeights, Untrained, RecoveryTypeInv, Counts
  <2>5. /\ UNCHANGED <<critic, run_id, weights, info>> /\ dumped' = 0
        /\ pc = "launch" /\ pc' = IF step' < MaxSteps THEN "train" ELSE "exit"
    BY DEF Launch, Loop, diskVars
  <2>6. RecoveryTypeInv'
    BY <2>1, <2>2, <2>4, <2>5, RecoveryAssumption DEF RecoveryTypeInv, Inside, Steps
  <2>7. MemoryInv'
    BY <1>1, <2>2, <2>3, <2>5 DEF MemoryInv, DiskInv, Inside
  <2>8. CountInv'
    BY <2>3, <2>5 DEF CountInv, RecoveryTypeInv, Counts
  <2>9. DiskInv'
    BY <1>1, <2>1, <2>2, <2>5 DEF DiskInv, Readable
  <2> QED
    BY <2>6, <2>7, <2>8, <2>9
<1>2. CASE ~Readable
  <2>1. step' = 0 /\ trained' = Untrained /\ ~Readable'
    BY <1>2 DEF Launch, Readable, diskVars
  <2>2. /\ UNCHANGED <<critic, run_id, weights, info>> /\ dumped' = 0
        /\ pc = "launch" /\ pc' = IF step' < MaxSteps THEN "train" ELSE "exit"
    BY DEF Launch, Loop, diskVars
  <2>3. Untrained \in [{"default", "critic"} -> Counts]
        /\ \A s \in Steps : Untrained["default"][s] = 0
    BY DEF Untrained, Counts
  <2>4. RecoveryTypeInv'
    BY <2>1, <2>2, <2>3, RecoveryAssumption DEF RecoveryTypeInv, Inside, Steps
  <2>5. MemoryInv'
    BY <2>1, <2>2 DEF MemoryInv, Has, Inside, Steps
  <2>6. CountInv'
    BY <2>1, <2>2, <2>3 DEF CountInv, RecoveryTypeInv, Counts
  <2>7. DiskInv'
    BY <2>1, <2>2 DEF DiskInv
  <2> QED
    BY <2>4, <2>5, <2>6, <2>7
<1> QED
  BY <1>1, <1>2

\* A step of training adds the current step to the weights, once.
LEMMA TrainInv == ASSUME RecoveryInv, TrainStep PROVE RecoveryInv'
<1> USE DEF RecoveryInv
<1>1. ToSet(Models) \subseteq {"default", "critic"} /\ "default" \in ToSet(Models)
  BY DEF RecoveryTypeInv, ToSet, Models
<1>2. trained'["default"] = [trained["default"] EXCEPT ![step] = @ + 1]
  BY <1>1 DEF TrainStep, RecoveryTypeInv
<1>3. trained' \in [{"default", "critic"} -> Counts]
  BY DEF TrainStep, RecoveryTypeInv, Counts, Inside
<1>4. \A s \in Steps : trained'["default"][s]
                         = IF s = step THEN trained["default"][s] + 1 ELSE trained["default"][s]
  BY <1>2 DEF RecoveryTypeInv, Counts
<1>5. Readable' = Readable
  BY DEF TrainStep, diskVars, Readable
<1>6. RecoveryTypeInv'
  BY <1>3 DEF TrainStep, diskVars, RecoveryTypeInv, Inside
<1>7. MemoryInv'
  <2>1. pc = "train" /\ pc' = "save" /\ step' = step /\ step \in Steps
    BY DEF TrainStep, RecoveryTypeInv
  <2>2. \A s \in Steps : s < step => trained["default"][s] >= 1
    BY <2>1 DEF MemoryInv, Has
  <2>3. \A s \in Steps : trained["default"][s] \in Nat
    BY DEF RecoveryTypeInv, Counts
  <2>4. \A s \in Steps : s < step + 1 => trained'["default"][s] >= 1
    BY <1>4, <2>1, <2>2, <2>3 DEF Steps
  <2> QED
    BY <2>1, <2>4 DEF MemoryInv, Has, Inside
<1>8. CountInv'
  BY <1>4 DEF TrainStep, diskVars, CountInv, Running, Inside, RecoveryTypeInv, Counts, Steps
<1>9. DiskInv'
  BY <1>5 DEF TrainStep, diskVars, DiskInv, Running, Has
<1> QED
  BY <1>6, <1>7, <1>8, <1>9

\* Steps inside the loop that touch neither the weights nor recover_info.
LEMMA InsideInv ==
    ASSUME RecoveryInv, SaveActor \/ SaveCritic \/ BeginDump PROVE RecoveryInv'
<1> USE DEF RecoveryInv
<1>1. /\ UNCHANGED <<critic, run_id, step, trained, weights, info>>
      /\ pc \in Inside /\ pc' \in Inside /\ dumped' \in Nat
      /\ pc' = "dump" => dumped' = 0
  BY DEF SaveActor, SaveCritic, SaveHf, BeginDump, diskVars, Inside, RecoveryTypeInv
<1>2. Readable' = Readable /\ Len(Models)' = Len(Models) /\ Len(Stages)' = Len(Stages)
  BY <1>1 DEF Readable, Models, Stages
<1>3. Len(Models) \in Nat /\ Len(Stages) > 0
  BY StagesAre DEF RecoveryTypeInv
<1>4. RecoveryTypeInv' /\ MemoryInv'
  BY <1>1 DEF RecoveryTypeInv, MemoryInv, Inside
<1>5. CountInv'
  BY <1>1 DEF CountInv, Running, Inside
<1>6. DiskInv'
  BY <1>1, <1>2, <1>3 DEF DiskInv, Running, Inside
<1> QED
  BY <1>4, <1>5, <1>6

\* The weights of a checkpoint hold the current step before step_info names it.
LEMMA DumpInv == ASSUME RecoveryInv, DumpStage PROVE RecoveryInv'
<1> USE DEF RecoveryInv
<1> DEFINE stage == Stages[dumped + 1]
<1>1. /\ critic \in BOOLEAN /\ pc = "dump" /\ dumped \in Nat /\ dumped < Len(Stages)
      /\ step \in Nat /\ step \in Steps
  BY DEF DumpStage, RecoveryTypeInv, DiskInv, Inside
<1>2. /\ Len(Models) \in {1, 2} /\ dumped + 1 \in 1..Len(Stages)
      /\ ToSet(Models) \subseteq {"default", "critic"}
  BY <1>1, StagesAre
<1>3. /\ UNCHANGED <<critic, run_id, step, trained>> /\ dumped' = dumped + 1
      /\ pc' = IF dumped' = Len(Stages) THEN "evaluate" ELSE "dump"
      /\ Len(Models)' = Len(Models) /\ Len(Stages)' = Len(Stages)
  BY DEF DumpStage, Models, Stages
<1>4. CASE dumped < Len(Models)
  <2>1. stage \in ToSet(Models) /\ (dumped = 0 => stage = "default")
    BY <1>1, <1>2, <1>4, StagesAre
  <2>2. weights' = [weights EXCEPT ![stage] = trained[stage]] /\ UNCHANGED info
    BY <2>1 DEF DumpStage
  <2>3. Readable' = Readable
    BY <2>2 DEF Readable
  <2>4. \/ weights'["default"] = weights["default"] /\ dumped # 0
        \/ weights'["default"] = trained["default"]
    BY <2>1, <2>2 DEF RecoveryTypeInv
  <2>5. weights' \in [{"default", "critic"} -> Counts]
    BY <1>2, <2>1, <2>2 DEF RecoveryTypeInv
  <2>6. Has(trained["default"], step + 1)
    BY <1>1 DEF MemoryInv, Inside
  <2>7. Has(weights'["default"], step + 1)
    BY <1>1, <2>4, <2>6 DEF DiskInv
  <2>8. Readable => info["step_info"].at <= step /\ info["step_info"].at \in Int
    BY <1>1 DEF DiskInv, Running, RecoveryTypeInv, FileNames
  <2>9. Readable => Has(weights'["default"], info["step_info"].at + 1)
    BY <1>1, <2>7, <2>8 DEF Has, Steps
  <2>10. RecoveryTypeInv'
    BY <1>1, <1>3, <2>2, <2>5 DEF RecoveryTypeInv, Inside
  <2>11. MemoryInv'
    BY <1>1, <1>3 DEF MemoryInv, Inside
  <2>12. CountInv'
    BY <1>1, <1>3, <2>4 DEF CountInv, Running, Inside
  <2>13. DiskInv'
    BY <1>1, <1>2, <1>3, <1>4, <2>2, <2>3, <2>7, <2>8, <2>9, StagesAre DEF DiskInv
  <2> QED
    BY <2>10, <2>11, <2>12, <2>13
<1>5. CASE dumped >= Len(Models)
  <2>1. stage \in FileNames /\ (dumped = Len(Models) => stage = "step_info")
    BY <1>1, <1>2, <1>5, StagesAre
  <2>2. stage \notin ToSet(Models)
    BY <1>2, <2>1 DEF FileNames
  <2>3. info' = [info EXCEPT ![stage] = Content(stage)] /\ UNCHANGED weights
    BY <2>2 DEF DumpStage
  <2>4. Content(stage).at = step /\ "at" \in DOMAIN Content(stage)
    BY DEF Content
  <2>5. /\ info' = [f \in FileNames |-> info'[f]]
        /\ \A f \in FileNames : info'[f] = IF f = stage THEN Content(stage) ELSE info[f]
    BY <2>1, <2>3 DEF RecoveryTypeInv
  <2>6. info'["step_info"].at = step
    BY <1>1, <1>2, <1>5, <2>1, <2>4, <2>5 DEF DiskInv, FileNames
  <2> DEFINE n == Len(Models)
  <2>7. n \in {1, 2} /\ dumped >= n
    BY <1>2, <1>5
  <2> HIDE DEF n
  <2>8. dumped >= 1
    BY <1>1, <2>7
  <2>9. Has(weights["default"], step + 1)
    BY <1>1, <2>8 DEF DiskInv
  <2>10. RecoveryTypeInv'
    BY <1>1, <1>3, <2>3, <2>4, <2>5 DEF RecoveryTypeInv, Inside
  <2>11. MemoryInv'
    BY <1>1, <1>3 DEF MemoryInv, Inside
  <2>12. CountInv'
    BY <1>1, <1>3, <2>3 DEF CountInv, Running, Inside
  <2>13. DiskInv'
    BY <1>1, <1>2, <1>3, <1>5, <2>3, <2>6, <2>9 DEF DiskInv
  <2> QED
    BY <2>10, <2>11, <2>12, <2>13
<1> QED
  BY <1>1, <1>2, <1>4, <1>5

\* The step number moves on after its step has been trained.
LEMMA EvaluateInv == ASSUME RecoveryInv, Evaluate PROVE RecoveryInv'
<1> USE DEF RecoveryInv
<1>1. /\ UNCHANGED <<critic, run_id, trained, dumped, weights, info>> /\ step' = step + 1
      /\ pc = "evaluate" /\ pc' \in {"train", "exit"} /\ step \in Steps
      /\ pc' = "train" => step' < MaxSteps
  BY DEF Evaluate, diskVars, Loop, RecoveryTypeInv, Inside
<1>2. Readable' = Readable
  BY <1>1 DEF Readable
<1>3. RecoveryTypeInv'
  BY <1>1, RecoveryAssumption DEF RecoveryTypeInv, Inside, Steps
<1>4. MemoryInv' /\ CountInv'
  BY <1>1 DEF RecoveryTypeInv, MemoryInv, CountInv, Has, Running, Inside, Steps
<1>5. Readable => info["step_info"].at \in Int
  BY DEF RecoveryTypeInv, FileNames
<1>6. Readable => info["step_info"].at <= step + 1
  BY <1>1, <1>5 DEF RecoveryTypeInv, DiskInv, Running, Steps
<1>7. DiskInv'
  BY <1>1, <1>2, <1>6 DEF DiskInv
<1> QED
  BY <1>3, <1>4, <1>7

\* A crash leaves the weights on disk and at most makes recover_info unreadable.
LEMMA StopInv == ASSUME RecoveryInv, Exit \/ Crash PROVE RecoveryInv'
<1> USE DEF RecoveryInv
<1>1. /\ Running /\ pc' \in {"launch", "ended"}
      /\ run_id' = IF pc' = "launch" THEN run_id + 1 ELSE run_id
      /\ UNCHANGED <<critic, step, trained, dumped, weights>>
  BY DEF Exit, Crash, Relaunch, Running
<1>2. \/ UNCHANGED info
      \/ \E f \in FileNames : info' = [info EXCEPT ![f].at = Broken]
  BY FilesAre DEF Exit, Crash
<1>3. /\ info' = [f \in FileNames |-> info'[f]]
      /\ \A f \in FileNames : "at" \in DOMAIN info'[f] /\ info'[f].at \in Int
      /\ \A f \in FileNames : info'[f].at = info[f].at \/ info'[f].at = Broken
  BY <1>2 DEF RecoveryTypeInv, Broken
<1>4. Readable' => Readable /\ info'["step_info"].at = info["step_info"].at
  BY <1>3, FilesAre DEF Readable, FileNames, Broken
<1>5. RecoveryTypeInv' /\ MemoryInv'
  BY <1>1, <1>3 DEF RecoveryTypeInv, MemoryInv, Inside
<1>6. CountInv'
  BY <1>1 DEF CountInv, Running, RecoveryTypeInv
<1>7. DiskInv'
  BY <1>1, <1>4 DEF DiskInv, Running
<1> QED
  BY <1>5, <1>6, <1>7

\* A stuttering step changes nothing the invariant reads.
LEMMA StutterInv == ASSUME RecoveryInv, UNCHANGED vars PROVE RecoveryInv'
BY DEF vars, diskVars, RecoveryInv, RecoveryTypeInv, MemoryInv, CountInv, DiskInv, Has,
       Running, Readable, Models, Stages, Inside

\* The invariant says what the property asks of the weights in memory.
LEMMA InvImplies == RecoveryInv => EveryStepTrained
BY DEF RecoveryInv, RecoveryTypeInv, MemoryInv, CountInv, EveryStepTrained, HasEveryStep,
       Has, Running, Inside, Steps, Counts

\* The weights of the actor hold every step before the one the trainer is at, and
\* none more often than the run was started, wherever the run was cut off before.
THEOREM NoStepIsSkipped == Spec => []EveryStepTrained
<1>1. RecoveryInv /\ [Next]_vars => RecoveryInv'
  BY LaunchInv, TrainInv, InsideInv, DumpInv, EvaluateInv, StopInv, StutterInv DEF Next
<1> QED
  BY InitInv, <1>1, InvImplies, PTL DEF Spec
-----------------------------------------------------------------------------
(* The schedules.  Everything a control knows follows from the number of     *)
(* steps it has counted; a checkpoint keeps the controls of one such number. *)

ControlType == [steps : Int, last_steps : Int]

FreqCtlType == [epoch : ControlType, step : ControlType]

\* A control that has counted n and last fired at the last multiple of freq.
InPhase(c, freq, n) ==
    /\ c.steps = n
    /\ freq > 0 => \E q \in Nat : c.last_steps = q * freq /\ n - c.last_steps \in 0..freq - 1

\* The saver's control after n steps.
SaverAt(f, n) ==
    /\ InPhase(f.step, SaveSteps, n)
    /\ \E e \in Nat : /\ n - e * StepsPerEpoch \in 0..StepsPerEpoch - 1
                      /\ InPhase(f.epoch, SaveEpochs, e)

\* The steps the saver and the recover handler have counted.
Saved == IF pc \in {"checkpoint", "dump", "evaluate"} THEN step + 1 ELSE step
Checkpointed == IF pc \in {"dump", "evaluate"} THEN step + 1 ELSE step

ExportedBefore(n) == \A s \in Scheduled : s < n => s \in ExportsOf("default")

CtlTypeInv ==
    /\ pc # "save_critic"
    /\ ctl \in [{"saver", "recover", "evaluator"} -> FreqCtlType]
    /\ \A f \in FileNames : info[f] \in [at : Int, ctl : FreqCtlType]

\* The controls in memory.
MemoryCtlInv ==
    Running =>
        /\ SaverAt(ctl["saver"], Saved) /\ ExportedBefore(Saved)
        /\ ctl["recover"].step.steps = Checkpointed
        /\ ctl["evaluator"].step.steps \in step - run_id..step

\* The controls on disk, each of the step its file names.
DiskCtlInv ==
    LET saver == info["saver_info"]
        recover == info["checkpoint_info"]
        evaluator == info["evaluator_info"]
        runs == IF pc = "launch" THEN run_id - 1 ELSE run_id
    IN  /\ saver.at >= 0 =>
              SaverAt(saver.ctl, saver.at + 1) /\ ExportedBefore(saver.at + 1)
        /\ recover.at >= 0 => recover.ctl.step.steps = recover.at + 1
        /\ evaluator.at >= 0 =>
              evaluator.ctl.step.steps \in evaluator.at - runs..evaluator.at

ScheduleInv ==
    ~critic /\ ~torn =>
        /\ CtlTypeInv /\ ExportsOf("default") \subseteq Scheduled
        /\ MemoryCtlInv /\ DiskCtlInv

\* The remainder is the only number in range that differs by a multiple.
LEMMA Remainder ==
    ASSUME NEW d \in Nat \ {0}, NEW q \in Nat, NEW r \in 0..d - 1
    PROVE  (q * d + r) % d = r
<1> DEFINE n == q * d + r
           k == n \div d
           m == n % d
<1>1. n \in Nat
  OBVIOUS
<1>2. n = d * k + m /\ k \in Int /\ m \in 0..d - 1
  BY <1>1
<1>3. (k - q) * d = r - m
  BY <1>2
<1> HIDE DEF n, k, m
<1>4. k - q >= 1 => (k - q) * d >= d
  BY <1>2
<1>5. q - k >= 1 => (q - k) * d >= d
  BY <1>2
<1>6. (q - k) * d = m - r
  BY <1>2, <1>3
<1> QED
  BY <1>2, <1>3, <1>4, <1>5, <1>6 DEF m, n

\* The number after n is a multiple of d when n is the last of its period.
LEMMA NextMultiple ==
    ASSUME NEW d \in Nat \ {0}, NEW q \in Nat, NEW n \in Nat, n - q * d \in 0..d - 1
    PROVE  /\ n % d = n - q * d
           /\ (n + 1) % d = 0 <=> n - q * d = d - 1
<1> DEFINE r == n - q * d
<1>1. q * d \in Nat
  OBVIOUS
<1>2. n = q * d + r /\ r \in 0..d - 1
  BY <1>1
<1>3. n % d = r
  <2> HIDE DEF r
  <2>1. (q * d + r) % d = r
    BY <1>2, Remainder
  <2> QED
    BY <1>2, <2>1
<1>4. CASE r = d - 1
  <2>1. n + 1 = (q + 1) * d + 0
    BY <1>2, <1>4
  <2>2. ((q + 1) * d + 0) % d = 0
    <3>1. q + 1 \in Nat /\ 0 \in 0..d - 1
      OBVIOUS
    <3> QED
      BY <3>1, Remainder
  <2>3. (n + 1) % d = 0
    BY <2>1, <2>2
  <2> QED
    BY <1>3, <1>4, <2>3
<1>5. CASE r # d - 1
  <2>1. n + 1 = q * d + (r + 1)
    BY <1>2
  <2>2. r + 1 \in 0..d - 1
    BY <1>2, <1>5
  <2>3. (q * d + (r + 1)) % d = r + 1
    BY <2>2, Remainder
  <2>4. (n + 1) % d = r + 1 /\ r + 1 # 0
    BY <1>2, <2>1, <2>3
  <2> QED
    BY <1>3, <1>5, <2>4
<1> QED
  BY <1>4, <1>5

\* A control whose phase is known.
LEMMA PhaseIs ==
    ASSUME NEW c, NEW freq, NEW n, NEW q \in Nat, c.steps = n, c.last_steps = q * freq,
           n - c.last_steps \in 0..freq - 1
    PROVE  InPhase(c, freq, n)
BY Zenon DEF InPhase

\* A control fires at the multiples of its frequency, and not for nothing.
LEMMA ControlCounts ==
    ASSUME NEW c \in ControlType, NEW freq \in Nat, NEW n \in Nat, InPhase(c, freq, n)
    PROVE  /\ InPhase(Counted(c, freq, 1), freq, n + 1) /\ Counted(c, freq, 1) \in ControlType
           /\ Fires(c, freq, 1) <=> freq > 0 /\ (n + 1) % freq = 0
           /\ InPhase(Counted(c, freq, 0), freq, n) /\ Counted(c, freq, 0) \in ControlType
           /\ ~Fires(c, freq, 0)
<1>1. c.steps = n /\ c.last_steps \in Int /\ c.steps \in Int
  BY DEF InPhase, ControlType
<1>2. \A i \in {0, 1} : Counted(c, freq, i) \in ControlType /\ Counted(c, freq, i).steps = n + i
  BY <1>1 DEF Counted, ControlType
<1>3. CASE freq = 0
  <2>1. ~Fires(c, freq, 0) /\ ~Fires(c, freq, 1)
    BY <1>3 DEF Fires
  <2>2. InPhase(Counted(c, freq, 1), freq, n + 1) /\ InPhase(Counted(c, freq, 0), freq, n)
    BY <1>2, <1>3 DEF InPhase
  <2> QED
    BY <1>2, <1>3, <2>1, <2>2
<1>4. CASE freq > 0
  <2>1. PICK q \in Nat : c.last_steps = q * freq /\ n - c.last_steps \in 0..freq - 1
    BY <1>4 DEF InPhase
  <2>2. (n + 1) % freq = 0 <=> n - q * freq = freq - 1
    <3>1. freq \in Nat \ {0} /\ n - q * freq \in 0..freq - 1
      BY <1>4, <2>1
    <3> QED
      BY <3>1, NextMultiple
  <2>3. Fires(c, freq, 1) <=> n - q * freq = freq - 1
    BY <1>1, <1>4, <2>1 DEF Fires
  <2>4. ~Fires(c, freq, 0)
    BY <1>1, <1>4, <2>1 DEF Fires
  <2>5. InPhase(Counted(c, freq, 0), freq, n)
    <3>1. Counted(c, freq, 0).last_steps = c.last_steps
      BY <2>4 DEF Counted
    <3>2. Counted(c, freq, 0).steps = n
      BY <1>2
    <3> QED
      BY <2>1, <3>1, <3>2, PhaseIs
  <2>6. InPhase(Counted(c, freq, 1), freq, n + 1)
    <3>1. CASE Fires(c, freq, 1)
      <4>1. Counted(c, freq, 1).last_steps = n + 1
        BY <1>1, <3>1 DEF Counted
      <4>2. n + 1 = (q + 1) * freq /\ q + 1 \in Nat
        BY <2>1, <2>3, <3>1
      <4>3. (n + 1) - (n + 1) \in 0..freq - 1
        BY <1>4
      <4>4. Counted(c, freq, 1).steps = n + 1
        BY <1>2
      <4> DEFINE m == n + 1
                 x == Counted(c, freq, 1)
                 k == q + 1
      <4>5. k \in Nat /\ x.steps = m /\ x.last_steps = k * freq /\ m - x.last_steps \in 0..freq - 1
        BY <4>1, <4>2, <4>3, <4>4
      <4> HIDE DEF m, x, k
      <4>6. InPhase(x, freq, m)
        BY <4>5, PhaseIs
      <4> QED
        BY <4>6 DEF m, x
    <3>2. CASE ~Fires(c, freq, 1)
      <4>1. Counted(c, freq, 1).last_steps = c.last_steps
        BY <3>2 DEF Counted
      <4>2. (n + 1) - c.last_steps \in 0..freq - 1
        BY <1>1, <2>1, <2>3, <3>2
      <4>3. Counted(c, freq, 1).steps = n + 1
        BY <1>2
      <4> DEFINE m == n + 1
                 x == Counted(c, freq, 1)
      <4>4. x.steps = m /\ x.last_steps = q * freq /\ m - x.last_steps \in 0..freq - 1
        BY <2>1, <4>1, <4>2, <4>3
      <4> HIDE DEF m, x
      <4>5. InPhase(x, freq, m)
        BY <4>4, PhaseIs
      <4> QED
        BY <4>5 DEF m, x
    <3> QED
      BY <3>1, <3>2
  <2> QED
    BY <1>2, <1>4, <2>1, <2>2, <2>3, <2>4, <2>5, <2>6
<1> QED
  BY <1>3, <1>4

\* The last steps of every SaveEpochs-th epoch.
LEMMA EpochMultiple ==
    ASSUME NEW p \in Nat \ {0}, NEW freq \in Nat \ {0}, NEW e \in Nat, NEW n \in Nat,
           n - e * p \in 0..p - 1
    PROVE  (n + 1) % (freq * p) = 0 <=> n % p = p - 1 /\ (e + 1) % freq = 0
<1> DEFINE d == freq * p
<1>1. d \in Nat \ {0}
  OBVIOUS
<1>2. n % p = n - e * p /\ ((n + 1) % p = 0 <=> n - e * p = p - 1)
  BY NextMultiple
<1>3. ASSUME (n + 1) % d = 0 PROVE n % p = p - 1 /\ (e + 1) % freq = 0
  <2> DEFINE k == (n + 1) \div d
  <2>1. n + 1 = d * k /\ k \in Nat
    <3>1. n + 1 = d * k + ((n + 1) % d) /\ k \in Int
      BY <1>1
    <3> HIDE DEF d, k
    <3>2. k \in Nat
      <4>1. n + 1 >= 0 /\ n + 1 \in Nat
        OBVIOUS
      <4>2. n + 1 = d * k
        BY <1>1, <1>3, <3>1
      <4>3. k < 0 => d * k < 0
        BY <1>1, <3>1
      <4> QED
        BY <3>1, <4>1, <4>2, <4>3
    <3>3. n + 1 = d * k
      BY <1>1, <1>3, <3>1
    <3> QED
      BY <3>2, <3>3
  <2> HIDE DEF k
  <2>2. n + 1 = (k * freq) * p + 0 /\ k * freq \in Nat
    BY <2>1
  <2>3. (n + 1) % p = 0
    <3>1. 0 \in 0..p - 1
      OBVIOUS
    <3>2. ((k * freq) * p + 0) % p = 0
      BY <2>2, <3>1, Remainder
    <3> QED
      BY <2>2, <3>2
  <2>4. n - e * p = p - 1 /\ n % p = p - 1
    BY <1>2, <2>3
  <2>5. (e + 1) * p = (k * freq) * p
    BY <2>2, <2>4
  <2>6. e + 1 = k * freq
    <3> DEFINE x == k * freq
    <3>1. x \in Nat
      BY <2>2
    <3> HIDE DEF x
    <3>2. (e + 1 - x) * p = 0
      BY <2>5, <3>1 DEF x
    <3> QED
      BY <3>1, <3>2 DEF x
  <2>7. (k * freq + 0) % freq = 0
    <3>1. 0 \in 0..freq - 1
      OBVIOUS
    <3> QED
      BY <2>1, <3>1, Remainder
  <2> QED
    BY <2>2, <2>4, <2>6, <2>7
<1>4. ASSUME n % p = p - 1, (e + 1) % freq = 0 PROVE (n + 1) % d = 0
  <2> DEFINE k == (e + 1) \div freq
  <2>1. e + 1 = freq * k /\ k \in Nat
    <3>1. e + 1 = freq * k + ((e + 1) % freq) /\ k \in Int
      OBVIOUS
    <3>2. e + 1 = freq * k
      BY <1>4, <3>1
    <3>3. k < 0 => freq * k < 0
      BY <3>1
    <3> QED
      BY <3>1, <3>2, <3>3
  <2> HIDE DEF k
  <2>2. n + 1 = (e + 1) * p
    BY <1>2, <1>4
  <2>3. n + 1 = k * d + 0
    BY <2>1, <2>2
  <2>4. (k * d + 0) % d = 0
    <3>1. 0 \in 0..d - 1
      BY <1>1
    <3> HIDE DEF d
    <3> QED
      BY <1>1, <2>1, <3>1, Remainder
  <2> QED
    BY <2>3, <2>4
<1> QED
  BY <1>3, <1>4

\* The saver fires at the scheduled steps.
LEMMA SaverCounts ==
    ASSUME NEW f \in FreqCtlType, step \in Steps, SaverAt(f, step)
    PROVE  /\ SaverAt(Checked(f, SaveEpochs, SaveSteps), step + 1)
           /\ Due(f, SaveEpochs, SaveSteps) <=> step \in Scheduled
<1> DEFINE g == Checked(f, SaveEpochs, SaveSteps)
           p == StepsPerEpoch
<1>1. /\ step \in Nat /\ p \in Nat \ {0} /\ SaveSteps \in Nat /\ SaveEpochs \in Nat
      /\ f.step \in ControlType /\ f.epoch \in ControlType
  BY RecoveryAssumption DEF Steps, FreqCtlType
<1>2. InPhase(f.step, SaveSteps, step)
  BY DEF SaverAt
<1>3. PICK e : e \in Nat /\ step - e * p \in 0..p - 1 /\ InPhase(f.epoch, SaveEpochs, e)
  BY DEF SaverAt
<1>4. /\ g.step = Counted(f.step, SaveSteps, 1)
      /\ g.epoch = Counted(f.epoch, SaveEpochs, LastOfEpoch)
  BY DEF Checked
<1>5. /\ InPhase(g.step, SaveSteps, step + 1)
      /\ Fires(f.step, SaveSteps, 1) <=> SaveSteps > 0 /\ (step + 1) % SaveSteps = 0
  BY <1>1, <1>2, <1>4, ControlCounts
<1>6. /\ step % p = step - e * p
      /\ LastOfEpoch = IF step - e * p = p - 1 THEN 1 ELSE 0
  <2>1. step % p = step - e * p
    BY <1>1, <1>3, NextMultiple
  <2> QED
    BY <2>1 DEF LastOfEpoch
<1>7. /\ InPhase(Counted(f.epoch, SaveEpochs, 1), SaveEpochs, e + 1)
      /\ Fires(f.epoch, SaveEpochs, 1) <=> SaveEpochs > 0 /\ (e + 1) % SaveEpochs = 0
      /\ InPhase(Counted(f.epoch, SaveEpochs, 0), SaveEpochs, e)
      /\ ~Fires(f.epoch, SaveEpochs, 0)
  BY <1>1, <1>3, ControlCounts
<1>8. \E h \in Nat : (step + 1) - h * p \in 0..p - 1 /\ InPhase(g.epoch, SaveEpochs, h)
  <2>1. CASE step - e * p = p - 1
    <3>1. g.epoch = Counted(f.epoch, SaveEpochs, 1)
      BY <1>4, <1>6, <2>1
    <3>2. (step + 1) - (e + 1) * p = 0 /\ e + 1 \in Nat
      BY <1>1, <1>3, <2>1
    <3>3. (step + 1) - (e + 1) * p \in 0..p - 1
      BY <1>1, <3>2
    <3> QED
      BY <1>7, <3>1, <3>2, <3>3
  <2>2. CASE step - e * p # p - 1
    <3>1. g.epoch = Counted(f.epoch, SaveEpochs, 0)
      BY <1>4, <1>6, <2>2
    <3>2. (step + 1) - e * p \in 0..p - 1
      BY <1>1, <1>3, <2>2
    <3> QED
      BY <1>3, <1>7, <3>1, <3>2
  <2> QED
    BY <2>1, <2>2
<1>9. Fires(f.epoch, SaveEpochs, LastOfEpoch)
        <=> SaveEpochs > 0 /\ (step + 1) % (SaveEpochs * p) = 0
  <2>1. CASE SaveEpochs = 0
    BY <2>1 DEF Fires
  <2>2. CASE SaveEpochs > 0
    <3>1. (step + 1) % (SaveEpochs * p) = 0
             <=> step % p = p - 1 /\ (e + 1) % SaveEpochs = 0
      <4>1. SaveEpochs \in Nat \ {0}
        BY <1>1, <2>2
      <4>2. /\ p \in Nat \ {0} /\ e \in Nat /\ step \in Nat
            /\ step - e * p \in 0..p - 1
        BY <1>1, <1>3
      <4> HIDE DEF p
      <4> QED
        BY <4>1, <4>2, EpochMultiple, ZenonT(60)
    <3>2. CASE step - e * p = p - 1
      BY <1>6, <1>7, <2>2, <3>1, <3>2
    <3>3. CASE step - e * p # p - 1
      BY <1>6, <1>7, <2>2, <3>1, <3>3
    <3> QED
      BY <3>2, <3>3
  <2> QED
    BY <1>1, <2>1, <2>2
<1>10. SaverAt(g, step + 1)
  <2> HIDE DEF g
  <2>1. \E h \in Nat : /\ (step + 1) - h * StepsPerEpoch \in 0..StepsPerEpoch - 1
                      /\ InPhase(g.epoch, SaveEpochs, h)
    BY <1>8
  <2> QED
    BY <1>5, <2>1, Zenon DEF SaverAt
<1>11. Due(f, SaveEpochs, SaveSteps) <=> step \in Scheduled
  BY <1>5, <1>9 DEF Due, Scheduled
<1> QED
  BY <1>10, <1>11

\* A control that has counted nothing.
LEMMA NewCtlIs ==
    /\ NewCtl \in [{"saver", "recover", "evaluator"} -> FreqCtlType]
    /\ NewFreqCtl \in FreqCtlType /\ SaverAt(NewFreqCtl, 0)
    /\ NewFreqCtl.step.steps = 0
<1>1. NewFreqCtl \in FreqCtlType /\ NewFreqCtl.step.steps = 0
  BY DEF NewFreqCtl, NewControl, FreqCtlType, ControlType
<1>2. ASSUME NEW freq \in Nat PROVE InPhase(NewControl, freq, 0)
  <2>1. NewControl.steps = 0 /\ NewControl.last_steps = 0 * freq
    BY DEF NewControl
  <2>2. freq > 0 => 0 - NewControl.last_steps \in 0..freq - 1
    BY DEF NewControl
  <2> QED
    BY <2>1, <2>2 DEF InPhase
<1>3. 0 - 0 * StepsPerEpoch \in 0..StepsPerEpoch - 1 /\ 0 \in Nat
  BY RecoveryAssumption
<1>4. InPhase(NewFreqCtl.step, SaveSteps, 0) /\ InPhase(NewFreqCtl.epoch, SaveEpochs, 0)
  BY <1>2, RecoveryAssumption DEF NewFreqCtl
<1>5. SaverAt(NewFreqCtl, 0)
  BY <1>3, <1>4, Zenon DEF SaverAt
<1> QED
  BY <1>1, <1>5 DEF NewCtl

\* What a check makes of a control, whatever its frequencies.
LEMMA CheckedIs ==
    ASSUME NEW f \in FreqCtlType, NEW epochs, NEW steps
    PROVE  /\ Checked(f, epochs, steps) \in FreqCtlType
           /\ Checked(f, epochs, steps).step.steps = f.step.steps + 1
<1>1. f.step \in ControlType /\ f.epoch \in ControlType
  BY DEF FreqCtlType
<1>2. ASSUME NEW c \in ControlType, NEW freq, NEW n \in Int
      PROVE  Counted(c, freq, n) \in ControlType /\ Counted(c, freq, n).steps = c.steps + n
  <2>1. c.steps + n \in Int /\ c.last_steps \in Int
    BY DEF ControlType
  <2> QED
    BY <2>1 DEF Counted, ControlType
<1>3. LastOfEpoch \in Int
  BY DEF LastOfEpoch
<1> QED
  BY <1>1, <1>2, <1>3 DEF Checked, FreqCtlType

\* No checkpoint and no export at first.
LEMMA InitSchedule == Init => ScheduleInv
<1> SUFFICES ASSUME Init PROVE ScheduleInv
  OBVIOUS
<1>1. /\ info = [f \in FileNames |-> NoFile] /\ ctl = NewCtl /\ exported = {} /\ pc = "launch"
  BY FilesAre DEF Init
<1>2. CtlTypeInv
  BY <1>1, NewCtlIs DEF CtlTypeInv, NoFile, Missing
<1>3. DiskCtlInv
  BY <1>1 DEF DiskCtlInv, NoFile, Missing, FileNames
<1>4. MemoryCtlInv /\ ExportsOf("default") \subseteq Scheduled
  BY <1>1 DEF MemoryCtlInv, Running, ExportsOf
<1> QED
  BY <1>2, <1>3, <1>4 DEF ScheduleInv

\* The controls taken from the files of one checkpoint continue where it was made.
LEMMA LaunchSchedule == ASSUME RecoveryInv, ScheduleInv, Launch PROVE ScheduleInv'
<1> SUFFICES ASSUME ~critic', ~torn' PROVE ScheduleInv'
  BY DEF ScheduleInv
<1>1. /\ pc = "launch" /\ pc' \in {"train", "exit"}
      /\ UNCHANGED <<critic, run_id, info, exported>> /\ ~critic /\ ~torn
      /\ run_id \in Nat
  BY DEF Launch, Loop, diskVars, RecoveryInv, RecoveryTypeInv
<1>2. /\ CtlTypeInv /\ ExportsOf("default") \subseteq Scheduled /\ DiskCtlInv
  BY <1>1 DEF ScheduleInv
<1>3. Saved' = step' /\ Checkpointed' = step'
  BY <1>1 DEF Saved, Checkpointed
<1>4. /\ \A f \in FileNames : info[f].at \in Int
      /\ info["evaluator_info"].ctl.step.steps \in Int
  BY <1>2 DEF CtlTypeInv, FileNames, FreqCtlType, ControlType
<1>5. DiskCtlInv'
  BY <1>1, <1>2, <1>4 DEF DiskCtlInv, FileNames, ExportedBefore, ExportsOf
<1>6. CASE Readable
  <2> DEFINE a == info["step_info"].at
  <2>1. a >= 0 /\ a \in Int /\ \A f \in FileNames : info[f].at = a
    BY <1>4, <1>6, FilesAre DEF Launch, Readable, FileNames
  <2>2. step' = a + 1 /\ ctl' = Restored
    BY <1>6 DEF Launch
  <2>3. CtlTypeInv'
    BY <1>1, <1>2, <2>2 DEF CtlTypeInv, Restored, FileNames
  <2>4. /\ SaverAt(ctl'["saver"], a + 1) /\ ExportedBefore(a + 1)
        /\ ctl'["recover"].step.steps = a + 1
        /\ ctl'["evaluator"].step.steps \in a - (run_id - 1)..a
    BY <1>1, <1>2, <2>1, <2>2 DEF DiskCtlInv, Restored, FileNames
  <2>5. ctl'["evaluator"].step.steps \in step' - run_id..step'
    BY <1>1, <2>1, <2>2, <2>4
  <2>6. MemoryCtlInv'
    BY <1>1, <1>3, <2>2, <2>4, <2>5 DEF MemoryCtlInv, ExportedBefore, ExportsOf
  <2> QED
    BY <1>1, <1>2, <1>5, <2>3, <2>6 DEF ScheduleInv, ExportsOf
<1>7. CASE ~Readable
  <2>1. step' = 0 /\ ctl' = NewCtl
    BY <1>7 DEF Launch
  <2>2. CtlTypeInv'
    BY <1>1, <1>2, <2>1, NewCtlIs DEF CtlTypeInv
  <2>3. /\ \A f \in {"saver", "recover", "evaluator"} : ctl'[f] = NewFreqCtl
    BY <2>1 DEF NewCtl
  <2>4. 0 \in 0 - run_id..0
    BY <1>1
  <2>5. ExportedBefore(0)'
    BY DEF ExportedBefore, Scheduled, Steps
  <2>6. MemoryCtlInv'
    BY <1>1, <1>3, <2>1, <2>3, <2>4, <2>5, NewCtlIs DEF MemoryCtlInv
  <2> QED
    BY <1>1, <1>2, <1>5, <2>2, <2>6 DEF ScheduleInv, ExportsOf
<1> QED
  BY <1>6, <1>7

\* Steps that leave the controls, the exports and recover_info as they are.
LEMMA SameSchedule ==
    ASSUME ScheduleInv, UNCHANGED <<critic, run_id, step, ctl, info, exported, torn>>,
           Running, Running', pc' # "save_critic",
           Saved' = Saved, Checkpointed' = Checkpointed
    PROVE  ScheduleInv'
<1> SUFFICES ASSUME ~critic', ~torn' PROVE ScheduleInv'
  BY DEF ScheduleInv
<1>1. CtlTypeInv /\ ExportsOf("default") \subseteq Scheduled /\ MemoryCtlInv /\ DiskCtlInv
  BY DEF ScheduleInv
<1>2. CtlTypeInv' /\ (ExportsOf("default") \subseteq Scheduled)'
  BY <1>1 DEF CtlTypeInv, ExportsOf
<1>3. MemoryCtlInv'
  BY <1>1 DEF MemoryCtlInv, ExportedBefore, ExportsOf
<1>4. DiskCtlInv'
  BY <1>1 DEF DiskCtlInv, ExportedBefore, ExportsOf, Running
<1> QED
  BY <1>2, <1>3, <1>4 DEF ScheduleInv

\* The saver exports at the scheduled steps.
LEMMA SaveSchedule == ASSUME RecoveryInv, ScheduleInv, SaveActor PROVE ScheduleInv'
<1> SUFFICES ASSUME ~critic', ~torn' PROVE ScheduleInv'
  BY DEF ScheduleInv
<1> DEFINE f == ctl["saver"]
           due == Due(f, SaveEpochs, SaveSteps)
           next == Checked(f, SaveEpochs, SaveSteps)
<1>1. /\ pc = "save" /\ pc' = "checkpoint" /\ UNCHANGED <<critic, run_id, step, info, torn>>
      /\ ~critic /\ ~torn /\ step \in Steps
      /\ ctl' = [ctl EXCEPT !["saver"] = next]
      /\ exported' = IF due THEN exported \cup {<<"default", step>>} ELSE exported
  BY DEF SaveActor, SaveHf, RecoveryInv, RecoveryTypeInv, Inside
<1>2. CtlTypeInv /\ ExportsOf("default") \subseteq Scheduled /\ MemoryCtlInv /\ DiskCtlInv
  BY <1>1 DEF ScheduleInv
<1>3. /\ Running /\ Running' /\ Saved = step /\ Saved' = step + 1
      /\ Checkpointed' = Checkpointed
  BY <1>1 DEF Running, Saved, Checkpointed
<1>4. /\ f \in FreqCtlType /\ SaverAt(f, step) /\ ExportedBefore(step)
  BY <1>2, <1>3 DEF CtlTypeInv, MemoryCtlInv
<1> HIDE DEF f, due, next
<1>5. SaverAt(next, step + 1) /\ (due <=> step \in Scheduled) /\ next \in FreqCtlType
  BY <1>1, <1>4, SaverCounts, CheckedIs DEF due, next
<1>6. /\ ctl'["saver"] = next /\ ctl'["recover"] = ctl["recover"]
      /\ ctl'["evaluator"] = ctl["evaluator"]
      /\ ctl' \in [{"saver", "recover", "evaluator"} -> FreqCtlType]
  BY <1>1, <1>2, <1>5 DEF CtlTypeInv
<1>7. \A s \in Steps : s \in ExportsOf("default")' <=> s \in ExportsOf("default") \/ (s = step /\ due)
  BY <1>1 DEF ExportsOf
<1>8. CtlTypeInv' /\ (ExportsOf("default") \subseteq Scheduled)'
  <2>1. ExportsOf("default")' \subseteq Steps
    BY DEF ExportsOf
  <2> QED
    BY <1>1, <1>2, <1>5, <1>6, <1>7, <2>1 DEF CtlTypeInv
<1>9. ExportedBefore(step + 1)'
  BY <1>1, <1>4, <1>5, <1>7 DEF ExportedBefore, Scheduled, Steps
<1>10. MemoryCtlInv'
  BY <1>1, <1>2, <1>3, <1>5, <1>6, <1>9 DEF MemoryCtlInv
<1>11. DiskCtlInv'
  <2>1. ASSUME NEW n, ExportedBefore(n) PROVE ExportedBefore(n)'
    BY <1>7, <2>1 DEF ExportedBefore, Scheduled
  <2> QED
    BY <1>1, <1>2, <2>1 DEF DiskCtlInv
<1> QED
  BY <1>8, <1>10, <1>11 DEF ScheduleInv

\* The recover handler counts the step before it writes.
LEMMA BeginSchedule == ASSUME RecoveryInv, ScheduleInv, BeginDump PROVE ScheduleInv'
<1> SUFFICES ASSUME ~critic', ~torn' PROVE ScheduleInv'
  BY DEF ScheduleInv
<1> DEFINE next == Checked(ctl["recover"], RecoverEpochs, RecoverSteps)
<1>1. /\ pc = "checkpoint" /\ pc' \in {"dump", "evaluate"}
      /\ UNCHANGED <<critic, run_id, step, info, exported, torn>>
      /\ ~critic /\ ~torn /\ ctl' = [ctl EXCEPT !["recover"] = next]
  BY DEF BeginDump, diskVars
<1>2. CtlTypeInv /\ ExportsOf("default") \subseteq Scheduled /\ MemoryCtlInv /\ DiskCtlInv
  BY <1>1 DEF ScheduleInv
<1>3. /\ Running /\ Running' /\ Saved' = Saved /\ Checkpointed = step
      /\ Checkpointed' = step + 1
  BY <1>1 DEF Running, Saved, Checkpointed
<1>4. ctl["recover"] \in FreqCtlType
  BY <1>2 DEF CtlTypeInv
<1>5. next \in FreqCtlType /\ next.step.steps = step + 1
  BY <1>2, <1>3, <1>4, CheckedIs DEF MemoryCtlInv
<1> HIDE DEF next
<1>6. /\ ctl'["saver"] = ctl["saver"] /\ ctl'["recover"] = next
      /\ ctl'["evaluator"] = ctl["evaluator"]
      /\ ctl' \in [{"saver", "recover", "evaluator"} -> FreqCtlType]
  BY <1>1, <1>2, <1>5 DEF CtlTypeInv
<1>7. CtlTypeInv' /\ (ExportsOf("default") \subseteq Scheduled)'
  BY <1>1, <1>2, <1>6 DEF CtlTypeInv, ExportsOf
<1>8. MemoryCtlInv'
  BY <1>1, <1>2, <1>3, <1>5, <1>6 DEF MemoryCtlInv, ExportedBefore, ExportsOf
<1>9. DiskCtlInv'
  BY <1>1, <1>2 DEF DiskCtlInv, ExportedBefore, ExportsOf
<1> QED
  BY <1>7, <1>8, <1>9 DEF ScheduleInv

\* Each file takes the controls as they are in the step it names.
LEMMA DumpSchedule == ASSUME RecoveryInv, ScheduleInv, DumpStage PROVE ScheduleInv'
<1> SUFFICES ASSUME ~critic', ~torn' PROVE ScheduleInv'
  BY DEF ScheduleInv
<1> DEFINE stage == Stages[dumped + 1]
<1>1. /\ pc = "dump" /\ pc' \in {"dump", "evaluate"}
      /\ UNCHANGED <<critic, run_id, step, ctl, exported, torn>>
      /\ ~critic /\ ~torn /\ step \in Nat
  BY DEF DumpStage, RecoveryInv, RecoveryTypeInv
<1>2. /\ Running /\ Running' /\ Saved = step + 1 /\ Saved' = Saved
      /\ Checkpointed = step + 1 /\ Checkpointed' = Checkpointed
  BY <1>1 DEF Running, Saved, Checkpointed
<1>3. CASE stage \in ToSet(Models)
  BY <1>1, <1>2, <1>3, SameSchedule DEF DumpStage
<1>4. CASE stage \notin ToSet(Models)
  <2>1. stage \in FileNames
    <3>1. critic \in BOOLEAN
      BY DEF RecoveryInv, RecoveryTypeInv
    <3>2. dumped + 1 \in 1..Len(Stages) /\ Len(Models) \in {1, 2} /\ dumped + 1 \in Nat
      BY <1>1, <3>1, StagesAre DEF RecoveryInv, RecoveryTypeInv, DiskInv
    <3>3. dumped + 1 <= Len(Models) \/ dumped + 1 > Len(Models)
      BY <3>2
    <3> QED
      BY <1>4, <3>1, <3>2, <3>3, StagesAre
  <2>2. info' = [info EXCEPT ![stage] = Content(stage)]
    BY <1>4 DEF DumpStage
  <2>3. CtlTypeInv /\ ExportsOf("default") \subseteq Scheduled /\ MemoryCtlInv /\ DiskCtlInv
    BY <1>1 DEF ScheduleInv
  <2> HIDE DEF stage
  <2>4. /\ info' = [f \in FileNames |-> info'[f]]
        /\ \A f \in FileNames : info'[f] = IF f = stage THEN Content(f) ELSE info[f]
    BY <2>1, <2>2 DEF RecoveryInv, RecoveryTypeInv
  <2>5. Content(stage) \in [at : Int, ctl : FreqCtlType]
    BY <1>1, <2>3, NewCtlIs DEF Content, CtlTypeInv
  <2>6. CtlTypeInv' /\ (ExportsOf("default") \subseteq Scheduled)'
    BY <1>1, <2>3, <2>4, <2>5 DEF CtlTypeInv, ExportsOf
  <2>7. MemoryCtlInv'
    BY <1>1, <1>2, <2>3 DEF MemoryCtlInv, ExportedBefore, ExportsOf
  <2>8. /\ SaverAt(ctl["saver"], step + 1) /\ ExportedBefore(step + 1)
        /\ ctl["recover"].step.steps = step + 1
        /\ ctl["evaluator"].step.steps \in step - run_id..step
    BY <1>2, <2>3 DEF MemoryCtlInv
  <2>9. /\ Content("saver_info").at = step /\ Content("saver_info").ctl = ctl["saver"]
        /\ Content("checkpoint_info").at = step
        /\ Content("checkpoint_info").ctl = ctl["recover"]
        /\ Content("evaluator_info").at = step
        /\ Content("evaluator_info").ctl = ctl["evaluator"]
    BY DEF Content
  <2>10. DiskCtlInv'
    <3>1. (info["saver_info"].at >= 0 =>
             /\ SaverAt(info["saver_info"].ctl, info["saver_info"].at + 1)
             /\ ExportedBefore(info["saver_info"].at + 1))'
      <4>1. CASE stage = "saver_info"
        <5>1. info'["saver_info"].at = step /\ info'["saver_info"].ctl = ctl["saver"]
          BY <2>4, <2>9, <4>1 DEF FileNames
        <5> QED
          BY <1>1, <2>8, <5>1 DEF ExportedBefore, ExportsOf
      <4>2. CASE stage # "saver_info"
        <5>1. info'["saver_info"] = info["saver_info"]
          BY <2>4, <4>2 DEF FileNames
        <5> QED
          BY <1>1, <2>3, <5>1 DEF DiskCtlInv, ExportedBefore, ExportsOf
      <4> QED
        BY <4>1, <4>2
    <3>2. info'["checkpoint_info"].at >= 0 =>
             info'["checkpoint_info"].ctl.step.steps = info'["checkpoint_info"].at + 1
      BY <2>3, <2>4, <2>8, <2>9 DEF DiskCtlInv, FileNames
    <3>3. info'["evaluator_info"].at >= 0 =>
             info'["evaluator_info"].ctl.step.steps
                \in info'["evaluator_info"].at - run_id..info'["evaluator_info"].at
      BY <1>1, <2>3, <2>4, <2>8, <2>9 DEF DiskCtlInv, FileNames
    <3> QED
      BY <1>1, <3>1, <3>2, <3>3 DEF DiskCtlInv
  <2> QED
    BY <2>6, <2>7, <2>10 DEF ScheduleInv
<1> QED
  BY <1>3, <1>4

\* The evaluator counts the step last, and the next step begins.
LEMMA EvaluateSchedule == ASSUME RecoveryInv, ScheduleInv, Evaluate PROVE ScheduleInv'
<1> SUFFICES ASSUME ~critic', ~torn' PROVE ScheduleInv'
  BY DEF ScheduleInv
<1> DEFINE next == Checked(ctl["evaluator"], EvalEpochs, EvalSteps)
<1>1. /\ pc = "evaluate" /\ pc' \in {"train", "exit"} /\ step' = step + 1 /\ step \in Nat
      /\ UNCHANGED <<critic, run_id, info, exported, torn>> /\ run_id \in Nat
      /\ ~critic /\ ~torn /\ ctl' = [ctl EXCEPT !["evaluator"] = next]
  BY DEF Evaluate, Loop, diskVars, RecoveryInv, RecoveryTypeInv
<1>2. CtlTypeInv /\ ExportsOf("default") \subseteq Scheduled /\ MemoryCtlInv /\ DiskCtlInv
  BY <1>1 DEF ScheduleInv
<1>3. /\ Running /\ Running' /\ Saved = step + 1 /\ Saved' = step + 1
      /\ Checkpointed = step + 1 /\ Checkpointed' = step + 1
  BY <1>1 DEF Running, Saved, Checkpointed
<1>4. ctl["evaluator"] \in FreqCtlType
  BY <1>2 DEF CtlTypeInv
<1>5. next \in FreqCtlType /\ next.step.steps \in (step + 1) - run_id..step + 1
  <2>1. ctl["evaluator"].step.steps \in step - run_id..step
    BY <1>2, <1>3 DEF MemoryCtlInv
  <2>2. next \in FreqCtlType /\ next.step.steps = ctl["evaluator"].step.steps + 1
    BY <1>4, CheckedIs
  <2> QED
    BY <1>1, <2>1, <2>2
<1> HIDE DEF next
<1>6. /\ ctl'["saver"] = ctl["saver"] /\ ctl'["recover"] = ctl["recover"]
      /\ ctl'["evaluator"] = next
      /\ ctl' \in [{"saver", "recover", "evaluator"} -> FreqCtlType]
  BY <1>1, <1>2, <1>5 DEF CtlTypeInv
<1>7. CtlTypeInv' /\ (ExportsOf("default") \subseteq Scheduled)'
  BY <1>1, <1>2, <1>6 DEF CtlTypeInv, ExportsOf
<1>8. MemoryCtlInv'
  BY <1>1, <1>2, <1>3, <1>5, <1>6 DEF MemoryCtlInv, ExportedBefore, ExportsOf
<1>9. DiskCtlInv'
  BY <1>1, <1>2 DEF DiskCtlInv, ExportedBefore, ExportsOf
<1> QED
  BY <1>7, <1>8, <1>9 DEF ScheduleInv

\* A crash leaves the files as they are, but for one that is cut off.
LEMMA StopSchedule == ASSUME RecoveryInv, ScheduleInv, Exit \/ Crash PROVE ScheduleInv'
<1> SUFFICES ASSUME ~critic', ~torn' PROVE ScheduleInv'
  BY DEF ScheduleInv
<1>1. /\ Running /\ pc' \in {"launch", "ended"} /\ run_id \in Nat
      /\ run_id' = IF pc' = "launch" THEN run_id + 1 ELSE run_id
      /\ UNCHANGED <<critic, ctl, exported, torn>> /\ ~critic /\ ~torn
  BY DEF Exit, Crash, Relaunch, Running, RecoveryInv, RecoveryTypeInv
<1>2. CtlTypeInv /\ ExportsOf("default") \subseteq Scheduled /\ DiskCtlInv
  BY <1>1 DEF ScheduleInv
<1>3. \/ UNCHANGED info
      \/ \E f \in FileNames : info' = [info EXCEPT ![f].at = Broken]
  BY FilesAre DEF Exit, Crash
<1>4. /\ info' = [f \in FileNames |-> info'[f]]
      /\ \A f \in FileNames : /\ info'[f] \in [at : Int, ctl : FreqCtlType]
                              /\ info'[f].at >= 0 => info'[f] = info[f]
  BY <1>2, <1>3 DEF RecoveryInv, RecoveryTypeInv, CtlTypeInv, Broken
<1>5. CtlTypeInv' /\ (ExportsOf("default") \subseteq Scheduled)'
  BY <1>1, <1>2, <1>4 DEF CtlTypeInv, ExportsOf
<1>6. MemoryCtlInv'
  BY <1>1 DEF MemoryCtlInv, Running
<1>7. DiskCtlInv'
  <2>1. (IF pc' = "launch" THEN run_id' - 1 ELSE run_id') = run_id
    BY <1>1
  <2>2. pc # "launch"
    BY <1>1 DEF Running
  <2>3. ASSUME NEW n, ExportedBefore(n) PROVE ExportedBefore(n)'
    BY <1>1, <2>3 DEF ExportedBefore, ExportsOf
  <2> QED
    BY <1>2, <1>4, <2>1, <2>2, <2>3 DEF DiskCtlInv, FileNames
<1> QED
  BY <1>5, <1>6, <1>7 DEF ScheduleInv

\* Every step keeps the schedules.
LEMMA NextSchedule ==
    ASSUME RecoveryInv, ScheduleInv, [Next]_vars
    PROVE  ScheduleInv'
<1>1. CASE TrainStep
  <2>1. /\ UNCHANGED <<critic, run_id, step, ctl, info, exported, torn>>
        /\ pc = "train" /\ pc' = "save"
    BY <1>1 DEF TrainStep, diskVars
  <2> QED
    BY <2>1, SameSchedule DEF Running, Saved, Checkpointed
<1>2. CASE SaveCritic
  <2>1. critic' \/ torn'
    BY <1>2 DEF SaveCritic, SaveHf, ScheduleInv, CtlTypeInv
  <2> QED
    BY <2>1 DEF ScheduleInv
<1>3. CASE UNCHANGED vars
  BY <1>3 DEF vars, diskVars, ScheduleInv, CtlTypeInv, MemoryCtlInv, DiskCtlInv, Running, Saved,
     Checkpointed, ExportedBefore, ExportsOf
<1> QED
  BY <1>1, <1>2, <1>3, LaunchSchedule, SaveSchedule, BeginSchedule, DumpSchedule,
     EvaluateSchedule, StopSchedule DEF Next

\* At the start of a step the controls are those of a run that was never stopped.
LEMMA ScheduleImplies == ScheduleInv => SchedulesSurvive
BY DEF ScheduleInv, MemoryCtlInv, SchedulesSurvive, Running, Saved, Checkpointed,
       ExportedBefore

\* However often a run is started again, the actor is exported after the scheduled steps
\* and no others, and the controls have counted what they would have without a restart.
THEOREM SchedulesAreKept == Spec => []SchedulesSurvive
<1>1. RecoveryInv /\ [Next]_vars => RecoveryInv'
  BY LaunchInv, TrainInv, InsideInv, DumpInv, EvaluateInv, StopInv, StutterInv DEF Next
<1>2. RecoveryInv /\ ScheduleInv /\ [Next]_vars => ScheduleInv'
  BY NextSchedule
<1> QED
  BY InitInv, InitSchedule, <1>1, <1>2, ScheduleImplies, PTL DEF Spec
=============================================================================
