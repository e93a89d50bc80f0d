------------------------------ MODULE Recovery -------------------------------
(***************************************************************************)
(* Checkpoints and restarts of a training run (areal/utils/recover.py,     *)
(* saver.py, evaluator.py, timeutil.py, the loop of rl_trainer.py and the  *)
(* local launcher).  After each step the trainer exports the models,       *)
(* overwrites the only recovery checkpoint and evaluates, each when its    *)
(* frequency control says so.  The run may crash anywhere, also between    *)
(* two files of a checkpoint; the launcher then starts it again, and       *)
(* RecoverHandler.load takes up whatever the files hold.                   *)
(***************************************************************************)
EXTENDS Integers, Sequences, SequencesExt

CONSTANTS
    MaxSteps, StepsPerEpoch,
    SaveSteps, SaveEpochs,        \* freq_steps and freq_epochs of the saver,
    RecoverSteps, RecoverEpochs,  \* of the recovery checkpoints
    EvalSteps, EvalEpochs,        \* and of the evaluator; 0 is None
    Retries                       \* config.recover.retries

ASSUME RecoveryAssumption ==
    /\ MaxSteps \in Nat \ {0} /\ StepsPerEpoch \in Nat \ {0}
    /\ SaveSteps \in Nat /\ SaveEpochs \in Nat
    /\ RecoverSteps \in Nat /\ RecoverEpochs \in Nat
    /\ EvalSteps \in Nat /\ EvalEpochs \in Nat
    /\ Retries \in Nat

VARIABLES
    critic,     \* whether there is a critic besides the actor
    pc,         \* where the trainer is, or "launch", "ended"
    run_id,
    step,       \* global_step
    trained,    \* per model, how often each step is in its weights
    ctl,        \* the frequency controls of saver, recover handler, evaluator
    dumped,     \* stages of the checkpoint in progress that are written
    weights,    \* disk: recover_checkpoint of each model
    info,       \* disk: the files of recover_info
    exported,   \* disk: models exported, with their step
    torn        \* history: a run was recovered from files of two checkpoints

diskVars == <<weights, info, exported>>
vars == <<critic, pc, run_id, step, trained, ctl, dumped, diskVars, torn>>

Steps == 0..MaxSteps - 1

-----------------------------------------------------------------------------
(* EpochStepTimeFreqCtl, without its clock: freq_secs is None. *)

NewControl == [steps |-> 0, last_steps |-> 0]
NewFreqCtl == [epoch |-> NewControl, step |-> NewControl]

\* FrequencyControl.check.  initial_value, which only eval_before_train sets, is off.
Fires(c, freq, n) == freq > 0 /\ c.steps + n - c.last_steps >= freq

Counted(c, freq, n) ==
    [steps |-> c.steps + n,
     last_steps |-> IF Fires(c, freq, n) THEN c.steps + n ELSE c.last_steps]

LastOfEpoch == IF step % StepsPerEpoch = StepsPerEpoch - 1 THEN 1 ELSE 0

Due(f, epochs, steps) ==
    Fires(f.epoch, epochs, LastOfEpoch) \/ Fires(f.step, steps, 1)

Checked(f, epochs, steps) ==
    [epoch |-> Counted(f.epoch, epochs, LastOfEpoch),
     step |-> Counted(f.step, steps, 1)]

-----------------------------------------------------------------------------
Models == IF critic THEN <<"default", "critic">> ELSE <<"default">>

Files == <<"step_info", "saver_info", "evaluator_info", "stats_logger_info",
           "checkpoint_info", "dataloader_info">>

Untrained == [m \in {"default", "critic"} |-> [s \in Steps |-> 0]]

\* A file is missing, broken, or of the checkpoint made after a step.
Missing == -2
Broken == -1
NoFile == [at |-> Missing, ctl |-> NewFreqCtl]

NewCtl == [f \in {"saver", "recover", "evaluator"} |-> NewFreqCtl]

Init ==
    /\ critic \in BOOLEAN
    /\ pc = "launch" /\ run_id = 0
    /\ step = 0 /\ trained = Untrained /\ ctl = NewCtl /\ dumped = 0
    /\ weights = Untrained /\ info = [f \in ToSet(Files) |-> NoFile]
    /\ exported = {} /\ torn = FALSE

Readable == \A f \in ToSet(Files) : info[f].at >= 0

\* Faulty: the saver starts anew.
RestoredNotSaver ==
    [saver |-> NewFreqCtl, recover |-> info["checkpoint_info"].ctl,
     evaluator |-> info["evaluator_info"].ctl]

Restored ==
    [saver |-> info["saver_info"].ctl, recover |-> info["checkpoint_info"].ctl,
     evaluator |-> info["evaluator_info"].ctl]

Loop(s) == IF s < MaxSteps THEN "train" ELSE "exit"

\* The trainer gives the actor alone to load: the critic starts anew.
LoadedWeights == [Untrained EXCEPT !["default"] = weights["default"]]

\* RecoverHandler.load, and the step train() begins with.  Without a readable
\* recover_info the run begins at the first step.
Launch ==
    /\ pc = "launch"
    /\ IF Readable
       THEN /\ step' = info["step_info"].at + 1
            /\ trained' = LoadedWeights /\ ctl' = Restored
            /\ torn' = (torn \/ \E f \in ToSet(Files) : info[f].at # info["step_info"].at)
       ELSE step' = 0 /\ trained' = Untrained /\ ctl' = NewCtl /\ UNCHANGED torn
    /\ pc' = Loop(step')
    /\ dumped' = 0
    /\ UNCHANGED <<critic, run_id, diskVars>>

TrainStep ==
    /\ pc = "train" /\ pc' = "save"
    /\ trained' = [m \in DOMAIN trained |->
                      IF m \in ToSet(Models) THEN [trained[m] EXCEPT ![step] = @ + 1]
                      ELSE trained[m]]
    /\ UNCHANGED <<critic, run_id, step, ctl, dumped, diskVars, torn>>

\* Saver.save, of the actor and then of the critic, with one frequency control.
SaveHf(model, here, next) ==
    /\ pc = here /\ pc' = next
    /\ ctl' = [ctl EXCEPT !["saver"] = Checked(@, SaveEpochs, SaveSteps)]
    /\ exported' = IF Due(ctl["saver"], SaveEpochs, SaveSteps)
                   THEN exported \cup {<<model, step>>} ELSE exported
    /\ UNCHANGED <<critic, run_id, step, trained, dumped, weights, info, torn>>

SaveActor == SaveHf("default", "save", IF critic THEN "save_critic" ELSE "checkpoint")
SaveCritic == SaveHf("critic", "save_critic", "checkpoint")

\* Faulty: the files of recover_info before the weights.
StagesInfoFirst == Files \o Models

\* RecoverHandler.dump, in this order.
Stages == Models \o Files

BeginDump ==
    /\ pc = "checkpoint"
    /\ ctl' = [ctl EXCEPT !["recover"] = Checked(@, RecoverEpochs, RecoverSteps)]
    /\ pc' = IF Due(ctl["recover"], RecoverEpochs, RecoverSteps) THEN "dump" ELSE "evaluate"
    /\ dumped' = 0
    /\ UNCHANGED <<critic, run_id, step, trained, diskVars, torn>>

\* The state a file holds.
Content(f) ==
    [at |-> step, ctl |-> CASE f = "saver_info" -> ctl["saver"]
                            [] f = "checkpoint_info" -> ctl["recover"]
                            [] f = "evaluator_info" -> ctl["evaluator"]
                            [] OTHER -> NewFreqCtl]

\* Weights and files replace those of the last checkpoint one by one.
DumpStage ==
    LET stage == Stages[dumped + 1]
    IN  /\ pc = "dump"
        /\ dumped' = dumped + 1
        /\ IF stage \in ToSet(Models)
           THEN weights' = [weights EXCEPT ![stage] = trained[stage]] /\ UNCHANGED info
           ELSE info' = [info EXCEPT ![stage] = Content(stage)] /\ UNCHANGED weights
        /\ pc' = IF dumped' = Len(Stages) THEN "evaluate" ELSE "dump"
        /\ UNCHANGED <<critic, run_id, step, trained, ctl, exported, torn>>

\* Evaluator.evaluate, the last of a step: its check is not in the checkpoint.
Evaluate ==
    /\ pc = "evaluate"
    /\ ctl' = [ctl EXCEPT !["evaluator"] = Checked(@, EvalEpochs, EvalSteps)]
    /\ step' = step + 1 /\ pc' = Loop(step + 1)
    /\ UNCHANGED <<critic, run_id, trained, dumped, diskVars, torn>>

Running == pc \notin {"launch", "ended"}

\* The local launcher cannot tell a finished trainer from a failed one and starts
\* both again.
Relaunch ==
    /\ IF run_id < Retries THEN pc' = "launch" /\ run_id' = run_id + 1
       ELSE pc' = "ended" /\ UNCHANGED run_id
    /\ UNCHANGED <<critic, step, trained, ctl, dumped, weights, exported, torn>>

Exit == pc = "exit" /\ Relaunch /\ UNCHANGED info

\* A file that is being written is cut off.
Crash ==
    /\ Running /\ pc # "exit" /\ Relaunch
    /\ \/ UNCHANGED info
       \/ /\ pc = "dump" /\ Stages[dumped + 1] \in ToSet(Files)
          /\ info' = [info EXCEPT ![Stages[dumped + 1]].at = Broken]

Next ==
    \/ Launch \/ TrainStep \/ SaveActor \/ SaveCritic \/ BeginDump \/ DumpStage
    \/ Evaluate \/ Exit \/ Crash

Spec == Init /\ [][Next]_vars

-----------------------------------------------------------------------------
(* Properties *)

\* Every step before the one the trainer is at is in the weights of a model, and
\* none more often than the run was started.
HasEveryStep(m) ==
    \A s \in Steps : /\ s < step => trained[m][s] >= 1
                     /\ trained[m][s] <= 1 + run_id

\* No crash makes a run skip a step: every step before the one the trainer is at
\* is in the weights of the actor, though weights and recover_info are replaced one
\* after the other; and a step is repeated at most once a restart.
EveryStepTrained == Running => HasEveryStep("default")

\* "RecoverHandler.load() restores all saved state": the same of every model whose
\* recovery checkpoint is saved.
EveryModelRestored == Running => \A m \in ToSet(Models) : HasEveryStep(m)

Scheduled == {s \in Steps : \/ SaveSteps > 0 /\ (s + 1) % SaveSteps = 0
                            \/ SaveEpochs > 0 /\ (s + 1) % (SaveEpochs * StepsPerEpoch) = 0}

ExportsOf(m) == {s \in Steps : <<m, s>> \in exported}

\* The frequency controls survive restarts.  However often a run is started again,
\* the actor is exported after the same steps as in a run that never stops, and
\* the evaluator lags by at most one step a restart; unless recover_info was left
\* half written, or there is a critic, for which the saver's control is advanced a
\* second time in each step.
SchedulesSurvive ==
    pc = "train" /\ ~critic /\ ~torn =>
        /\ ExportsOf("default") \subseteq Scheduled
        /\ \A s \in Scheduled : s < step => s \in ExportsOf("default")
        /\ ctl["recover"].step.steps = step
        /\ ctl["evaluator"].step.steps \in step - run_id..step
=============================================================================
