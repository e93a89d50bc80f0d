\* A critic, a checkpoint after each step, and one restart.
CONSTANTS
    MaxSteps = 3
    StepsPerEpoch = 4
    SaveSteps = 2
    SaveEpochs = 0
    RecoverSteps = 1
    RecoverEpochs = 0
    EvalSteps = 0
    EvalEpochs = 0
    Retries = 1
SPECIFICATION Spec
INVARIANT EveryModelRestored
CHECK_DEADLOCK FALSE
