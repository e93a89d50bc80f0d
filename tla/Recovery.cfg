\* Four starts, with three frequencies that do not coincide.
CONSTANTS
    MaxSteps = 8
    StepsPerEpoch = 4
    SaveSteps = 3
    SaveEpochs = 1
    RecoverSteps = 2
    RecoverEpochs = 1
    EvalSteps = 2
    EvalEpochs = 0
    Retries = 3
SPECIFICATION Spec
INVARIANTS EveryStepTrained SchedulesSurvive
CHECK_DEADLOCK FALSE
