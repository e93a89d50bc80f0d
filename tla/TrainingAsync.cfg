\* One step of staleness, from a checkpoint of version 1, a rejection on the way.
CONSTANTS
    Tasks = {1, 2, 3, 4}
    MaxQueueSize = 4
    MaxConcurrentRollouts = 2
    ConsumerBatchSize = 1
    MaxStaleness = 1
    RecoveredVersion = 1
    Trainer = trainer
    Clients = {trainer}
    MaxFetchBatch = 2
    MaxVersion = 3
    SlowFetch = FALSE
    DynamicBS = FALSE
    MaxRejects = 1
SPECIFICATION FairTrainingSpec
INVARIANTS LoopTypeOK BacklogBound StaleIsOvertaken
PROPERTIES TrainingProgress
CHECK_DEADLOCK FALSE
