\* No staleness: batches of two, rollouts that end in any order, slow fetches.
CONSTANTS
    Tasks = {1, 2, 3, 4, 5}
    MaxQueueSize = 4
    MaxConcurrentRollouts = 3
    ConsumerBatchSize = 2
    MaxStaleness = 0
    RecoveredVersion = 0
    Trainer = trainer
    Clients = {trainer}
    MaxFetchBatch = 2
    MaxVersion = 2
    SlowFetch = TRUE
    DynamicBS = FALSE
    MaxRejects = 1
SPECIFICATION TrainingSpec
INVARIANTS FullBatches Synchronous
PROPERTY OnlyDeadlinesDrop
CHECK_DEADLOCK FALSE
