\* The 50 ms of a fetch expire between two results.
CONSTANTS
    Tasks = {1, 2}
    MaxQueueSize = 2
    MaxConcurrentRollouts = 2
    ConsumerBatchSize = 1
    MaxStaleness = 1
    RecoveredVersion = 0
    Clients = {c1}
    MaxFetchBatch = 2
    MaxVersion = 0
    SlowFetch = TRUE
SPECIFICATION Spec
INVARIANT NothingLost
CHECK_DEADLOCK FALSE
