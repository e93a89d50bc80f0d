\* The runner dies while the producer waits for room in its queue.
CONSTANTS
    Tasks = {1, 2, 3, 4}
    MaxQueueSize = 1
    MaxConcurrentRollouts = 4
    ConsumerBatchSize = 2
    MaxStaleness = 1
    RecoveredVersion = 0
    Clients = {c1}
    MaxFetchBatch = 1
    MaxVersion = 0
    SlowFetch = FALSE
SPECIFICATION FairSpec
PROPERTY FailFast
CHECK_DEADLOCK FALSE
