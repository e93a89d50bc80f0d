\* Three rollouts, any calls of one client, after a recovery at version 1.
CONSTANTS
    Tasks = {1, 2, 3}
    MaxQueueSize = 1
    MaxConcurrentRollouts = 2
    ConsumerBatchSize = 1
    MaxStaleness = 1
    RecoveredVersion = 1
    Clients = {c1}
    MaxFetchBatch = 2
    MaxVersion = 2
    SlowFetch = FALSE
SPECIFICATION Spec
INVARIANTS
    TypeOK SampleBound ConcurrencyBound CountersMatch ExactlyOnePlace
    ActiveIsOutstanding
CHECK_DEADLOCK FALSE
