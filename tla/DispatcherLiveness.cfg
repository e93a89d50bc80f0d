\* Queues of one: the producer meets a full queue, the runner dies of one.
CONSTANTS
    Tasks = {1, 2}
    MaxQueueSize = 1
    MaxConcurrentRollouts = 2
    ConsumerBatchSize = 1
    MaxStaleness = 0
    RecoveredVersion = 0
    Clients = {c1}
    MaxFetchBatch = 2
    MaxVersion = 1
    SlowFetch = FALSE
SPECIFICATION FairSpec
PROPERTIES ProducerIsWoken FullIsWoken ReadyIsStored ShutdownEnds
CHECK_DEADLOCK FALSE
