\* Two rollouts over two workers, one update, one lost message.
CONSTANTS
    Tasks = {1, 2}
    NumWorkers = 2
    MaxConcurrentRollouts = 2
    ConsumerBatchSize = 1
    MaxStaleness = 1
    RecoveredVersion = 0
    MaxRetries = 2
    MaxVersion = 1
    MaxFaults = 1
SPECIFICATION Spec
INVARIANTS TypeOK FuturesAreAwaited DriftBound VerdictsAgree
PROPERTY EndsWithoutTimeout
CHECK_DEADLOCK FALSE
