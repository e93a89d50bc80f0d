\* Two calls, two servers, two updates of either kind.
CONSTANTS
    Requests = {r1, r2}
    NumServers = 2
    MaxNewTokens = 2
    Buckets = 2
    Kinds = {"disk", "xccl"}
    MaxVersion = 2
    MaxFaults = 1
SPECIFICATION Spec
INVARIANTS TypeOK LabelAtMostOneOld LoadsWhatWasSaved
PROPERTY EveryCallReturns
CHECK_DEADLOCK FALSE
