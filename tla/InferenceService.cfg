\* Agents and the user at two data proxies, with lost answers and timeouts.
SPECIFICATION Spec
CONSTANTS
    Episodes = {e1, e2}
    Waiters = {o1, o2}
    NumProxies = 2
    MaxCalls = 2
    MaxCompleted = 1
    MaxFaults = 1
    e1 = e1
    e2 = e2
    o1 = o1
    o2 = o2
INVARIANTS TypeOK RewardedIsReturned ReturnedOnce LeakBound
PROPERTY EpisodesEnd
CHECK_DEADLOCK FALSE
