\* Safety, liveness and refinement: one producer, queues of one (both are full at times).
CONSTANTS
    Tasks = {t1, t2}
    Producers = {p}
    MaxQueueSize = 1
    MaxWait = 1
    None = None
SPECIFICATION FairSpec
INVARIANTS TypeOK NoDuplicateInFlight
PROPERTIES
    ImplementsTaskRunner QueuedIsStarted ReturnedIsPublished
    DestroyTerminates DeathIsVisible
