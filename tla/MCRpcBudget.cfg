SPECIFICATION Spec
CONSTANTS
    indexer = indexer
    nav = nav
    Readers <- MCReaders
    Nobody = Nobody
    Concurrency = 2
    QueueSize = 2
    Interval = 1
    QueueTimeout = 2
    RequestTimeout = 2
    RetryAfter = {1, 3}
    PauseCap = 2
    MaxAttempts = 3
    BackoffBase = 1
    BackoffCap = 2
INVARIANTS
    TypeOK
    SlotsBounded
    OneRequestEach
    NoLostWakeup
PROPERTIES
    PausesHonoured
    EventuallyAnswered
