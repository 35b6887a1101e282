SPECIFICATION FairSpec
CONSTANTS
    MAX_SCHEDULERS = 2
    MAX_THREADS = 2
    MAX_SCHEDULER_QUEUES = 4
    Options <- SmallShapes
    NULL = NULL
INVARIANTS
    WakeupTypeOK
    QueueExclusive
    SleeperCanBeWoken
    WakeOnlySleeper
PROPERTIES
    HeapQueuesServed
