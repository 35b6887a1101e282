SPECIFICATION FairSpec
CONSTANTS
    MAX_SCHEDULERS = 2
    MAX_THREADS = 2
    MAX_SCHEDULER_QUEUES = 4
    Options <- OneOnHost
    NULL = NULL
PROPERTIES
    EveryQueueServed
