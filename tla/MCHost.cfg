SPECIFICATION Spec
CONSTANTS
    Options <- SmallHosts
    MAX_SCHEDULER_QUEUES = 4
    EUS_PER_CORE = 2
    MAC_LOW = 4
    DMAC = 3
    Q_DATA_BSIZE = 4
    SPEED_RESULT_SIZE = 1
    NVME_QUEUE_MEMORY_SIZE = 3
    CACHELINE = 4
    MaxIgnored = 1
CHECK_DEADLOCK FALSE
INVARIANTS
    HostTypeOK
    ReleasesAreSafe
    OnlyKeptRemain
    HandlersStartComplete
    ZeroMeansNothingAbandoned
    OneFaultOneRule
    SteeringOneToOne
    UnitsDisjoint
    HostBuffersDisjoint
