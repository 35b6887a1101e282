SPECIFICATION FairSpec
CONSTANTS
    SIZE_MAX = 40
    DRF_ONE = 8
    WC_BUDGET_CAP_NUM = 2
    WC_BUDGET_CAP_DEN = 1
    Mode = "DRF"
    THREADS_NUM = 1
    TENANTS_NUM = 2
    SCHEDULER_NUM = 2
    SCHED_PERIOD_CYCLES = 3
    MAX_CYCLE_PERCENTAGE = 80
    MAX_CYCLE_TOTAL = 100
    PERIOD_BYTES = 4
    cycle_weights <- EqualWeights
    bandwidth_weights <- EqualWeights
    WORKER_QUEUE_POLL_CYCLE_LIMIT = 3
    PktCycles = {1, 3}
    PktBytes = {1}
    Traffic <- SomeTraffic
    MaxReportPeriods = 1
PROPERTIES
    CyclesMetered
    BytesMetered
    RestrictedIsReleased
