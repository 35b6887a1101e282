SPECIFICATION FairSteadySpec
CONSTANTS
    SIZE_MAX = 7
    DRF_ONE = 8
    WC_BUDGET_CAP_NUM = 3
    WC_BUDGET_CAP_DEN = 2
    Mode = "BUCKET"
    THREADS_NUM = 1
    TENANTS_NUM = 2
    SCHEDULER_NUM = 2
    SCHED_PERIOD_CYCLES = 4
    MAX_CYCLE_PERCENTAGE = 80
    MAX_CYCLE_TOTAL = 100
    PERIOD_BYTES = 4
    cycle_weights <- CycleWeights
    bandwidth_weights <- EqualWeights
    WORKER_QUEUE_POLL_CYCLE_LIMIT = 3
    PktCycles = {1, 4}
    PktBytes = {1}
    Traffic <- PeriodTraffic
    MaxReportPeriods = 1
PROPERTIES
    QuotaPaysDebt
    DebtIsPaid
