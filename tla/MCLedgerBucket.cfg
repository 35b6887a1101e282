SPECIFICATION LSpec
CONSTANTS
    SIZE_MAX = 40
    DRF_ONE = 8
    WC_BUDGET_CAP_NUM = 2
    WC_BUDGET_CAP_DEN = 1
    Mode = "BUCKET"
    THREADS_NUM = 1
    TENANTS_NUM = 2
    SCHEDULER_NUM = 1
    SCHED_PERIOD_CYCLES = 3
    MAX_CYCLE_PERCENTAGE = 80
    MAX_CYCLE_TOTAL = 100
    PERIOD_BYTES = 4
    cycle_weights <- EqualWeights
    bandwidth_weights <- EqualWeights
    WORKER_QUEUE_POLL_CYCLE_LIMIT = 3
    PktCycles = {1, 3}
    PktBytes = {1}
    Traffic <- BothBusy
    MaxReportPeriods = 1
    MaxRollovers = 2
INVARIANTS
    LedgerTypeOK
    BudgetWithinCap
    QuotaGuaranteed
    DebtorStopped
    LongRunBound
    TenantShareBound
