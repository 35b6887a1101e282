SPECIFICATION Spec
CONSTANTS
    SIZE_MAX = 1000
    DRF_ONE = 8
    WC_BUDGET_CAP_NUM = 3
    WC_BUDGET_CAP_DEN = 2
    MaxTarget = 6
    MaxPool = 6
INVARIANTS
    GrantsFitPools
PROPERTIES
    LargestFairShare
