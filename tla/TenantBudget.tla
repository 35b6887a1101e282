---------------------------- MODULE TenantBudget ----------------------------
(***************************************************************************)
(* The arithmetic of one rollover: the pure functions of                   *)
(* dev/flexio_pp_dev_sch.c and dev/flexio_pp_dev_utils.c that turn what a  *)
(* tenant used in a period into its budget for the next one.  A C function *)
(* that updates through a pointer and also returns a value is an operator  *)
(* that returns a record of both.                                          *)
(***************************************************************************)
EXTENDS Integers

CONSTANTS
    SIZE_MAX,            \* (size_t)-1
    DRF_ONE,             \* 1 << DRF_SHIFT, the Q20 representation of 1
    WC_BUDGET_CAP_NUM,   \* a budget may grow to NUM / DEN of its target
    WC_BUDGET_CAP_DEN

ASSUME ArithmeticAssumption ==
    /\ SIZE_MAX \in Nat \ {0}
    /\ DRF_ONE \in Nat \ {0}
    /\ WC_BUDGET_CAP_NUM \in Nat
    /\ WC_BUDGET_CAP_DEN \in Nat \ {0}

MAX_TENANT_NUM == 2

Tenants == 0..(MAX_TENANT_NUM - 1)

\* Values of restrict_tenant[t].
TENANT_RESTRICT_NONE == 0
TENANT_RESTRICT_CYCLE == 1
TENANT_RESTRICT_BW == 2

Restrictions == {TENANT_RESTRICT_NONE, TENANT_RESTRICT_CYCLE, TENANT_RESTRICT_BW}

Total(f) == f[0] + f[1]

\* a + b in a size_t: both arguments are in 0..SIZE_MAX.
SizeAdd(a, b) == IF a + b > SIZE_MAX THEN a + b - (SIZE_MAX + 1) ELSE a + b

sch_min_u64(a, b) == IF a < b THEN a ELSE b

sch_budget_cap(target) ==
    LET cap == (target * WC_BUDGET_CAP_NUM) \div WC_BUDGET_CAP_DEN
    IN  IF cap > target THEN cap ELSE target

\* The share of `base` that a weight buys among weights that add up to `sum`.
tenant_quota(base, weight, sum) == (base * weight) \div sum

\* Mutant: a budget is exhausted only when it has been exceeded.
RestrictionForExceeded(cycle_used, cycle_budget, bw_used, bw_budget) ==
    IF bw_used > bw_budget THEN TENANT_RESTRICT_BW
    ELSE IF cycle_used > cycle_budget THEN TENANT_RESTRICT_CYCLE
    ELSE TENANT_RESTRICT_NONE

(***************************************************************************)
(* sch_check_budget: the byte budget is looked at last and wins.           *)
(***************************************************************************)
RestrictionFor(cycle_used, cycle_budget, bw_used, bw_budget) ==
    IF bw_used >= bw_budget THEN TENANT_RESTRICT_BW
    ELSE IF cycle_used >= cycle_budget THEN TENANT_RESTRICT_CYCLE
    ELSE TENANT_RESTRICT_NONE

\* Mutant: the overdraft is forgotten.
RecordNoDebt(budget, used, debt) == debt

\* The debt after a period that used `used` cycles of `budget`; it sticks at
\* SIZE_MAX when the addition wraps.
sch_cycle_record_debt(budget, used, debt) ==
    LET debt_next == SizeAdd(debt, used - budget)
    IN  IF used <= budget THEN debt
        ELSE IF debt_next < debt THEN SIZE_MAX
        ELSE debt_next

\* Mutants: the payment is not limited to the budget; or the debt is not
\* reduced by what has been paid; or it is paid only when the budget covers
\* all of it, and holds the tenant back until then.
ApplyDebtUnlimited(budget, debt) == [budget |-> budget - debt, debt |-> 0]

ApplyDebtForEver(budget, debt) ==
    [budget |-> IF budget < debt THEN 0 ELSE budget - debt, debt |-> debt]

ApplyDebtAtOnce(budget, debt) ==
    IF budget < debt THEN [budget |-> 0, debt |-> debt] ELSE [budget |-> budget - debt, debt |-> 0]

sch_cycle_apply_debt(budget, debt) ==
    LET paid == IF budget < debt THEN budget ELSE debt
    IN  [budget |-> budget - paid, debt |-> debt - paid]

\* Mutants: what is carried over replaces the new quota; or all of it is
\* spilled although a part has been kept.
SettleWithoutQuota(quota, cap, used, budget) ==
    LET carried == IF budget > used THEN budget - used ELSE 0
    IN  IF carried > cap - quota THEN [budget |-> cap, spill |-> carried - (cap - quota)]
        ELSE [budget |-> IF carried > 0 THEN carried ELSE quota, spill |-> 0]

SettleSpillsTwice(quota, cap, used, budget) ==
    LET carried == IF budget > used THEN budget - used ELSE 0
    IN  IF carried > cap - quota THEN [budget |-> cap, spill |-> carried]
        ELSE [budget |-> quota + carried, spill |-> carried]

(***************************************************************************)
(* A new quota plus what is left of the old budget, up to the cap; `spill` *)
(* is the part above the cap, which goes into the shared pool.             *)
(***************************************************************************)
sch_budget_settle(quota, cap, used, budget) ==
    LET carried  == IF budget > used THEN budget - used ELSE 0
        headroom == cap - quota
    IN  IF carried > headroom
        THEN [budget |-> cap, spill |-> carried - headroom]
        ELSE [budget |-> quota + carried, spill |-> 0]

\* Mutant: the whole pool is borrowed, whatever the cap.
ReceiveEverything(budget, cap, shared_budget) ==
    [budget |-> budget + shared_budget, left |-> 0]

\* Fill a budget up to its cap from the pool; `left` is what remains of it.
sch_budget_receive(budget, cap, shared_budget) ==
    LET borrow == sch_min_u64(cap - budget, shared_budget)
    IN  IF shared_budget = 0 \/ budget >= cap
        THEN [budget |-> budget, left |-> shared_budget]
        ELSE [budget |-> budget + borrow, left |-> shared_budget - borrow]

\* DRF mode: a restricted tenant gives what it holds above its target back.
sch_budget_reclaim_over_target(budget, target) ==
    IF budget <= target THEN [budget |-> budget, excess |-> 0]
    ELSE [budget |-> target, excess |-> budget - target]

sch_ratio_q20(amount, target) ==
    IF amount = 0 \/ target = 0 THEN 0 ELSE (amount * DRF_ONE) \div target

sch_drf_alloc(delta_q20, target) == (delta_q20 * target) \div DRF_ONE

DRF_CAP_EXTRA_Q20 ==
    IF WC_BUDGET_CAP_NUM > WC_BUDGET_CAP_DEN
    THEN ((WC_BUDGET_CAP_NUM - WC_BUDGET_CAP_DEN) * DRF_ONE) \div WC_BUDGET_CAP_DEN
    ELSE 0

(***************************************************************************)
(* sch_distribute_drf_pool raises every restricted tenant by the same      *)
(* fraction of its target in its dominant resource: the largest fraction   *)
(* that every tenant's room under its cap and both pools allow.            *)
(* cyc and bw are [Tenants -> [budget, target, cap]] and `restrict` is     *)
(* restrict_tenant, TENANT_RESTRICT_NONE for a tenant not accounted.       *)
(***************************************************************************)
RoomUnderCap(acct) == IF acct.budget < acct.cap THEN acct.cap - acct.budget ELSE 0

TargetOf(restrict, kind, acct, t) == IF restrict[t] = kind THEN acct[t].target ELSE 0

\* The target sum of the tenants whose dominant resource is `kind`.
TargetSum(restrict, kind, acct) ==
    TargetOf(restrict, kind, acct, 0) + TargetOf(restrict, kind, acct, 1)

\* Mutant: the room under a tenant's cap is not looked at.
TenantDeltaUnlimited(restrict, cyc, bw, t, delta) == delta

TenantDelta(restrict, cyc, bw, t, delta) ==
    LET acct == IF restrict[t] = TENANT_RESTRICT_CYCLE THEN cyc[t] ELSE bw[t]
    IN  IF restrict[t] = TENANT_RESTRICT_NONE THEN delta
        ELSE sch_min_u64(delta, sch_ratio_q20(RoomUnderCap(acct), acct.target))

\* Mutant: the pool is not looked at.
PoolDeltaUnlimited(pool, target_sum, delta) == delta

PoolDelta(pool, target_sum, delta) ==
    IF target_sum = 0 THEN delta
    ELSE sch_min_u64(delta, sch_ratio_q20(pool, target_sum))

common_delta_q20(restrict, cyc, bw, cycle_pool, bw_pool) ==
    LET d0 == TenantDelta(restrict, cyc, bw, 0, DRF_CAP_EXTRA_Q20)
        d1 == TenantDelta(restrict, cyc, bw, 1, d0)
        d2 == PoolDelta(cycle_pool, TargetSum(restrict, TENANT_RESTRICT_CYCLE, cyc), d1)
    IN  PoolDelta(bw_pool, TargetSum(restrict, TENANT_RESTRICT_BW, bw), d2)

\* The budgets of resource `kind` once fraction `delta` has been granted.
DrfBudgets(restrict, kind, acct, delta) ==
    [t \in Tenants |->
        IF restrict[t] = kind
        THEN acct[t].budget + sch_drf_alloc(delta, acct[t].target)
        ELSE acct[t].budget]

sch_distribute_drf_pool(restrict, cyc, bw, cycle_pool, bw_pool) ==
    LET delta == common_delta_q20(restrict, cyc, bw, cycle_pool, bw_pool)
    IN  [cycle |-> DrfBudgets(restrict, TENANT_RESTRICT_CYCLE, cyc, delta),
         bw    |-> DrfBudgets(restrict, TENANT_RESTRICT_BW, bw, delta)]
=============================================================================
