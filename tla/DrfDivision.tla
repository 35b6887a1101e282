---------------------------- MODULE DrfDivision -----------------------------
(***************************************************************************)
(* sch_distribute_drf_pool on its own, against a reference definition of   *)
(* the fair share, for every small combination of quotas, pools and        *)
(* dominant resources that a rollover can pass to it.                      *)
(***************************************************************************)
EXTENDS TenantBudget, FiniteSetsExt

CONSTANTS
    MaxTarget,   \* bound on a quota
    MaxPool      \* bound on a pool

ASSUME DivisionAssumption == MaxTarget \in Nat \ {0} /\ MaxPool \in Nat

VARIABLES
    restrict,              \* each tenant's dominant resource
    target,                \* its quota in that resource
    cycle_pool, bw_pool,
    grant                  \* what each tenant has been given

inputs == <<restrict, target, cycle_pool, bw_pool>>

vars == <<inputs, grant>>

(***************************************************************************)
(* Both tenants are restricted, and sch_budget_reclaim_over_target has cut *)
(* each one's budget in its dominant resource back to its quota.  What the *)
(* account of the other resource holds is not looked at.                   *)
(***************************************************************************)
Accounts ==
    [t \in Tenants |-> [budget |-> target[t],
                        target |-> target[t],
                        cap    |-> sch_budget_cap(target[t])]]

Init ==
    /\ restrict \in [Tenants -> {TENANT_RESTRICT_CYCLE, TENANT_RESTRICT_BW}]
    /\ target \in [Tenants -> 1..MaxTarget]
    /\ cycle_pool \in 0..MaxPool
    /\ bw_pool \in 0..MaxPool
    /\ grant = [t \in Tenants |-> 0]

Distribute ==
    LET shared == sch_distribute_drf_pool(restrict, Accounts, Accounts, cycle_pool, bw_pool)
        given  == [t \in Tenants |-> IF restrict[t] = TENANT_RESTRICT_CYCLE THEN shared.cycle[t]
                                                                           ELSE shared.bw[t]]
    IN
    /\ grant' = [t \in Tenants |-> given[t] - target[t]]
    /\ UNCHANGED inputs

Spec == Init /\ [][Distribute]_vars

-----------------------------------------------------------------------------
Pool(kind) == IF kind = TENANT_RESTRICT_CYCLE THEN cycle_pool ELSE bw_pool

\* Fraction d / DRF_ONE of every tenant's quota fits under the caps and, added
\* up by resource, into the pools.
Fits(d) ==
    /\ \A t \in Tenants : d * target[t] <= (sch_budget_cap(target[t]) - target[t]) * DRF_ONE
    /\ \A kind \in {TENANT_RESTRICT_CYCLE, TENANT_RESTRICT_BW} :
           d * TargetSum(restrict, kind, Accounts) <= Pool(kind) * DRF_ONE

FairShare == Max({d \in 0..DRF_CAP_EXTRA_Q20 : Fits(d)})

\* Every restricted tenant gets the same fraction of its own quota, and it is
\* the largest one that the caps and the pools admit, rounded down once: the
\* chain of minimums in sch_distribute_drf_pool leaves nothing that could be
\* shared fairly undistributed.
LargestFairShare ==
    [][\A t \in Tenants : grant'[t] = (FairShare * target[t]) \div DRF_ONE]_vars

\* The two roundings (of the fraction, then of each grant) never add up to
\* more than the pool that is divided, though no clamp checks it.
GrantsFitPools ==
    \A kind \in {TENANT_RESTRICT_CYCLE, TENANT_RESTRICT_BW} :
        (IF restrict[0] = kind THEN grant[0] ELSE 0)
            + (IF restrict[1] = kind THEN grant[1] ELSE 0) <= Pool(kind)
=============================================================================
