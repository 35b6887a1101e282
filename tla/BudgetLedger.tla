---------------------------- MODULE BudgetLedger ----------------------------
(***************************************************************************)
(* BudgetScheduler with a ledger beside it: history variables that record  *)
(* what has been granted to, harvested from and charged to each tenant     *)
(* over all periods.  They are written by no code and read by no action.   *)
(***************************************************************************)
EXTENDS BudgetScheduler

CONSTANT MaxRollovers   \* bound on the number of rollovers

ASSUME LedgerAssumption == MaxRollovers \in Nat

VARIABLES
    quotas,      \* quotas granted to a tenant so far, the initial one included
    harvested,   \* cycles taken out of tenant_cycle_consumed and settled
    late         \* packets worker w charged to tenant t since t was restricted

ledger == <<quotas, harvested, late>>

lvars == <<vars, ledger>>

LInit ==
    /\ Init
    /\ quotas = [t \in Tenants |-> 1]
    /\ harvested = [t \in Tenants |-> 0]
    /\ late = [w \in Workers |-> [t \in Tenants |-> 0]]

\* Tenant t is settled for the period in this step.
Settles(t) == At("settle") /\ st = t /\ spc' # "settle"

Charges(w, t) == wpc[w] = "charge_cycles" /\ wpc'[w] = "charge_bytes" /\ wq[w] = t

Record ==
    /\ quotas' = [t \in Tenants |-> IF Settles(t) THEN quotas[t] + 1 ELSE quotas[t]]
    /\ harvested' =
           [t \in Tenants |-> IF Settles(t) THEN harvested[t] + cycle_used ELSE harvested[t]]
    /\ late' =
           [w \in Workers |-> [t \in Tenants |->
               IF restrict_tenant'[t] = TENANT_RESTRICT_NONE THEN 0
               ELSE IF Charges(w, t) THEN late[w][t] + 1
               ELSE late[w][t]]]

\* No rollover starts beyond the bound.
Bounded == (At("timer") /\ spc' = "take") => \A t \in Tenants : quotas[t] <= MaxRollovers

LNext == Next /\ Record /\ Bounded

LSpec == LInit /\ [][LNext]_lvars

-----------------------------------------------------------------------------
LedgerTypeOK ==
    /\ TypeOK
    /\ quotas \in [Tenants -> Nat]
    /\ harvested \in [Tenants -> Nat]
    /\ late \in [Workers -> [Tenants -> Nat]]

\* No debt has stuck at SIZE_MAX: fewer cycles than a size_t holds have been
\* harvested (at 1.8 GHz, centuries of work).
Unsaturated == \A t \in Tenants : harvested[t] <= SIZE_MAX

Granted == [t \in Tenants |-> quotas[t] * tenant_cycle_target[t]]

\* Over any number of periods and whatever moves through the pools, the
\* cycles all tenants have used or may still use without debt never exceed
\* the quotas granted; every cycle beyond them is on record as debt.
LongRunBound ==
    Unsaturated =>
        Total(harvested) + Total(tenant_cycle_budget) <= Total(Granted) + Total(tenant_cycle_debt)

\* One tenant, borrowing included, never gets more than its cap per period
\* in the long run, debts aside.
TenantShareBound ==
    Unsaturated =>
        \A t \in Accounted :
            harvested[t] + tenant_cycle_budget[t]
                <= quotas[t] * tenant_cycle_budget_cap[t] + tenant_cycle_debt[t]

\* While a tenant is restricted, each worker charges at most one more packet
\* to it: the one it was processing when the restriction was stored.
OnePacketAfterRestrict == \A w \in Workers, t \in Tenants : late[w][t] <= 1

\* No cycle is lost or counted twice between the workers' fetch-adds and the
\* scheduler's exchanges, wherever the rollover falls between them.
NoChargeLost == \A t \in Tenants : Outstanding(t) + harvested[t] = Traffic[t]

-----------------------------------------------------------------------------
(***************************************************************************)
(* What makes these invariants inductive (proved in BudgetProofs).         *)
(***************************************************************************)
HistoryOK ==
    /\ quotas \in [Tenants -> Nat \ {0}]
    /\ harvested \in [Tenants -> Nat]
    /\ late \in [Workers -> [Tenants -> Nat]]

\* The pool counts as budget not yet handed out.
PoolAccounted ==
    Total(harvested) + Total(tenant_cycle_budget) + cycle_pool
        <= Total(Granted) + Total(tenant_cycle_debt)

\* From its settlement to the payment of debts, a tenant's newest quota is
\* unused.
ShareAccounted(t) ==
    /\ harvested[t] + tenant_cycle_budget[t]
           <= quotas[t] * tenant_cycle_budget_cap[t] + tenant_cycle_debt[t]
    /\ Regranted(t) =>
           harvested[t] <= (quotas[t] - 1) * tenant_cycle_budget_cap[t] + tenant_cycle_debt[t]

AccountInv ==
    Unsaturated =>
        /\ \A t \in Tenants : tenant_cycle_debt[t] <= harvested[t]
        /\ PoolAccounted
        /\ \A t \in Accounted : ShareAccounted(t)

\* A packet in flight to a restricted tenant was begun before the restriction.
LateInv ==
    \A w \in Workers, t \in Tenants :
        /\ late[w][t] <= 1
        /\ restrict_tenant[t] = TENANT_RESTRICT_NONE => late[w][t] = 0
        /\ (wpc[w] = "charge_cycles" /\ wq[w] = t) => late[w][t] = 0

LedgerInv == BudgetInv /\ HistoryOK /\ AccountInv /\ LateInv
=============================================================================
