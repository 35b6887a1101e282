--------------------------- MODULE SteadyTraffic ----------------------------
(***************************************************************************)
(* BudgetScheduler under traffic that never ends.  There Traffic is all    *)
(* that ever arrives; here it bounds what arrives for a tenant between two *)
(* settlements, which the length of a period bounds on the device, and     *)
(* packets keep coming for ever.  A tenant can thus overdraw its budget in *)
(* every period, also by a packet that is taken while a rollover has       *)
(* lifted its restriction and not yet taken its debt off.                  *)
(***************************************************************************)
EXTENDS BudgetScheduler

\* Packets arrive for tenant t, as many as the period still has room for: that they
\* may come one by one makes no difference, as a worker may find any queue empty.
Arrive(t) ==
    /\ Outstanding(t) < Traffic[t]
    /\ supply' = [supply EXCEPT ![t] = @ + (Traffic[t] - Outstanding(t))]
    /\ UNCHANGED <<counters, restrict_tenant, budgets, reports, spc, st, schLocals, workers>>

SteadyNext == Next \/ (\E t \in Tenants : Arrive(t))

SteadySpec == Init /\ [][SteadyNext]_vars

\* Nothing is assumed of the traffic: it may also stop.
FairSteadySpec == SteadySpec /\ SchedulerFairness

-----------------------------------------------------------------------------
(***************************************************************************)
(* Properties                                                              *)
(***************************************************************************)
\* A rollover takes at least one quota off what a tenant owes, or all of it,
\* whatever the redistribution before has made of the tenant's budget.
QuotaPaysDebt ==
    [][At("apply") /\ ~(At("apply"))' =>
        \A t \in Accounted :
            tenant_cycle_debt'[t] = 0
            \/ tenant_cycle_debt'[t] + tenant_cycle_target[t] <= tenant_cycle_debt[t]]_vars

\* A period in which tenant t is found to have used its quota or more.
HeavyPeriod(t) ==
    At("settle") /\ st = t /\ cycle_used >= tenant_cycle_target[t] /\ ~(At("settle"))'

NoTraffic == At("off") /\ \A u \in Tenants : supply[u] = 0

\* A tenant that from some time on uses less than its quota in every period
\* gets out of debt, however large the debt has grown and although whatever it
\* uses while it owes is a new overdraft; unless all traffic ends, so that
\* nothing wakes the scheduler.
DebtIsPaid ==
    \A t \in Accounted :
        []<><<HeavyPeriod(t)>>_vars \/ []<>(tenant_cycle_debt[t] = 0) \/ <>[]NoTraffic
=============================================================================
