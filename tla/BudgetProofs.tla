---------------------------- MODULE BudgetProofs ----------------------------
(***************************************************************************)
(* Proofs about BudgetScheduler and BudgetLedger, for any number of        *)
(* workers, any weights, quotas, packet costs and traffic, and all three   *)
(* rollover modes.                                                         *)
(***************************************************************************)
EXTENDS BudgetLedger, TenantBudgetLemmas

-----------------------------------------------------------------------------
(* Quotas and caps                                                         *)

\* There are two tenants (MAX_TENANT_NUM).
LEMMA TenantsAre == Tenants = {0, 1}
  BY DEF Tenants, MAX_TENANT_NUM

\* tenants_num is clamped to the tenant table, so every accounted tenant exists.
LEMMA TenantsNum == tenants_num \in 0..2 /\ Accounted \subseteq Tenants
  BY ParameterAssumption DEF tenants_num, Accounted, MAX_TENANT_NUM

\* A tenant's quota is a natural number: no accounted tenant divides by zero.
LEMMA QuotaIsNat ==
    ASSUME NEW base \in Nat, NEW weights \in [Tenants -> Nat \ {0}], NEW t \in Tenants
    PROVE  QuotaOf(base, weights, t) \in Nat
  <1>1. CASE t \notin Accounted
    BY <1>1 DEF QuotaOf
  <1>2. CASE t \in Accounted
    <2>1. weights[0] \in Nat \ {0} /\ weights[1] \in Nat \ {0} /\ weights[t] \in Nat
      BY TenantsAre
    <2>2. SumWeight(weights) \in Nat \ {0}
      BY <1>2, <2>1, TenantsAre DEF SumWeight
    <2>3. base * weights[t] \in Nat
      BY <2>1, ProductIsNat
    <2> QED
      BY <1>2, <2>2, <2>3, DivFacts DEF QuotaOf, tenant_quota
  <1> QED
    BY <1>1, <1>2

\* Quotas and caps are natural numbers and no cap is below its quota, so that
\* the code's cap - quota never wraps.
LEMMA TargetFacts ==
    /\ tenant_cycle_target \in [Tenants -> Nat]
    /\ tenant_bw_target \in [Tenants -> Nat]
    /\ tenant_cycle_budget_cap \in [Tenants -> Nat]
    /\ tenant_bw_budget_cap \in [Tenants -> Nat]
    /\ \A t \in Tenants : /\ tenant_cycle_target[t] <= tenant_cycle_budget_cap[t]
                          /\ tenant_bw_target[t] <= tenant_bw_budget_cap[t]
  <1>1. base_cycle_budget \in Nat
    <2>1. SCHED_PERIOD_CYCLES * THREADS_NUM \in Nat
      BY ParameterAssumption, ProductIsNat
    <2>2. SCHED_PERIOD_CYCLES * THREADS_NUM * MAX_CYCLE_PERCENTAGE \in Nat
      BY <2>1, ParameterAssumption, ProductIsNat
    <2> QED
      BY <2>2, ParameterAssumption, DivFacts DEF base_cycle_budget
  <1>2. per_period_total_budget \in Nat
    BY ParameterAssumption, DivFacts DEF per_period_total_budget
  <1>3. tenant_cycle_target \in [Tenants -> Nat] /\ tenant_bw_target \in [Tenants -> Nat]
    BY <1>1, <1>2, QuotaIsNat, ParameterAssumption DEF tenant_cycle_target, tenant_bw_target
  <1> QED
    BY <1>3, CapFacts DEF tenant_cycle_budget_cap, tenant_bw_budget_cap

-----------------------------------------------------------------------------
(* Type correctness                                                        *)

\* The saturating addition of sch_cycle_record_debt stays inside a size_t.
LEMMA SizeAddType ==
    ASSUME NEW a \in 0..SIZE_MAX, NEW b \in 0..SIZE_MAX
    PROVE  SizeAdd(a, b) \in 0..SIZE_MAX
  BY ArithmeticAssumption DEF SizeAdd

\* sch_ctx_init leaves a well-typed context.
LEMMA InitTypeOK == Init => TypeOK
  BY TargetFacts, ArithmeticAssumption, ParameterAssumption, TenantsAre
     DEF Init, TypeOK, Restrictions, SchPC, WorkerPC, MAX_TENANT_NUM

\* What one settlement leaves: between quota and cap, and no budget created.
LEMMA SettledFacts ==
    ASSUME NEW kind \in Restrictions, NEW t \in Tenants, NEW quota \in Nat, NEW cap \in Nat,
           NEW used \in Nat, NEW budget \in Nat, quota <= cap
    PROVE  LET s == Settled(kind, t, quota, cap, used, budget)
           IN  /\ s.budget \in Nat
               /\ s.pool \in Nat
               /\ quota <= s.budget
               /\ s.budget <= cap
               /\ s.budget + s.pool <= quota + (IF budget > used THEN budget - used ELSE 0)
               /\ Mode = "OFF" => s.pool = 0
  <1> DEFINE s == sch_budget_settle(quota, cap, used, budget)
             r == sch_budget_reclaim_over_target(s.budget, quota)
  <1>1. /\ s.budget \in Nat
        /\ s.spill \in Nat
        /\ quota <= s.budget
        /\ s.budget <= cap
        /\ s.budget + s.spill = quota + (IF budget > used THEN budget - used ELSE 0)
    BY SettleFacts
  <1>2. r.budget = quota /\ r.excess = s.budget - quota
    BY <1>1, ReclaimFacts
  <1>3. Settled(kind, t, quota, cap, used, budget) =
            CASE Mode = "OFF" -> [budget |-> quota, pool |-> 0]
              [] Mode = "DRF" /\ restrict_tenant[t] = kind ->
                     [budget |-> r.budget, pool |-> s.spill + r.excess]
              [] OTHER -> [budget |-> s.budget, pool |-> s.spill]
    BY DEF Settled
  <1> HIDE DEF s, r
  <1>4. CASE Mode = "OFF"
    BY <1>1, <1>3, <1>4
  <1>5. CASE Mode # "OFF" /\ Mode = "DRF" /\ restrict_tenant[t] = kind
    BY <1>1, <1>2, <1>3, <1>5
  <1>6. CASE Mode # "OFF" /\ ~(Mode = "DRF" /\ restrict_tenant[t] = kind)
    BY <1>1, <1>3, <1>6
  <1> QED
    BY <1>4, <1>5, <1>6

-----------------------------------------------------------------------------
(* The inductive invariant of the scheduler and its workers                *)

\* sch_ctx_init establishes the inductive invariant: budgets are the quotas, no
\* tenant is restricted or in debt.
LEMMA InitBudgetInv == Init => BudgetInv
  <1> SUFFICES ASSUME Init PROVE BudgetInv
    OBVIOUS
  <1>1. TypeOK
    BY InitTypeOK
  <1>2. BudgetWithinCap
    BY TargetFacts DEF Init, BudgetWithinCap
  <1>3. IndexOK /\ SettledHasQuota /\ DebtorChecked
    BY TenantsNum, TargetFacts
       DEF Init, IndexOK, SettledHasQuota, DebtorChecked, Regranted, Checked, At
  <1> QED
    BY <1>1, <1>2, <1>3 DEF BudgetInv

\* Leaving a tenant index behind: every accounted tenant is below st.
LEMMA AllBelow ==
    ASSUME TypeOK, st \notin Accounted, NEW t \in Accounted
    PROVE  t < st
  BY TenantsNum, TenantsAre DEF TypeOK, Accounted, MAX_TENANT_NUM

\* The steps that only move the scheduler from one place to another.
LEMMA MoveBudgetInv ==
    ASSUME BudgetInv,
           StartCheck \/ Reschedule \/ Activate \/ CheckSkip \/ CheckDone
           \/ StartRollover \/ SkipRollover \/ SkipReport \/ DrfClearDone
    PROVE  BudgetInv'
  <1> USE DEF BudgetInv, At, Goto, counters, budgets, reports, schLocals, workers,
              StartCheck, Reschedule, Activate, CheckSkip, CheckDone, StartRollover, SkipRollover,
              SkipReport, DrfClearDone
  <1>1. TypeOK'
    BY TenantsNum, TenantsAre DEF TypeOK, SchPC, MAX_TENANT_NUM
  <1>2. IndexOK' /\ BudgetWithinCap'
    BY DEF IndexOK, BudgetWithinCap
  <1>3. SettledHasQuota'
    BY TenantsNum, TenantsAre DEF SettledHasQuota, Regranted
  <1>4. DebtorChecked'
    BY TenantsNum, TenantsAre, AllBelow DEF DebtorChecked, Checked, InRollover, TypeOK
  <1> QED
    BY <1>1, <1>2, <1>3, <1>4

\* sch_check_budget: a tenant without budget does not pass the comparison.
LEMMA CheckBudgetInv ==
    ASSUME BudgetInv, CheckLoadCycles \/ CheckLoadBytes \/ CheckStore
    PROVE  BudgetInv'
  <1> USE DEF BudgetInv, At, Goto, counters, budgets, reports, schLocals, workers
  <1>1. CASE CheckLoadCycles
    <2> USE <1>1 DEF CheckLoadCycles
    <2>1. TypeOK'
      BY TenantsNum, TenantsAre DEF TypeOK, SchPC
    <2>2. IndexOK' /\ BudgetWithinCap' /\ SettledHasQuota'
      BY DEF IndexOK, BudgetWithinCap, SettledHasQuota, Regranted
    <2>3. DebtorChecked'
      BY DEF DebtorChecked, Checked, InRollover
    <2> QED
      BY <2>1, <2>2, <2>3
  <1>2. CASE CheckLoadBytes
    <2> USE <1>2 DEF CheckLoadBytes
    <2>1. st \in Accounted /\ st \in Tenants
      BY TenantsNum DEF IndexOK
    <2>2. TypeOK'
      BY <2>1, TenantsAre, ArithmeticAssumption
         DEF TypeOK, SchPC, RestrictionFor, Restrictions, MAX_TENANT_NUM
    <2>3. IndexOK' /\ BudgetWithinCap' /\ SettledHasQuota'
      BY <2>1 DEF IndexOK, BudgetWithinCap, SettledHasQuota, Regranted
    <2>4. ~InRollover
      BY DEF InRollover
    <2>5. tenant_cycle_debt[st] > 0 => restriction' # TENANT_RESTRICT_NONE
      BY <2>1, <2>4
         DEF DebtorChecked, TypeOK, RestrictionFor,
             TENANT_RESTRICT_NONE, TENANT_RESTRICT_CYCLE, TENANT_RESTRICT_BW
    <2>6. DebtorChecked'
      BY <2>1, <2>4, <2>5, TenantsAre, TenantsNum DEF DebtorChecked, Checked, InRollover, TypeOK
    <2> QED
      BY <2>2, <2>3, <2>6
  <1>3. CASE CheckStore
    <2> USE <1>3 DEF CheckStore
    <2>1. st \in Accounted /\ st \in Tenants /\ restriction # TENANT_RESTRICT_NONE
      BY TenantsNum DEF IndexOK
    <2>2. TypeOK'
      BY <2>1, TenantsAre DEF TypeOK, SchPC, Restrictions, MAX_TENANT_NUM
    <2>3. IndexOK' /\ BudgetWithinCap' /\ SettledHasQuota'
      BY <2>1 DEF IndexOK, BudgetWithinCap, SettledHasQuota, Regranted
    <2>4. DebtorChecked'
      BY <2>1, TenantsAre, TenantsNum DEF DebtorChecked, Checked, InRollover, TypeOK
    <2> QED
      BY <2>2, <2>3, <2>4
  <1> QED
    BY <1>1, <1>2, <1>3

\* Emptying a counter (__atomic_exchange_n) disturbs nothing.
LEMMA TakeCyclesInv ==
    ASSUME BudgetInv, TakeCycles
    PROVE  BudgetInv'
  <1> USE DEF BudgetInv, At, Goto, counters, budgets, reports, schLocals, workers, TakeCycles
  <1>1. TypeOK'
    BY TenantsNum, TenantsAre, ArithmeticAssumption DEF TypeOK, SchPC
  <1>2. IndexOK' /\ BudgetWithinCap' /\ SettledHasQuota' /\ DebtorChecked'
    BY DEF IndexOK, BudgetWithinCap, SettledHasQuota, Regranted, DebtorChecked, InRollover
  <1> QED
    BY <1>1, <1>2

\* The settlement of one tenant.
LEMMA SettleInv ==
    ASSUME BudgetInv, Settle
    PROVE  BudgetInv'
  <1> DEFINE
        cyc == Settled(TENANT_RESTRICT_CYCLE, st, tenant_cycle_target[st],
                       tenant_cycle_budget_cap[st], cycle_used, tenant_cycle_budget[st])
        bw  == Settled(TENANT_RESTRICT_BW, st, tenant_bw_target[st],
                       tenant_bw_budget_cap[st], tenant_bw_consumed[st], tenant_bw_budget[st])
  <1> USE DEF BudgetInv
  <1>1. st \in Accounted /\ st \in Tenants
    BY TenantsNum DEF IndexOK, Settle, At
  <1>2. /\ TENANT_RESTRICT_CYCLE \in Restrictions /\ TENANT_RESTRICT_BW \in Restrictions
        /\ cycle_used \in Nat /\ tenant_cycle_budget[st] \in Nat
        /\ tenant_bw_consumed[st] \in Nat /\ tenant_bw_budget[st] \in Nat
    BY <1>1 DEF TypeOK, Restrictions
  <1>3. /\ cyc.budget \in Nat /\ cyc.pool \in Nat
        /\ tenant_cycle_target[st] <= cyc.budget
        /\ cyc.budget <= tenant_cycle_budget_cap[st]
    BY <1>1, <1>2, TargetFacts, SettledFacts
  <1>4. /\ bw.budget \in Nat /\ bw.pool \in Nat
        /\ tenant_bw_target[st] <= bw.budget
        /\ bw.budget <= tenant_bw_budget_cap[st]
    BY <1>1, <1>2, TargetFacts, SettledFacts
  <1>5. sch_cycle_record_debt(tenant_cycle_budget[st], cycle_used, tenant_cycle_debt[st])
            \in 0..SIZE_MAX
    BY <1>1, <1>2, RecordDebtFacts DEF TypeOK
  <1>6. SizeAdd(tenant_cycle_report_used[st], cycle_used) \in 0..SIZE_MAX
    BY <1>1, SizeAddType DEF TypeOK
  <1>7. /\ tenant_cycle_budget' = [tenant_cycle_budget EXCEPT ![st] = cyc.budget]
        /\ tenant_bw_budget' = [tenant_bw_budget EXCEPT ![st] = bw.budget]
        /\ cycle_pool' = cycle_pool + cyc.pool
        /\ bw_pool' = bw_pool + bw.pool
    BY DEF Settle
  <1> HIDE DEF cyc, bw
  <1>8. TypeOK'
    BY <1>1, <1>3, <1>4, <1>5, <1>6, <1>7, TenantsAre, ArithmeticAssumption
       DEF TypeOK, SchPC, Settle, At, Goto, workers, MAX_TENANT_NUM
  <1>9. IndexOK'
    BY <1>1 DEF IndexOK, Settle, At, Goto
  <1>10. BudgetWithinCap'
    BY <1>1, <1>3, <1>4, <1>7 DEF BudgetWithinCap, TypeOK
  <1>11. SettledHasQuota'
    BY <1>1, <1>3, <1>4, <1>7, TenantsAre, TenantsNum
       DEF SettledHasQuota, Regranted, Settle, At, Goto, TypeOK
  <1>12. DebtorChecked'
    BY DEF DebtorChecked, InRollover, Settle, At, Goto
  <1> QED
    BY <1>8, <1>9, <1>10, <1>11, <1>12

\* Steps of the rollover that leave the budgets alone, and the report.
LEMMA ReleaseInv ==
    ASSUME BudgetInv,
           Release \/ OffDone \/ BucketDone \/ ReceiveDone \/ DrfIdle \/ DrfClear \/ Report
    PROVE  BudgetInv'
  <1> USE DEF BudgetInv, At, Goto, counters, budgets, reports, schLocals, workers, Release, OffDone,
              BucketDone, ReceiveDone, DrfIdle, DrfClear, Report, SettleDone, NextPeriod
  <1>1. TypeOK'
    <2>1. st \in Accounted => st \in Tenants
      BY TenantsNum
    <2>2. At("release") => st \in Accounted
      BY DEF IndexOK
    <2>3. CASE Report
      BY <2>3, TenantsNum, TenantsAre, ArithmeticAssumption DEF TypeOK, SchPC, MAX_TENANT_NUM
    <2>4. CASE ~Report
      BY <2>1, <2>2, <2>4, TenantsNum, TenantsAre DEF TypeOK, SchPC, Restrictions, MAX_TENANT_NUM
    <2> QED
      BY <2>3, <2>4
  <1>2. IndexOK' /\ BudgetWithinCap'
    BY DEF IndexOK, BudgetWithinCap
  <1>3. SettledHasQuota'
    BY TenantsNum, TenantsAre, AllBelow DEF SettledHasQuota, Regranted, TypeOK
  <1>4. DebtorChecked'
    BY DEF DebtorChecked, InRollover, Checked
  <1> QED
    BY <1>1, <1>2, <1>3, <1>4

\* Once every tenant has its quota, raising budgets keeps it so.
LEMMA QuotaKept ==
    ASSUME BudgetInv, \A t \in Accounted : Regranted(t),
           tenant_cycle_budget' \in [Tenants -> Nat], tenant_bw_budget' \in [Tenants -> Nat],
           \A t \in Tenants : /\ tenant_cycle_budget[t] <= tenant_cycle_budget'[t]
                              /\ tenant_bw_budget[t] <= tenant_bw_budget'[t]
    PROVE  SettledHasQuota'
  <1>1. \A t \in Accounted : /\ tenant_cycle_target[t] <= tenant_cycle_budget[t]
                             /\ tenant_bw_target[t] <= tenant_bw_budget[t]
    BY DEF BudgetInv, SettledHasQuota
  <1>2. \A t \in Accounted : /\ tenant_cycle_target[t] <= tenant_cycle_budget'[t]
                             /\ tenant_bw_target[t] <= tenant_bw_budget'[t]
    BY <1>1, TargetFacts, TenantsNum DEF BudgetInv, TypeOK
  <1> QED
    BY <1>2 DEF SettledHasQuota

\* sch_budget_receive fills a budget to its cap at most and takes what it adds
\* from the pool.
LEMMA ReceiveInv ==
    ASSUME BudgetInv, Receive
    PROVE  BudgetInv'
  <1> DEFINE
        cyc == sch_budget_receive(tenant_cycle_budget[st], tenant_cycle_budget_cap[st], cycle_pool)
        bw  == sch_budget_receive(tenant_bw_budget[st], tenant_bw_budget_cap[st], bw_pool)
  <1> USE DEF BudgetInv
  <1>1. st \in Accounted /\ st \in Tenants
    BY TenantsNum DEF Receive
  <1>2. /\ cyc.budget \in Nat /\ cyc.left \in Nat
        /\ tenant_cycle_budget[st] <= cyc.budget
        /\ cyc.budget <= tenant_cycle_budget_cap[st]
    BY <1>1, TargetFacts, ReceiveFacts DEF TypeOK, BudgetWithinCap
  <1>3. /\ bw.budget \in Nat /\ bw.left \in Nat
        /\ tenant_bw_budget[st] <= bw.budget
        /\ bw.budget <= tenant_bw_budget_cap[st]
    BY <1>1, TargetFacts, ReceiveFacts DEF TypeOK, BudgetWithinCap
  <1>4. /\ tenant_cycle_budget' = [tenant_cycle_budget EXCEPT ![st] = cyc.budget]
        /\ tenant_bw_budget' = [tenant_bw_budget EXCEPT ![st] = bw.budget]
        /\ cycle_pool' = cyc.left
        /\ bw_pool' = bw.left
    BY DEF Receive
  <1> HIDE DEF cyc, bw
  <1>5. TypeOK'
    BY <1>1, <1>2, <1>3, <1>4, TenantsAre
       DEF TypeOK, SchPC, Receive, At, Goto, counters, reports, workers, MAX_TENANT_NUM, Restrictions
  <1>6. IndexOK' /\ DebtorChecked'
    BY DEF IndexOK, DebtorChecked, InRollover, Receive, At, Goto
  <1>7. BudgetWithinCap'
    BY <1>1, <1>2, <1>3, <1>4 DEF BudgetWithinCap, TypeOK
  <1>8. SettledHasQuota'
    <2>1. \A t \in Accounted : Regranted(t)
      BY DEF Regranted, Receive, At
    <2>2. \A t \in Tenants : /\ tenant_cycle_budget[t] <= tenant_cycle_budget'[t]
                             /\ tenant_bw_budget[t] <= tenant_bw_budget'[t]
      BY <1>1, <1>2, <1>3, <1>4 DEF TypeOK
    <2>3. tenant_cycle_budget' \in [Tenants -> Nat] /\ tenant_bw_budget' \in [Tenants -> Nat]
      BY <1>5 DEF TypeOK
    <2> QED
      BY <2>1, <2>2, <2>3, QuotaKept
  <1> QED
    BY <1>5, <1>6, <1>7, <1>8

\* With one restricted tenant the whole pool goes to it, again up to its cap.
LEMMA DrfSingleInv ==
    ASSUME BudgetInv, NEW u \in Tenants, DrfSingle(u)
    PROVE  BudgetInv'
  <1> DEFINE
        cyc == sch_budget_receive(tenant_cycle_budget[u], tenant_cycle_budget_cap[u], cycle_pool)
        bw  == sch_budget_receive(tenant_bw_budget[u], tenant_bw_budget_cap[u], bw_pool)
  <1> USE DEF BudgetInv
  <1>1. /\ cyc.budget \in Nat
        /\ tenant_cycle_budget[u] <= cyc.budget
        /\ cyc.budget <= tenant_cycle_budget_cap[u]
    BY TargetFacts, ReceiveFacts DEF TypeOK, BudgetWithinCap
  <1>2. /\ bw.budget \in Nat
        /\ tenant_bw_budget[u] <= bw.budget
        /\ bw.budget <= tenant_bw_budget_cap[u]
    BY TargetFacts, ReceiveFacts DEF TypeOK, BudgetWithinCap
  <1>3. /\ tenant_cycle_budget' = [tenant_cycle_budget EXCEPT ![u] = cyc.budget]
        /\ tenant_bw_budget' = [tenant_bw_budget EXCEPT ![u] = bw.budget]
    BY DEF DrfSingle
  <1>4. At("take") /\ st \notin Accounted /\ spc' = "apply" /\ st' = 0
    BY DEF DrfSingle, SettleDone, Goto
  <1>5. /\ restrict_tenant' = [restrict_tenant EXCEPT ![u] = TENANT_RESTRICT_NONE]
        /\ cycle_pool' = 0 /\ bw_pool' = 0
        /\ tenant_cycle_report_periods' = tenant_cycle_report_periods + 1
        /\ UNCHANGED <<counters, tenant_cycle_debt, tenant_cycle_report_used, cycle_used,
                       restriction, workers, supply>>
    BY DEF DrfSingle, NextPeriod
  <1> HIDE DEF cyc, bw
  <1>6. TypeOK'
    BY <1>1, <1>2, <1>3, <1>4, <1>5
       DEF TypeOK, SchPC, counters, workers, MAX_TENANT_NUM, Restrictions
  <1>7. IndexOK' /\ DebtorChecked'
    BY <1>4 DEF IndexOK, DebtorChecked, InRollover, At
  <1>8. BudgetWithinCap'
    BY <1>1, <1>2, <1>3 DEF BudgetWithinCap, TypeOK
  <1>9. SettledHasQuota'
    <2>1. \A t \in Accounted : Regranted(t)
      BY <1>4, AllBelow DEF Regranted, At
    <2>2. \A t \in Tenants : /\ tenant_cycle_budget[t] <= tenant_cycle_budget'[t]
                             /\ tenant_bw_budget[t] <= tenant_bw_budget'[t]
      BY <1>1, <1>2, <1>3 DEF TypeOK
    <2>3. tenant_cycle_budget' \in [Tenants -> Nat] /\ tenant_bw_budget' \in [Tenants -> Nat]
      BY <1>6 DEF TypeOK
    <2> QED
      BY <2>1, <2>2, <2>3, QuotaKept
  <1> QED
    BY <1>6, <1>7, <1>8, <1>9

\* What sch_distribute_drf_pool is called with satisfies the assumptions of
\* DrfDistributionSound.
LEMMA AccountsFacts ==
    ASSUME BudgetInv
    PROVE  /\ CycleAccounts \in [Tenants -> Account]
           /\ BwAccounts \in [Tenants -> Account]
           /\ \A t \in Tenants : /\ CycleAccounts[t].budget = tenant_cycle_budget[t]
                                 /\ CycleAccounts[t].cap = tenant_cycle_budget_cap[t]
                                 /\ BwAccounts[t].budget = tenant_bw_budget[t]
                                 /\ BwAccounts[t].cap = tenant_bw_budget_cap[t]
                                 /\ CycleAccounts[t].budget <= CycleAccounts[t].cap
                                 /\ BwAccounts[t].budget <= BwAccounts[t].cap
  BY TargetFacts DEF BudgetInv, TypeOK, BudgetWithinCap, CycleAccounts, BwAccounts, Account

\* With both tenants restricted, the division keeps budgets under their caps.
LEMMA DrfShareInv ==
    ASSUME BudgetInv, DrfShare
    PROVE  BudgetInv'
  <1> DEFINE s == sch_distribute_drf_pool(restrict_tenant, CycleAccounts, BwAccounts,
                                          cycle_pool, bw_pool)
  <1> USE DEF BudgetInv
  <1>1. restrict_tenant \in [Tenants -> Restrictions] /\ cycle_pool \in Nat /\ bw_pool \in Nat
    BY DEF TypeOK
  <1>2. /\ s.cycle \in [Tenants -> Nat]
        /\ s.bw \in [Tenants -> Nat]
        /\ \A t \in Tenants :
              /\ tenant_cycle_budget[t] <= s.cycle[t] /\ s.cycle[t] <= tenant_cycle_budget_cap[t]
              /\ tenant_bw_budget[t] <= s.bw[t] /\ s.bw[t] <= tenant_bw_budget_cap[t]
    BY <1>1, AccountsFacts, DrfDistributionSound
  <1>3. tenant_cycle_budget' = s.cycle /\ tenant_bw_budget' = s.bw
    BY DEF DrfShare
  <1>4. At("take") /\ st \notin Accounted /\ spc' = "clear" /\ st' = 0
    BY DEF DrfShare, SettleDone, Goto
  <1>5. /\ cycle_pool' = 0 /\ bw_pool' = 0
        /\ tenant_cycle_report_periods' = tenant_cycle_report_periods + 1
        /\ UNCHANGED <<counters, restrict_tenant, tenant_cycle_debt, tenant_cycle_report_used,
                       cycle_used, restriction, workers, supply>>
    BY DEF DrfShare, NextPeriod
  <1> HIDE DEF s
  <1>6. TypeOK'
    BY <1>2, <1>3, <1>4, <1>5 DEF TypeOK, SchPC, counters, workers, MAX_TENANT_NUM
  <1>7. IndexOK' /\ DebtorChecked'
    BY <1>4 DEF IndexOK, DebtorChecked, InRollover, At
  <1>8. BudgetWithinCap'
    BY <1>2, <1>3 DEF BudgetWithinCap
  <1>9. SettledHasQuota'
    BY <1>2, <1>3, <1>4, TargetFacts, TenantsNum, AllBelow
       DEF SettledHasQuota, Regranted, At, TypeOK
  <1> QED
    BY <1>6, <1>7, <1>8, <1>9

\* sch_apply_cycle_debt: what a tenant still owes afterwards, it owes with an
\* empty budget.
LEMMA ApplyDebtInv ==
    ASSUME BudgetInv, ApplyDebt
    PROVE  BudgetInv'
  <1> USE DEF BudgetInv
  <1>1. \A t \in Tenants : /\ PaidOff(t).budget \in Nat
                           /\ PaidOff(t).debt \in 0..SIZE_MAX
                           /\ PaidOff(t).budget <= tenant_cycle_budget[t]
                           /\ PaidOff(t).budget = 0 \/ PaidOff(t).debt = 0
    BY ApplyDebtFacts DEF PaidOff, TypeOK
  <1>2. TypeOK'
    BY <1>1 DEF TypeOK, SchPC, ApplyDebt, Goto, counters, reports, schLocals, workers, MAX_TENANT_NUM
  <1>3. IndexOK' /\ SettledHasQuota'
    BY DEF IndexOK, SettledHasQuota, Regranted, ApplyDebt, At, Goto
  <1>4. BudgetWithinCap'
    BY <1>1, TargetFacts DEF BudgetWithinCap, TypeOK, ApplyDebt
  <1>5. DebtorChecked'
    <2>1. \A t \in Accounted : tenant_cycle_debt'[t] = 0 \/ tenant_cycle_budget'[t] = 0
      BY <1>1, TenantsNum DEF ApplyDebt
    <2>2. spc' = "report"
      BY DEF ApplyDebt, Goto
    <2> QED
      BY <2>1, <2>2 DEF DebtorChecked, Checked, At
  <1> QED
    BY <1>2, <1>3, <1>4, <1>5

\* The workers touch neither budgets nor restrictions.
LEMMA WorkerInv ==
    ASSUME BudgetInv, NEW w \in Workers, Worker(w)
    PROVE  BudgetInv'
  <1> USE DEF BudgetInv, counters, budgets, reports, schLocals, workers
  <1>1. /\ wq[w] \in Tenants
        /\ SizeAdd(tenant_cycle_consumed[wq[w]], cycle_delta[w]) \in 0..SIZE_MAX
        /\ SizeAdd(tenant_bw_consumed[wq[w]], packet_size[w]) \in 0..SIZE_MAX
    BY SizeAddType DEF TypeOK
  <1>2. (wq[w] + 1) % MAX_TENANT_NUM \in Tenants
    BY <1>1, TenantsAre DEF MAX_TENANT_NUM
  <1>3. TypeOK'
    <2>1. CASE PollSkip(w)
      BY <1>2, <2>1 DEF PollSkip, NextQueue, TypeOK, WorkerPC
    <2>2. CASE PollHit(w)
      BY <2>2 DEF PollHit, TypeOK, WorkerPC
    <2>3. CASE DrainStop(w)
      BY <1>2, <2>3 DEF DrainStop, NextQueue, TypeOK, WorkerPC
    <2>4. ASSUME NEW c \in PktCycles, NEW b \in PktBytes, DrainPacket(w, c, b)
          PROVE  TypeOK'
      <3>1. c \in 1..SIZE_MAX /\ b \in 1..SIZE_MAX
        BY ParameterAssumption
      <3> QED
        BY <1>1, <2>4, <3>1, ArithmeticAssumption DEF DrainPacket, TypeOK, WorkerPC
    <2>5. CASE ChargeCycles(w)
      BY <1>1, <2>5, ArithmeticAssumption DEF ChargeCycles, TypeOK, WorkerPC
    <2>6. CASE ChargeBytes(w)
      BY <1>1, <2>6, ArithmeticAssumption DEF ChargeBytes, AddBytes, TypeOK, WorkerPC
    <2>7. CASE BatchEnd(w)
      BY <1>1, <2>7, TenantsAre, ArithmeticAssumption DEF BatchEnd, AddBytes, TypeOK, WorkerPC
    <2>8. CASE Wake(w)
      BY <2>8 DEF Wake, TypeOK, WorkerPC
    <2> QED
      BY <2>1, <2>2, <2>3, <2>4, <2>5, <2>6, <2>7, <2>8 DEF Worker
  <1>4. UNCHANGED <<restrict_tenant, budgets, spc, st, restriction>>
    BY DEF Worker, PollSkip, PollHit, DrainStop, DrainPacket, ChargeCycles, ChargeBytes, BatchEnd,
           Wake
  <1>5. IndexOK' /\ BudgetWithinCap' /\ SettledHasQuota' /\ DebtorChecked'
    BY <1>4 DEF IndexOK, BudgetWithinCap, SettledHasQuota, DebtorChecked, Regranted, Checked,
                InRollover, At
  <1> QED
    BY <1>3, <1>5

\* A step that changes nothing preserves the invariant.
LEMMA StutterInv ==
    ASSUME BudgetInv, UNCHANGED vars
    PROVE  BudgetInv'
  BY DEF BudgetInv, TypeOK, IndexOK, BudgetWithinCap, SettledHasQuota, DebtorChecked, Regranted,
         Checked, InRollover, At, vars, counters, budgets, reports, schLocals, workers

\* Every step of the scheduler or of a worker preserves the invariant.
LEMMA NextBudgetInv ==
    ASSUME BudgetInv, [Next]_vars
    PROVE  BudgetInv'
  BY MoveBudgetInv, CheckBudgetInv, TakeCyclesInv, SettleInv, ReleaseInv, ReceiveInv, DrfSingleInv,
     DrfShareInv, ApplyDebtInv, WorkerInv, StutterInv
     DEF Next, Scheduler, CheckBudget, Rollover, Redistribute

\* BudgetInv is an invariant of the scheduler and its workers.
LEMMA BudgetInvariance == Spec => []BudgetInv
  BY InitBudgetInv, NextBudgetInv, PTL DEF Spec

\* Every variable of the scheduler and the workers keeps its type: no step
\* divides by zero, indexes a tenant that does not exist or wraps a budget.
THEOREM TypeCorrect == Spec => []TypeOK
  <1>1. BudgetInv => TypeOK
    BY DEF BudgetInv
  <1> QED
    BY <1>1, BudgetInvariance, PTL

\* No rollover, in any mode, takes a budget above its cap.
THEOREM CapsHold == Spec => []BudgetWithinCap
  <1>1. BudgetInv => BudgetWithinCap
    BY DEF BudgetInv
  <1> QED
    BY <1>1, BudgetInvariance, PTL

\* Every rollover leaves every accounted tenant at least its quota.
THEOREM QuotasHold == Spec => []QuotaGuaranteed
  <1>1. BudgetInv => QuotaGuaranteed
    BY DEF BudgetInv, SettledHasQuota, QuotaGuaranteed, Regranted, At
  <1> QED
    BY <1>1, BudgetInvariance, PTL

\* A tenant in debt has no budget and is restricted again by the first round
\* of checks after each rollover.
THEOREM DebtorsStopped == Spec => []DebtorStopped
  <1>1. BudgetInv => DebtorStopped
    BY DEF BudgetInv, DebtorChecked, DebtorStopped, Checked
  <1> QED
    BY <1>1, BudgetInvariance, PTL

-----------------------------------------------------------------------------
(* The ledger                                                              *)

\* The ledger balances when the scheduler starts.
LEMMA LInitLedgerInv == LInit => LedgerInv
  <1> SUFFICES ASSUME LInit PROVE LedgerInv
    OBVIOUS
  <1>1. BudgetInv
    BY InitBudgetInv DEF LInit
  <1>2. HistoryOK /\ LateInv
    BY DEF LInit, Init, HistoryOK, LateInv
  <1>3. AccountInv
    <2>1. /\ tenant_cycle_budget = tenant_cycle_target
          /\ \A t \in Tenants : quotas[t] = 1 /\ harvested[t] = 0 /\ tenant_cycle_debt[t] = 0
          /\ cycle_pool = 0 /\ spc = "loop"
      BY DEF LInit, Init
    <2>2. \A t \in Tenants : Granted[t] = tenant_cycle_target[t]
      BY <2>1, TargetFacts DEF Granted
    <2>3. PoolAccounted
      BY <2>1, <2>2, TargetFacts, TenantsAre DEF PoolAccounted, Total
    <2>4. \A t \in Accounted : ShareAccounted(t)
      BY <2>1, TargetFacts, TenantsNum DEF ShareAccounted, Regranted, At
    <2> QED
      BY <2>1, <2>3, <2>4 DEF AccountInv
  <1> QED
    BY <1>1, <1>2, <1>3 DEF LedgerInv

\* The history variables stay natural numbers.
LEMMA HistoryStep ==
    ASSUME LedgerInv, Record
    PROVE  HistoryOK'
  <1>1. cycle_used \in Nat
    BY DEF LedgerInv, BudgetInv, TypeOK
  <1> QED
    BY <1>1 DEF LedgerInv, HistoryOK, Record

\* A step that grants, settles and pays nothing.
Quiet ==
    /\ UNCHANGED <<tenant_cycle_budget, tenant_cycle_debt, quotas, harvested>>
    /\ cycle_pool' \in Nat /\ cycle_pool' <= cycle_pool
    /\ \A t \in Accounted : Regranted(t)' => Regranted(t)

\* The totals the ledger compares are natural numbers.
LEMMA TotalsAreNat ==
    ASSUME LedgerInv
    PROVE  /\ Granted \in [Tenants -> Nat]
           /\ Total(harvested) \in Nat /\ Total(tenant_cycle_budget) \in Nat
           /\ Total(Granted) \in Nat /\ Total(tenant_cycle_debt) \in Nat
           /\ cycle_pool \in Nat
  <1>1. Granted \in [Tenants -> Nat]
    BY TargetFacts, ProductIsNat DEF LedgerInv, HistoryOK, Granted
  <1> QED
    BY <1>1, TenantsAre, ArithmeticAssumption DEF LedgerInv, BudgetInv, TypeOK, HistoryOK, Total

\* A step that settles nothing and leaves budgets, debts and the pool alone
\* leaves the ledger balanced.
LEMMA QuietAccounts ==
    ASSUME LedgerInv, Quiet
    PROVE  AccountInv'
  <1> SUFFICES ASSUME Unsaturated'
               PROVE  /\ \A t \in Tenants : tenant_cycle_debt'[t] <= harvested'[t]
                      /\ PoolAccounted'
                      /\ \A t \in Accounted : ShareAccounted(t)'
    BY DEF AccountInv
  <1>1. Unsaturated
    BY DEF Quiet, Unsaturated
  <1>2. /\ \A t \in Tenants : tenant_cycle_debt[t] <= harvested[t]
        /\ PoolAccounted
        /\ \A t \in Accounted : ShareAccounted(t)
    BY <1>1 DEF LedgerInv, AccountInv
  <1>3. PoolAccounted'
    <2>1. Granted' = Granted
      BY DEF Quiet, Granted
    <2> QED
      BY <1>2, <2>1, TotalsAreNat DEF Quiet, PoolAccounted, Total
  <1>4. \A t \in Accounted : ShareAccounted(t)'
    BY <1>2 DEF Quiet, ShareAccounted
  <1> QED
    BY <1>2, <1>3, <1>4 DEF Quiet

\* Only the step that leaves "settle" enters a settlement in the ledger.
LEMMA NothingSettles ==
    ASSUME LedgerInv, Record, ~(At("settle") /\ spc' # "settle")
    PROVE  UNCHANGED <<quotas, harvested>>
  BY DEF LedgerInv, HistoryOK, Record, Settles

\* Every step except those that change budgets or debts is quiet.
LEMMA QuietSteps ==
    ASSUME LedgerInv, Record,
           \/ StartCheck \/ Reschedule \/ Activate \/ CheckBudget \/ StartRollover \/ SkipRollover
           \/ TakeCycles \/ Release \/ OffDone \/ BucketDone \/ ReceiveDone \/ DrfIdle \/ DrfClear
           \/ DrfClearDone \/ Report \/ SkipReport
           \/ \E w \in Workers : Worker(w)
    PROVE  Quiet
  <1>0. BudgetInv /\ TypeOK
    BY DEF LedgerInv, BudgetInv
  <1>1. UNCHANGED <<tenant_cycle_budget, tenant_cycle_debt>>
    BY DEF budgets, StartCheck, Reschedule, Activate, CheckBudget, CheckSkip, CheckLoadCycles,
           CheckLoadBytes, CheckStore, CheckDone, StartRollover, SkipRollover, TakeCycles, Release,
           OffDone, BucketDone, ReceiveDone, DrfIdle, DrfClear, DrfClearDone, Report, SkipReport,
           Worker, PollSkip, PollHit, DrainStop, DrainPacket, ChargeCycles, ChargeBytes, BatchEnd,
           Wake
  <1>2. cycle_pool' \in Nat /\ cycle_pool' <= cycle_pool
    BY <1>0
       DEF TypeOK, schLocals, StartCheck, Reschedule, Activate, CheckBudget, CheckSkip,
           CheckLoadCycles, CheckLoadBytes, CheckStore, CheckDone, StartRollover, SkipRollover,
           TakeCycles, Release, OffDone, BucketDone, ReceiveDone, DrfIdle, DrfClear, DrfClearDone,
           Report, SkipReport, Worker, PollSkip, PollHit, DrainStop, DrainPacket, ChargeCycles,
           ChargeBytes, BatchEnd, Wake
  <1>3. ~(At("settle") /\ spc' # "settle")
    BY DEF At, SettleDone, StartCheck, Reschedule, Activate, CheckBudget, CheckSkip, CheckLoadCycles,
           CheckLoadBytes, CheckStore, CheckDone, StartRollover, SkipRollover, TakeCycles, Release,
           OffDone, BucketDone, ReceiveDone, DrfIdle, DrfClear, DrfClearDone, Report, SkipReport,
           Worker, PollSkip, PollHit, DrainStop, DrainPacket, ChargeCycles, ChargeBytes, BatchEnd,
           Wake
  <1>4. \A t \in Accounted : Regranted(t)' => Regranted(t)
    <2>1. CASE \/ StartCheck \/ Reschedule \/ Activate \/ CheckBudget \/ StartRollover
               \/ SkipRollover \/ Report \/ SkipReport
      BY <2>1, TenantsNum, TenantsAre
         DEF Regranted, At, Goto, StartCheck, Reschedule, Activate, CheckBudget, CheckSkip,
             CheckLoadCycles, CheckLoadBytes, CheckStore, CheckDone, StartRollover, SkipRollover,
             Report, SkipReport
    <2>2. CASE TakeCycles \/ Release \/ ReceiveDone \/ DrfClear \/ DrfClearDone
      BY <1>0, <2>2, TenantsNum, TenantsAre
         DEF TypeOK, Regranted, At, Goto, TakeCycles, Release, ReceiveDone, DrfClear, DrfClearDone
    <2>3. CASE OffDone \/ BucketDone \/ DrfIdle
      BY <1>0, <2>3, AllBelow
         DEF Regranted, At, Goto, OffDone, BucketDone, DrfIdle, SettleDone
    <2>4. CASE \E w \in Workers : Worker(w)
      BY <2>4
         DEF Regranted, At, Worker, PollSkip, PollHit, DrainStop, DrainPacket, ChargeCycles,
             ChargeBytes, BatchEnd, Wake
    <2> QED
      BY <2>1, <2>2, <2>3, <2>4
  <1> QED
    BY <1>1, <1>2, <1>3, <1>4, NothingSettles DEF Quiet

\* Changing one tenant's entry changes the total by the difference.
LEMMA TotalOfUpdate ==
    ASSUME NEW f \in [Tenants -> Int], NEW g \in [Tenants -> Int], NEW u \in Tenants,
           \A t \in Tenants : t # u => g[t] = f[t]
    PROVE  Total(g) = Total(f) + (g[u] - f[u])
  BY TenantsAre DEF Total

\* Settlement: the new quota pays for what the new budget and the spill hold
\* beyond the unused rest, and the excess over the old budget becomes debt.
LEMMA SettleAccounts ==
    ASSUME LedgerInv, Settle, Record
    PROVE  AccountInv'
  <1> DEFINE
        cyc == Settled(TENANT_RESTRICT_CYCLE, st, tenant_cycle_target[st],
                       tenant_cycle_budget_cap[st], cycle_used, tenant_cycle_budget[st])
        excess == IF cycle_used > tenant_cycle_budget[st]
                  THEN cycle_used - tenant_cycle_budget[st] ELSE 0
        unused == IF tenant_cycle_budget[st] > cycle_used
                  THEN tenant_cycle_budget[st] - cycle_used ELSE 0
  <1>1. BudgetInv /\ TypeOK /\ HistoryOK /\ BudgetInv'
    BY SettleInv DEF LedgerInv, BudgetInv
  <1>2. TypeOK' /\ HistoryOK'
    BY <1>1, HistoryStep DEF BudgetInv
  <1>3. At("settle") /\ st \in Accounted /\ st \in Tenants
    BY <1>1, TenantsNum DEF BudgetInv, IndexOK, Settle, At
  <1>4. spc' # "settle"
    BY DEF Settle, Goto
  <1>5. /\ \A t \in Tenants : t # st => quotas'[t] = quotas[t] /\ harvested'[t] = harvested[t]
        /\ quotas'[st] = quotas[st] + 1
        /\ harvested'[st] = harvested[st] + cycle_used
    BY <1>3, <1>4 DEF Record, Settles
  <1>6. /\ TENANT_RESTRICT_CYCLE \in Restrictions
        /\ cycle_used \in Nat /\ cycle_used \in 0..SIZE_MAX
        /\ tenant_cycle_budget[st] \in Nat /\ tenant_cycle_debt[st] \in 0..SIZE_MAX
        /\ tenant_cycle_target[st] \in Nat /\ tenant_cycle_budget_cap[st] \in Nat
        /\ tenant_cycle_target[st] <= tenant_cycle_budget_cap[st]
        /\ cycle_pool \in Nat /\ quotas[st] \in Nat /\ harvested[st] \in Nat
    BY <1>1, <1>3, TargetFacts DEF TypeOK, HistoryOK, Restrictions
  <1>7. /\ cyc.budget \in Nat /\ cyc.pool \in Nat
        /\ cyc.budget <= tenant_cycle_budget_cap[st]
        /\ cyc.budget + cyc.pool <= tenant_cycle_target[st] + unused
    BY <1>3, <1>6, SettledFacts
  <1>8. /\ tenant_cycle_budget' = [tenant_cycle_budget EXCEPT ![st] = cyc.budget]
        /\ cycle_pool' = cycle_pool + cyc.pool
        /\ \A t \in Tenants : t # st => tenant_cycle_debt'[t] = tenant_cycle_debt[t]
        /\ tenant_cycle_debt'[st] =
              sch_cycle_record_debt(tenant_cycle_budget[st], cycle_used, tenant_cycle_debt[st])
    BY <1>1, <1>3 DEF Settle, TypeOK
  <1> HIDE DEF cyc
  <1>9. SUFFICES ASSUME Unsaturated'
                 PROVE  /\ \A t \in Tenants : tenant_cycle_debt'[t] <= harvested'[t]
                        /\ PoolAccounted'
                        /\ \A t \in Accounted : ShareAccounted(t)'
    BY DEF AccountInv
  <1>10. Unsaturated
    <2>1. \A t \in Tenants : harvested[t] <= harvested'[t] /\ harvested[t] \in Nat
                             /\ harvested'[t] \in Nat
      BY <1>1, <1>2, <1>5, <1>6 DEF HistoryOK
    <2> QED
      BY <1>9, <2>1, ArithmeticAssumption DEF Unsaturated
  <1>11. /\ \A t \in Tenants : tenant_cycle_debt[t] <= harvested[t]
         /\ PoolAccounted
         /\ \A t \in Accounted : ShareAccounted(t)
    BY <1>10 DEF LedgerInv, AccountInv
  <1>12. harvested[st] + cycle_used <= SIZE_MAX
    BY <1>3, <1>5, <1>9 DEF Unsaturated
  <1>13. tenant_cycle_debt[st] <= harvested[st]
    BY <1>3, <1>11
  <1>14. tenant_cycle_debt'[st] = tenant_cycle_debt[st] + excess
    <2>1. tenant_cycle_debt[st] + excess <= SIZE_MAX
      BY <1>6, <1>12, <1>13, ArithmeticAssumption
    <2> DEFINE dn == sch_cycle_record_debt(tenant_cycle_budget[st], cycle_used,
                                           tenant_cycle_debt[st])
    <2>2. dn = IF tenant_cycle_debt[st] + excess > SIZE_MAX THEN SIZE_MAX
               ELSE tenant_cycle_debt[st] + excess
      BY <1>6, RecordDebtFacts
    <2>3. tenant_cycle_debt'[st] = dn
      BY <1>8
    <2>4. tenant_cycle_debt[st] + excess \in Nat
      BY <1>6
    <2> HIDE DEF dn, excess
    <2> QED
      BY <2>1, <2>2, <2>3, <2>4, ArithmeticAssumption
  <1>15. \A t \in Tenants : tenant_cycle_debt'[t] <= harvested'[t]
    BY <1>1, <1>3, <1>5, <1>6, <1>8, <1>11, <1>14 DEF TypeOK, HistoryOK
  <1>16. PoolAccounted'
    <2>1. Granted \in [Tenants -> Int] /\ Granted' \in [Tenants -> Int]
      BY <1>1, <1>2, TargetFacts, ProductIsNat DEF Granted, HistoryOK
    <2>2. /\ \A t \in Tenants : t # st => Granted'[t] = Granted[t]
          /\ Granted'[st] = Granted[st] + tenant_cycle_target[st]
      BY <1>3, <1>5, <1>6 DEF Granted
    <2>3. Total(Granted') = Total(Granted) + tenant_cycle_target[st]
      BY <1>3, <1>6, <2>1, <2>2, TotalOfUpdate
    <2>4. Total(harvested') = Total(harvested) + cycle_used
      BY <1>1, <1>2, <1>3, <1>5, <1>6, TotalOfUpdate DEF HistoryOK
    <2>5. Total(tenant_cycle_budget') =
              Total(tenant_cycle_budget) + (cyc.budget - tenant_cycle_budget[st])
      <3>1. /\ tenant_cycle_budget \in [Tenants -> Int]
            /\ tenant_cycle_budget' \in [Tenants -> Int]
        BY <1>1, <1>2 DEF TypeOK
      <3>2. /\ tenant_cycle_budget'[st] = cyc.budget
            /\ \A t \in Tenants : t # st => tenant_cycle_budget'[t] = tenant_cycle_budget[t]
        BY <1>3, <1>8, <3>1
      <3> QED
        BY <1>3, <3>1, <3>2, TotalOfUpdate
    <2>6. Total(tenant_cycle_debt') = Total(tenant_cycle_debt) + excess
      <3>1. /\ tenant_cycle_debt \in [Tenants -> Int]
            /\ tenant_cycle_debt' \in [Tenants -> Int]
            /\ excess \in Nat
        BY <1>1, <1>2, <1>6, ArithmeticAssumption DEF TypeOK
      <3>2. Total(tenant_cycle_debt') =
                Total(tenant_cycle_debt) + (tenant_cycle_debt'[st] - tenant_cycle_debt[st])
        BY <1>3, <1>8, <3>1, TotalOfUpdate
      <3>3. tenant_cycle_debt[st] \in Int
        BY <1>3, <3>1
      <3> HIDE DEF excess
      <3> QED
        BY <1>14, <3>1, <3>2, <3>3
    <2>7. cycle_used + unused = tenant_cycle_budget[st] + excess
      BY <1>6
    <2>8. Total(Granted)' = Total(Granted') /\ Total(harvested)' = Total(harvested')
          /\ Total(tenant_cycle_budget)' = Total(tenant_cycle_budget')
          /\ Total(tenant_cycle_debt)' = Total(tenant_cycle_debt')
      BY DEF Total
    <2>9. /\ Total(harvested) \in Nat /\ Total(tenant_cycle_budget) \in Nat
          /\ Total(Granted) \in Nat /\ Total(tenant_cycle_debt) \in Nat
      BY TotalsAreNat
    <2>10. excess \in Nat /\ unused \in Nat
      BY <1>6
    <2> HIDE DEF excess, unused
    <2> QED
      BY <1>6, <1>7, <1>8, <1>11, <2>3, <2>4, <2>5, <2>6, <2>7, <2>8, <2>9, <2>10
         DEF PoolAccounted
  <1>17. ASSUME NEW t \in Accounted PROVE ShareAccounted(t)'
    <2>1. CASE t # st
      <3>1. t \in Tenants
        BY TenantsNum
      <3>2. Regranted(t)' => Regranted(t)
        BY <1>3, <2>1, <3>1, TenantsAre, <1>1 DEF Regranted, Settle, At, Goto, TypeOK
      <3>3. /\ quotas'[t] = quotas[t] /\ harvested'[t] = harvested[t]
            /\ tenant_cycle_budget'[t] = tenant_cycle_budget[t]
            /\ tenant_cycle_debt'[t] = tenant_cycle_debt[t]
        BY <1>1, <1>5, <1>8, <2>1, <3>1 DEF TypeOK
      <3> QED
        BY <1>11, <3>2, <3>3 DEF ShareAccounted
    <2>2. CASE t = st
      <3> DEFINE cap == tenant_cycle_budget_cap[st]
                 q == quotas[st]
      <3>1. /\ q * cap \in Nat
            /\ (q + 1) * cap = q * cap + cap
            /\ (q + 1) - 1 = q
        BY <1>6, ProductIsNat
      <3>2. harvested[st] + tenant_cycle_budget[st] <= q * cap + tenant_cycle_debt[st]
        BY <1>3, <1>11 DEF ShareAccounted
      <3>3. cycle_used <= tenant_cycle_budget[st] + excess /\ excess \in Nat
        BY <1>6
      <3>4. tenant_cycle_budget'[st] = cyc.budget
        BY <1>1, <1>3, <1>8 DEF TypeOK
      <3> HIDE DEF excess
      <3>5. harvested[st] + cycle_used <= q * cap + (tenant_cycle_debt[st] + excess)
        BY <1>6, <3>1, <3>2, <3>3
      <3>6. harvested[st] + cycle_used + cyc.budget
                <= (q + 1) * cap + (tenant_cycle_debt[st] + excess)
        BY <1>6, <1>7, <3>1, <3>3, <3>5
      <3> QED
        BY <1>5, <1>14, <2>2, <3>1, <3>4, <3>5, <3>6 DEF ShareAccounted
    <2> QED
      BY <2>1, <2>2
  <1> QED
    BY <1>15, <1>16, <1>17

\* A step that hands out some of the pool after every tenant was settled.
HandsOut ==
    /\ UNCHANGED <<tenant_cycle_debt, quotas, harvested>>
    /\ \A t \in Accounted : Regranted(t)
    /\ tenant_cycle_budget' \in [Tenants -> Nat]
    /\ \A t \in Tenants : tenant_cycle_budget'[t] <= tenant_cycle_budget_cap[t]
    /\ cycle_pool' \in Nat
    /\ Total(tenant_cycle_budget') + cycle_pool' <= Total(tenant_cycle_budget) + cycle_pool

\* Moving cycles from the pool to budgets under their caps leaves the ledger
\* balanced.
LEMMA HandOutAccounts ==
    ASSUME LedgerInv, HandsOut
    PROVE  AccountInv'
  <1>1. SUFFICES ASSUME Unsaturated'
                 PROVE  /\ \A t \in Tenants : tenant_cycle_debt'[t] <= harvested'[t]
                        /\ PoolAccounted'
                        /\ \A t \in Accounted : ShareAccounted(t)'
    BY DEF AccountInv
  <1>2. Unsaturated
    BY <1>1 DEF HandsOut, Unsaturated
  <1>3. /\ \A t \in Tenants : tenant_cycle_debt[t] <= harvested[t]
        /\ PoolAccounted
        /\ \A t \in Accounted : ShareAccounted(t)
    BY <1>2 DEF LedgerInv, AccountInv
  <1>4. PoolAccounted'
    <2>1. /\ Granted' = Granted
          /\ Total(tenant_cycle_budget)' = Total(tenant_cycle_budget')
          /\ Total(tenant_cycle_budget') \in Nat
      BY TenantsAre DEF HandsOut, Granted, Total
    <2>2. /\ Total(Granted)' = Total(Granted) /\ Total(harvested)' = Total(harvested)
          /\ Total(tenant_cycle_debt)' = Total(tenant_cycle_debt)
      BY <2>1 DEF HandsOut, Total
    <2> QED
      BY <1>3, <2>1, <2>2, TotalsAreNat DEF HandsOut, PoolAccounted
  <1>5. ASSUME NEW t \in Accounted PROVE ShareAccounted(t)'
    <2> DEFINE cap == tenant_cycle_budget_cap[t]
               q == quotas[t]
    <2>1. t \in Tenants
      BY TenantsNum
    <2>2. /\ cap \in Nat /\ q \in Nat \ {0} /\ harvested[t] \in Nat /\ tenant_cycle_debt[t] \in Nat
          /\ tenant_cycle_budget'[t] \in Nat
      BY <2>1, TargetFacts, ArithmeticAssumption
         DEF LedgerInv, HistoryOK, BudgetInv, TypeOK, HandsOut
    <2>3. harvested[t] <= (q - 1) * cap + tenant_cycle_debt[t]
      BY <1>3 DEF HandsOut, ShareAccounted
    <2>4. q - 1 \in Nat /\ (q - 1) * cap \in Nat /\ q * cap = (q - 1) * cap + cap
      <3>1. q - 1 \in Nat
        BY <2>2
      <3>2. (q - 1) * cap \in Nat
        BY <2>2, <3>1, ProductIsNat
      <3>3. q * cap = (q - 1) * cap + cap
        BY <2>2
      <3> QED
        BY <3>1, <3>2, <3>3
    <2>5. tenant_cycle_budget'[t] <= cap
      BY <2>1 DEF HandsOut
    <2>6. /\ quotas'[t] = q /\ harvested'[t] = harvested[t]
          /\ tenant_cycle_debt'[t] = tenant_cycle_debt[t]
      BY DEF HandsOut
    <2>7. harvested[t] + tenant_cycle_budget'[t] <= q * cap + tenant_cycle_debt[t]
      BY <2>2, <2>3, <2>4, <2>5
    <2> QED
      BY <2>3, <2>6, <2>7 DEF ShareAccounted
  <1> QED
    BY <1>3, <1>4, <1>5 DEF HandsOut

\* Raising one tenant's budget raises the total by the same amount.
LEMMA RaiseOneTotal ==
    ASSUME BudgetInv, NEW u \in Tenants, NEW r,
           r = sch_budget_receive(tenant_cycle_budget[u], tenant_cycle_budget_cap[u], cycle_pool),
           tenant_cycle_budget' = [tenant_cycle_budget EXCEPT ![u] = r.budget]
    PROVE  /\ r.left \in Nat
           /\ Total(tenant_cycle_budget') + r.left = Total(tenant_cycle_budget) + cycle_pool
           /\ Total(tenant_cycle_budget') \in Nat
  <1>1. tenant_cycle_budget[u] \in Nat /\ tenant_cycle_budget_cap[u] \in Nat /\ cycle_pool \in Nat
        /\ tenant_cycle_budget[u] <= tenant_cycle_budget_cap[u]
    BY TargetFacts DEF BudgetInv, TypeOK, BudgetWithinCap
  <1>2. /\ r.budget \in Nat /\ r.left \in Nat
        /\ r.budget + r.left = tenant_cycle_budget[u] + cycle_pool
    BY <1>1, ReceiveFacts
  <1>3. tenant_cycle_budget \in [Tenants -> Nat] /\ tenant_cycle_budget' \in [Tenants -> Nat]
    BY <1>2 DEF BudgetInv, TypeOK
  <1>4. tenant_cycle_budget \in [Tenants -> Int] /\ tenant_cycle_budget' \in [Tenants -> Int]
    BY <1>3
  <1>5. /\ tenant_cycle_budget'[u] = r.budget
        /\ \A t \in Tenants : t # u => tenant_cycle_budget'[t] = tenant_cycle_budget[t]
    BY <1>3
  <1>6. Total(tenant_cycle_budget') =
            Total(tenant_cycle_budget) + (tenant_cycle_budget'[u] - tenant_cycle_budget[u])
    BY <1>4, <1>5, TotalOfUpdate
  <1>7. Total(tenant_cycle_budget) \in Nat /\ Total(tenant_cycle_budget') \in Nat
    BY <1>3, TenantsAre DEF Total
  <1> QED
    BY <1>1, <1>2, <1>5, <1>6, <1>7

\* Receive, the single-tenant grant and the DRF division only move cycles from
\* the pool to budgets.
LEMMA HandOutSteps ==
    ASSUME LedgerInv, Record, Receive \/ (\E t \in Tenants : DrfSingle(t)) \/ DrfShare
    PROVE  HandsOut
  <1>1. BudgetInv /\ BudgetInv'
    BY ReceiveInv, DrfSingleInv, DrfShareInv DEF LedgerInv
  <1>2. UNCHANGED <<quotas, harvested>>
    BY NothingSettles DEF Receive, DrfSingle, DrfShare, SettleDone, At
  <1>3. UNCHANGED tenant_cycle_debt
    BY DEF Receive, DrfSingle, DrfShare
  <1>4. \A t \in Accounted : Regranted(t)
    BY <1>1, AllBelow DEF Receive, DrfSingle, DrfShare, SettleDone, At, Regranted, BudgetInv
  <1>5. /\ tenant_cycle_budget' \in [Tenants -> Nat]
        /\ \A t \in Tenants : tenant_cycle_budget'[t] <= tenant_cycle_budget_cap[t]
        /\ cycle_pool' \in Nat
    BY <1>1 DEF BudgetInv, TypeOK, BudgetWithinCap
  <1>6. Total(tenant_cycle_budget') + cycle_pool' <= Total(tenant_cycle_budget) + cycle_pool
    <2>1. CASE Receive
      <3> DEFINE r == sch_budget_receive(tenant_cycle_budget[st], tenant_cycle_budget_cap[st],
                                         cycle_pool)
      <3>1. st \in Tenants
        BY <2>1, TenantsNum DEF Receive
      <3>2. /\ tenant_cycle_budget' = [tenant_cycle_budget EXCEPT ![st] = r.budget]
            /\ cycle_pool' = r.left
        BY <2>1 DEF Receive
      <3> HIDE DEF r
      <3>3. Total(tenant_cycle_budget') + r.left = Total(tenant_cycle_budget) + cycle_pool
            /\ r.left \in Nat /\ Total(tenant_cycle_budget') \in Nat
        BY <1>1, <3>1, <3>2, RaiseOneTotal DEF r
      <3> QED
        BY <3>2, <3>3
    <2>2. ASSUME NEW u \in Tenants, DrfSingle(u)
          PROVE  Total(tenant_cycle_budget') + cycle_pool' <= Total(tenant_cycle_budget) + cycle_pool
      <3> DEFINE r == sch_budget_receive(tenant_cycle_budget[u], tenant_cycle_budget_cap[u],
                                         cycle_pool)
      <3>1. /\ tenant_cycle_budget' = [tenant_cycle_budget EXCEPT ![u] = r.budget]
            /\ cycle_pool' = 0
        BY <2>2 DEF DrfSingle
      <3> HIDE DEF r
      <3>2. Total(tenant_cycle_budget') + r.left = Total(tenant_cycle_budget) + cycle_pool
            /\ r.left \in Nat /\ Total(tenant_cycle_budget') \in Nat
        BY <1>1, <3>1, RaiseOneTotal DEF r
      <3> QED
        BY <3>1, <3>2
    <2>3. CASE DrfShare
      <3> DEFINE s == sch_distribute_drf_pool(restrict_tenant, CycleAccounts, BwAccounts,
                                              cycle_pool, bw_pool)
      <3>1. restrict_tenant \in [Tenants -> Restrictions] /\ cycle_pool \in Nat /\ bw_pool \in Nat
        BY <1>1 DEF BudgetInv, TypeOK
      <3>2. Total(s.cycle) <= CycleAccounts[0].budget + CycleAccounts[1].budget + cycle_pool
        BY <1>1, <3>1, AccountsFacts, DrfDistributionSound
      <3>3. tenant_cycle_budget' = s.cycle /\ cycle_pool' = 0
        BY <2>3 DEF DrfShare
      <3>4. CycleAccounts[0].budget + CycleAccounts[1].budget = Total(tenant_cycle_budget)
        BY <1>1, AccountsFacts, TenantsAre DEF Total
      <3>5. Total(tenant_cycle_budget') \in Nat
        BY <1>5, TenantsAre DEF Total
      <3> HIDE DEF s
      <3> QED
        BY <3>2, <3>3, <3>4, <3>5
    <2> QED
      BY <2>1, <2>2, <2>3
  <1> QED
    BY <1>2, <1>3, <1>4, <1>5, <1>6 DEF HandsOut

\* Paying takes the same amount off budget and debt.
LEMMA ApplyDebtAccounts ==
    ASSUME LedgerInv, ApplyDebt, Record
    PROVE  AccountInv'
  <1>1. BudgetInv /\ BudgetInv' /\ TypeOK /\ TypeOK' /\ HistoryOK
    BY ApplyDebtInv DEF LedgerInv, BudgetInv
  <1>2. UNCHANGED <<quotas, harvested>> /\ UNCHANGED cycle_pool
    BY NothingSettles DEF ApplyDebt, At, schLocals
  <1>3. \A t \in Tenants :
            /\ tenant_cycle_debt'[t] <= tenant_cycle_debt[t]
            /\ tenant_cycle_budget[t] - tenant_cycle_budget'[t]
                   = tenant_cycle_debt[t] - tenant_cycle_debt'[t]
    <2> SUFFICES ASSUME NEW t \in Tenants
                 PROVE  /\ tenant_cycle_debt'[t] <= tenant_cycle_debt[t]
                        /\ tenant_cycle_budget[t] - tenant_cycle_budget'[t]
                               = tenant_cycle_debt[t] - tenant_cycle_debt'[t]
      OBVIOUS
    <2>1. tenant_cycle_budget[t] \in Nat /\ tenant_cycle_debt[t] \in 0..SIZE_MAX
      BY <1>1 DEF TypeOK
    <2>2. /\ PaidOff(t).budget \in Nat
          /\ PaidOff(t).debt \in 0..SIZE_MAX
          /\ PaidOff(t).budget <= tenant_cycle_budget[t]
          /\ tenant_cycle_budget[t] - PaidOff(t).budget = tenant_cycle_debt[t] - PaidOff(t).debt
      BY <2>1, ApplyDebtFacts DEF PaidOff
    <2>3. CASE t \in Accounted
      <3>1. tenant_cycle_budget'[t] = PaidOff(t).budget /\ tenant_cycle_debt'[t] = PaidOff(t).debt
        BY <2>3 DEF ApplyDebt
      <3> QED
        BY <2>1, <2>2, <3>1, ArithmeticAssumption
    <2>4. CASE t \notin Accounted
      <3>1. /\ tenant_cycle_budget'[t] = tenant_cycle_budget[t]
            /\ tenant_cycle_debt'[t] = tenant_cycle_debt[t]
        BY <2>4 DEF ApplyDebt
      <3> QED
        BY <2>1, <3>1, ArithmeticAssumption
    <2> QED
      BY <2>3, <2>4
  <1>4. \A t \in Tenants :
            /\ tenant_cycle_budget[t] \in Nat /\ tenant_cycle_budget'[t] \in Nat
            /\ tenant_cycle_debt[t] \in Nat /\ tenant_cycle_debt'[t] \in Nat
            /\ harvested[t] \in Nat
    BY <1>1, ArithmeticAssumption DEF TypeOK, HistoryOK
  <1>5. SUFFICES ASSUME Unsaturated'
                 PROVE  /\ \A t \in Tenants : tenant_cycle_debt'[t] <= harvested'[t]
                        /\ PoolAccounted'
                        /\ \A t \in Accounted : ShareAccounted(t)'
    BY DEF AccountInv
  <1>6. Unsaturated
    BY <1>2, <1>5 DEF Unsaturated
  <1>7. /\ \A t \in Tenants : tenant_cycle_debt[t] <= harvested[t]
        /\ PoolAccounted
        /\ \A t \in Accounted : ShareAccounted(t)
    BY <1>6 DEF LedgerInv, AccountInv
  <1>8. \A t \in Tenants : tenant_cycle_debt'[t] <= harvested'[t]
    BY <1>2, <1>3, <1>4, <1>7
  <1>9. PoolAccounted'
    <2>1. /\ Granted' = Granted
      BY <1>2 DEF Granted
    <2>2. Total(tenant_cycle_budget') - Total(tenant_cycle_debt')
              = Total(tenant_cycle_budget) - Total(tenant_cycle_debt)
      BY <1>3, <1>4, TenantsAre DEF Total
    <2>3. /\ Total(tenant_cycle_budget') \in Nat /\ Total(tenant_cycle_debt') \in Nat
          /\ Total(tenant_cycle_budget)' = Total(tenant_cycle_budget')
          /\ Total(tenant_cycle_debt)' = Total(tenant_cycle_debt')
          /\ Total(Granted)' = Total(Granted) /\ Total(harvested)' = Total(harvested)
      BY <1>2, <1>4, <2>1, TenantsAre DEF Total
    <2> QED
      BY <1>2, <1>7, <2>2, <2>3, TotalsAreNat DEF PoolAccounted
  <1>10. ASSUME NEW t \in Accounted PROVE ShareAccounted(t)'
    <2>1. t \in Tenants
      BY TenantsNum
    <2>2. ~Regranted(t)'
      BY DEF Regranted, ApplyDebt, At, Goto
    <2>3. quotas[t] * tenant_cycle_budget_cap[t] \in Nat
      BY <1>1, <2>1, TargetFacts, ProductIsNat DEF HistoryOK
    <2>4. harvested[t] + tenant_cycle_budget[t]
              <= quotas[t] * tenant_cycle_budget_cap[t] + tenant_cycle_debt[t]
      BY <1>7 DEF ShareAccounted
    <2>5. harvested[t] + tenant_cycle_budget'[t]
              <= quotas[t] * tenant_cycle_budget_cap[t] + tenant_cycle_debt'[t]
      BY <1>3, <1>4, <2>1, <2>3, <2>4
    <2> QED
      BY <1>2, <2>2, <2>5 DEF ShareAccounted
  <1> QED
    BY <1>8, <1>9, <1>10

-----------------------------------------------------------------------------
(* Packets charged after a restriction                                     *)

\* How Record counts the packets charged to a restricted tenant.
LEMMA LateAfter ==
    ASSUME Record, NEW w \in Workers, NEW t \in Tenants
    PROVE  late'[w][t] = IF restrict_tenant'[t] = TENANT_RESTRICT_NONE THEN 0
                         ELSE IF Charges(w, t) THEN late[w][t] + 1
                         ELSE late[w][t]
  BY DEF Record

\* A step in which no worker charges, starts a packet or moves to another
\* queue keeps LateInv, whatever it does to the restrictions.
LEMMA LateQuiet ==
    ASSUME LedgerInv, Record, UNCHANGED <<wpc, wq>>
    PROVE  LateInv'
  <1> SUFFICES ASSUME NEW w \in Workers, NEW t \in Tenants
               PROVE  /\ late'[w][t] <= 1
                      /\ restrict_tenant'[t] = TENANT_RESTRICT_NONE => late'[w][t] = 0
                      /\ (wpc'[w] = "charge_cycles" /\ wq'[w] = t) => late'[w][t] = 0
    BY DEF LateInv
  <1>1. ~Charges(w, t)
    BY DEF Charges
  <1> QED
    BY <1>1, LateAfter DEF LedgerInv, LateInv

\* A worker charges the packet it had begun, and begins none for a restricted
\* tenant.
LEMMA LateWorker ==
    ASSUME LedgerInv, Record, NEW v \in Workers, Worker(v)
    PROVE  LateInv'
  <1> SUFFICES ASSUME NEW w \in Workers, NEW t \in Tenants
               PROVE  /\ late'[w][t] <= 1
                      /\ restrict_tenant'[t] = TENANT_RESTRICT_NONE => late'[w][t] = 0
                      /\ (wpc'[w] = "charge_cycles" /\ wq'[w] = t) => late'[w][t] = 0
    BY DEF LateInv
  <1>0. TypeOK /\ LateInv /\ late[w][t] \in Nat
    BY DEF LedgerInv, BudgetInv, HistoryOK
  <1>1. UNCHANGED restrict_tenant
    BY DEF Worker, PollSkip, PollHit, DrainStop, DrainPacket, ChargeCycles, ChargeBytes, BatchEnd,
           Wake
  <1>2. CASE w # v
    <2>1. wpc'[w] = wpc[w] /\ wq'[w] = wq[w]
      BY <1>0, <1>2
         DEF TypeOK, workers, Worker, PollSkip, PollHit, DrainStop, NextQueue, DrainPacket,
             ChargeCycles, ChargeBytes, BatchEnd, Wake
    <2>2. ~Charges(w, t)
      BY <2>1 DEF Charges
    <2> QED
      BY <1>0, <1>1, <2>1, <2>2, LateAfter DEF LateInv
  <1>3. CASE w = v /\ wpc[v] = "charge_cycles"
    <2>1. wpc'[v] = "charge_bytes"
      BY <1>0, <1>3
         DEF TypeOK, Worker, PollSkip, PollHit, DrainStop, DrainPacket, ChargeCycles, ChargeBytes,
             BatchEnd, AddBytes, Wake
    <2>2. wq[v] = t => late[v][t] = 0
      BY <1>0, <1>3 DEF LateInv
    <2>3. wq[v] # t => ~Charges(w, t)
      BY <1>3 DEF Charges
    <2> QED
      BY <1>0, <1>1, <1>3, <2>1, <2>2, <2>3, LateAfter DEF LateInv
  <1>4. CASE w = v /\ wpc[v] # "charge_cycles"
    <2>1. ~Charges(w, t)
      BY <1>4 DEF Charges
    <2>2. (wpc'[v] = "charge_cycles" /\ wq'[v] = t) => restrict_tenant[t] = TENANT_RESTRICT_NONE
      BY <1>0, <1>4
         DEF TypeOK, Worker, PollSkip, PollHit, DrainStop, NextQueue, DrainPacket, ChargeCycles,
             ChargeBytes, BatchEnd, AddBytes, Wake
    <2> QED
      BY <1>0, <1>1, <1>4, <2>1, <2>2, LateAfter DEF LateInv
  <1> QED
    BY <1>2, <1>3, <1>4

-----------------------------------------------------------------------------
(* The ledger's invariant and what follows from it                         *)

\* The scheduler writes none of the workers' locals.
LEMMA SchedulerLeavesWorkers ==
    ASSUME Scheduler
    PROVE  UNCHANGED <<wpc, wq>>
  BY DEF workers, Scheduler, StartCheck, Reschedule, Activate, CheckBudget, CheckSkip,
         CheckLoadCycles, CheckLoadBytes, CheckStore, CheckDone, StartRollover, SkipRollover,
         Rollover, TakeCycles, Settle, Release, Redistribute, OffDone, BucketDone, Receive,
         ReceiveDone, DrfIdle, DrfSingle, DrfShare, DrfClear, DrfClearDone, ApplyDebt, Report,
         SkipReport

\* Every step with its record in the ledger preserves the ledger's invariant.
LEMMA LNextLedgerInv ==
    ASSUME LedgerInv, [LNext]_lvars
    PROVE  LedgerInv'
  <1>1. CASE LNext
    <2>1. Next /\ Record
      BY <1>1 DEF LNext
    <2>2. BudgetInv'
      BY <2>1, NextBudgetInv DEF LedgerInv
    <2>3. HistoryOK'
      BY <2>1, HistoryStep
    <2>4. AccountInv'
      <3>1. CASE Settle
        BY <2>1, <3>1, SettleAccounts
      <3>2. CASE ApplyDebt
        BY <2>1, <3>2, ApplyDebtAccounts
      <3>3. CASE Receive \/ (\E t \in Tenants : DrfSingle(t)) \/ DrfShare
        BY <2>1, <3>3, HandOutSteps, HandOutAccounts
      <3>4. CASE \/ StartCheck \/ Reschedule \/ Activate \/ CheckBudget \/ StartRollover
                 \/ SkipRollover \/ TakeCycles \/ Release \/ OffDone \/ BucketDone \/ ReceiveDone
                 \/ DrfIdle \/ DrfClear \/ DrfClearDone \/ Report \/ SkipReport
                 \/ \E w \in Workers : Worker(w)
        BY <2>1, <3>4, QuietSteps, QuietAccounts
      <3> QED
        BY <2>1, <3>1, <3>2, <3>3, <3>4 DEF Next, Scheduler, Rollover, Redistribute
    <2>5. LateInv'
      <3>1. CASE Scheduler
        BY <2>1, <3>1, SchedulerLeavesWorkers, LateQuiet
      <3>2. CASE \E w \in Workers : Worker(w)
        BY <2>1, <3>2, LateWorker
      <3> QED
        BY <2>1, <3>1, <3>2 DEF Next
    <2> QED
      BY <2>2, <2>3, <2>4, <2>5 DEF LedgerInv
  <1>2. CASE UNCHANGED lvars
    <2>1. UNCHANGED vars /\ UNCHANGED ledger
      BY <1>2 DEF lvars
    <2>2. BudgetInv'
      BY <2>1, StutterInv DEF LedgerInv
    <2>3. HistoryOK' /\ AccountInv' /\ LateInv'
      BY <2>1
         DEF LedgerInv, HistoryOK, AccountInv, LateInv, Unsaturated, PoolAccounted, ShareAccounted,
             Granted, Total, Regranted, At, ledger, vars, budgets, schLocals, workers
    <2> QED
      BY <2>2, <2>3 DEF LedgerInv
  <1> QED
    BY <1>1, <1>2

\* The ledger's invariant holds in every reachable state.
LEMMA LedgerInvariance == LSpec => []LedgerInv
  BY LInitLedgerInv, LNextLedgerInv, PTL DEF LSpec

\* The ledger's history variables keep their types.
THEOREM LedgerTypeCorrect == LSpec => []LedgerTypeOK
  <1>1. LedgerInv => LedgerTypeOK
    BY DEF LedgerInv, BudgetInv, HistoryOK, LedgerTypeOK
  <1> QED
    BY <1>1, LedgerInvariance, PTL

\* Redistribution creates no budget: over any number of periods the tenants
\* together use what was granted, and what they use beyond it is debt.
THEOREM LongRun == LSpec => []LongRunBound
  <1>1. LedgerInv => LongRunBound
    <2> SUFFICES ASSUME LedgerInv, Unsaturated
                 PROVE  Total(harvested) + Total(tenant_cycle_budget)
                            <= Total(Granted) + Total(tenant_cycle_debt)
      BY DEF LongRunBound
    <2>1. PoolAccounted
      BY DEF LedgerInv, AccountInv
    <2> QED
      BY <2>1, TotalsAreNat DEF PoolAccounted
  <1> QED
    BY <1>1, LedgerInvariance, PTL

\* No tenant gets more than its cap per period in the long run, debts aside.
THEOREM TenantShare == LSpec => []TenantShareBound
  <1>1. LedgerInv => TenantShareBound
    BY DEF LedgerInv, AccountInv, ShareAccounted, TenantShareBound
  <1> QED
    BY <1>1, LedgerInvariance, PTL

\* A restriction takes effect within one packet per worker.
THEOREM RestrictionTakesEffect == LSpec => []OnePacketAfterRestrict
  <1>1. LedgerInv => OnePacketAfterRestrict
    BY DEF LedgerInv, LateInv, OnePacketAfterRestrict
  <1> QED
    BY <1>1, LedgerInvariance, PTL
=============================================================================
