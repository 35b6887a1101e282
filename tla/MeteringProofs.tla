--------------------------- MODULE MeteringProofs ---------------------------
(***************************************************************************)
(* The scheduler and its workers implement MeteredResource, for cycles and *)
(* for bytes: every step maps to one of its steps or to a stutter.         *)
(***************************************************************************)
EXTENDS TrafficProofs, BudgetMetering

-----------------------------------------------------------------------------
(* What the mapping rests on                                               *)

\* Settlement, to the cycle: without work conservation the rest is dropped,
\* with it budget and pool share what is due.
LEMMA SettledExact ==
    ASSUME NEW kind \in Restrictions, NEW t \in Tenants, NEW quota \in Nat, NEW cap \in Nat,
           NEW used \in Nat, NEW budget \in Nat, quota <= cap,
           NEW carried, carried = IF budget > used THEN budget - used ELSE 0
    PROVE  LET s == Settled(kind, t, quota, cap, used, budget)
           IN  /\ Mode = "OFF" => s.budget = quota /\ s.pool = 0
               /\ Mode # "OFF" => s.pool = quota + carried - s.budget
  <1> DEFINE s == sch_budget_settle(quota, cap, used, budget)
             r == sch_budget_reclaim_over_target(s.budget, quota)
  <1>1. /\ s.budget \in Nat
        /\ s.spill \in Nat
        /\ quota <= s.budget
        /\ s.budget + s.spill = quota + carried /\ carried \in Nat
    BY SettleFacts
  <1>2. r.budget = quota /\ r.excess = s.budget - quota
    BY <1>1, ReclaimFacts
  <1>3. Settled(kind, t, quota, cap, used, budget) =
            CASE Mode = "OFF" -> [budget |-> quota, pool |-> 0]
              [] Mode = "DRF" /\ restrict_tenant[t] = kind ->
                     [budget |-> r.budget, pool |-> s.spill + r.excess]
              [] OTHER -> [budget |-> s.budget, pool |-> s.spill]
    BY DEF Settled
  <1> HIDE DEF s, r
  <1>4. CASE Mode = "OFF"
    BY <1>3, <1>4
  <1>5. CASE Mode # "OFF" /\ Mode = "DRF" /\ restrict_tenant[t] = kind
    BY <1>1, <1>2, <1>3, <1>5
  <1>6. CASE Mode # "OFF" /\ ~(Mode = "DRF" /\ restrict_tenant[t] = kind)
    BY <1>1, <1>3, <1>6
  <1> QED
    BY <1>4, <1>5, <1>6

\* What a settlement does to the tenant at hand.
SettlesTo(cyc, bw) ==
    /\ cyc = Settled(TENANT_RESTRICT_CYCLE, st, tenant_cycle_target[st],
                     tenant_cycle_budget_cap[st], cycle_used, tenant_cycle_budget[st])
    /\ bw = Settled(TENANT_RESTRICT_BW, st, tenant_bw_target[st],
                    tenant_bw_budget_cap[st], tenant_bw_consumed[st], tenant_bw_budget[st])

\* A settlement in numbers.
LEMMA SettleNumbers ==
    ASSUME BudgetInv, Settle, NEW cyc, NEW bw, SettlesTo(cyc, bw)
    PROVE  /\ st \in Accounted /\ st \in Tenants
           /\ cyc.budget \in Nat /\ cyc.pool \in Nat /\ bw.budget \in Nat /\ bw.pool \in Nat
           /\ tenant_cycle_target[st] <= cyc.budget /\ cyc.budget <= tenant_cycle_budget_cap[st]
           /\ tenant_bw_target[st] <= bw.budget /\ bw.budget <= tenant_bw_budget_cap[st]
           /\ Mode = "OFF" => /\ cyc.budget = tenant_cycle_target[st] /\ cyc.pool = 0
                              /\ bw.budget = tenant_bw_target[st] /\ bw.pool = 0
           /\ Mode # "OFF" =>
                  /\ cyc.budget + cyc.pool
                         = tenant_cycle_target[st]
                           + (IF tenant_cycle_budget[st] > cycle_used
                              THEN tenant_cycle_budget[st] - cycle_used ELSE 0)
                  /\ bw.budget + bw.pool
                         = tenant_bw_target[st]
                           + (IF tenant_bw_budget[st] > tenant_bw_consumed[st]
                              THEN tenant_bw_budget[st] - tenant_bw_consumed[st] ELSE 0)
           /\ tenant_cycle_budget' = [tenant_cycle_budget EXCEPT ![st] = cyc.budget]
           /\ tenant_bw_budget' = [tenant_bw_budget EXCEPT ![st] = bw.budget]
           /\ cycle_pool' = cycle_pool + cyc.pool
           /\ bw_pool' = bw_pool + bw.pool
  <1>1. st \in Accounted /\ st \in Tenants
    BY TenantsNum DEF BudgetInv, IndexOK, Settle, At
  <1>2. /\ TENANT_RESTRICT_CYCLE \in Restrictions /\ TENANT_RESTRICT_BW \in Restrictions
        /\ cycle_used \in Nat /\ tenant_cycle_budget[st] \in Nat
        /\ tenant_bw_consumed[st] \in Nat /\ tenant_bw_budget[st] \in Nat
    BY <1>1 DEF BudgetInv, TypeOK, Restrictions
  <1>0. /\ tenant_cycle_target[st] \in Nat /\ tenant_cycle_budget_cap[st] \in Nat
        /\ tenant_cycle_target[st] <= tenant_cycle_budget_cap[st]
        /\ tenant_bw_target[st] \in Nat /\ tenant_bw_budget_cap[st] \in Nat
        /\ tenant_bw_target[st] <= tenant_bw_budget_cap[st]
    BY <1>1, TargetFacts
  <1>3. /\ cyc.budget \in Nat /\ cyc.pool \in Nat
        /\ tenant_cycle_target[st] <= cyc.budget
        /\ cyc.budget <= tenant_cycle_budget_cap[st]
    BY <1>1, <1>2, TargetFacts, SettledFacts DEF SettlesTo
  <1>4. /\ bw.budget \in Nat /\ bw.pool \in Nat
        /\ tenant_bw_target[st] <= bw.budget
        /\ bw.budget <= tenant_bw_budget_cap[st]
    BY <1>1, <1>2, TargetFacts, SettledFacts DEF SettlesTo
  <1>5. /\ Mode = "OFF" => cyc.budget = tenant_cycle_target[st] /\ cyc.pool = 0
        /\ Mode # "OFF" =>
               cyc.budget + cyc.pool = tenant_cycle_target[st]
                   + (IF tenant_cycle_budget[st] > cycle_used
                      THEN tenant_cycle_budget[st] - cycle_used ELSE 0)
    <2>1. PICK carried : carried = IF tenant_cycle_budget[st] > cycle_used
                                   THEN tenant_cycle_budget[st] - cycle_used ELSE 0
      OBVIOUS
    <2>2. /\ Mode = "OFF" => cyc.budget = tenant_cycle_target[st] /\ cyc.pool = 0
          /\ Mode # "OFF" => cyc.pool = tenant_cycle_target[st] + carried - cyc.budget
      <3>1. PICK budget \in Nat : budget = tenant_cycle_budget[st]
        BY <1>2
      <3>2. PICK quota \in Nat : quota = tenant_cycle_target[st]
        BY <1>0
      <3>3. PICK cap \in Nat : cap = tenant_cycle_budget_cap[st]
        BY <1>0
      <3>a. PICK used \in Nat : used = cycle_used
        BY <1>2
      <3>4. cyc = Settled(TENANT_RESTRICT_CYCLE, st, quota, cap, used, budget)
        BY <3>1, <3>2, <3>3, <3>a DEF SettlesTo
      <3>5. quota <= cap /\ carried = IF budget > used THEN budget - used ELSE 0
        BY <1>0, <2>1, <3>1, <3>2, <3>3, <3>a
      <3>6. /\ Mode = "OFF" => cyc.budget = quota /\ cyc.pool = 0
            /\ Mode # "OFF" => cyc.pool = quota + carried - cyc.budget
        <4>1. TENANT_RESTRICT_CYCLE \in Restrictions /\ st \in Tenants
          BY <1>1, <1>2
        <4> QED
          BY <3>4, <3>5, <4>1, SettledExact
      <3> QED
        BY <3>2, <3>6
    <2>3. carried \in Nat
      BY <1>2, <2>1
    <2> QED
      BY <1>0, <1>3, <2>1, <2>2, <2>3
  <1>6. /\ Mode = "OFF" => bw.budget = tenant_bw_target[st] /\ bw.pool = 0
        /\ Mode # "OFF" =>
               bw.budget + bw.pool = tenant_bw_target[st]
                   + (IF tenant_bw_budget[st] > tenant_bw_consumed[st]
                      THEN tenant_bw_budget[st] - tenant_bw_consumed[st] ELSE 0)
    <2>1. PICK carried : carried = IF tenant_bw_budget[st] > tenant_bw_consumed[st]
                                   THEN tenant_bw_budget[st] - tenant_bw_consumed[st] ELSE 0
      OBVIOUS
    <2>2. /\ Mode = "OFF" => bw.budget = tenant_bw_target[st] /\ bw.pool = 0
          /\ Mode # "OFF" => bw.pool = tenant_bw_target[st] + carried - bw.budget
      <3>1. PICK budget \in Nat : budget = tenant_bw_budget[st]
        BY <1>2
      <3>2. PICK quota \in Nat : quota = tenant_bw_target[st]
        BY <1>0
      <3>3. PICK cap \in Nat : cap = tenant_bw_budget_cap[st]
        BY <1>0
      <3>a. PICK used \in Nat : used = tenant_bw_consumed[st]
        BY <1>2
      <3>4. bw = Settled(TENANT_RESTRICT_BW, st, quota, cap, used, budget)
        BY <3>1, <3>2, <3>3, <3>a DEF SettlesTo
      <3>5. quota <= cap /\ carried = IF budget > used THEN budget - used ELSE 0
        BY <1>0, <2>1, <3>1, <3>2, <3>3, <3>a
      <3>6. /\ Mode = "OFF" => bw.budget = quota /\ bw.pool = 0
            /\ Mode # "OFF" => bw.pool = quota + carried - bw.budget
        <4>1. TENANT_RESTRICT_BW \in Restrictions /\ st \in Tenants
          BY <1>1, <1>2
        <4> QED
          BY <3>4, <3>5, <4>1, SettledExact
      <3> QED
        BY <3>2, <3>6
    <2>3. carried \in Nat
      BY <1>2, <2>1
    <2> QED
      BY <1>0, <1>4, <2>1, <2>2, <2>3
  <1>7. /\ tenant_cycle_budget' = [tenant_cycle_budget EXCEPT ![st] = cyc.budget]
        /\ tenant_bw_budget' = [tenant_bw_budget EXCEPT ![st] = bw.budget]
        /\ cycle_pool' = cycle_pool + cyc.pool
        /\ bw_pool' = bw_pool + bw.pool
    BY DEF Settle, SettlesTo
  <1> QED
    BY <1>1, <1>3, <1>4, <1>5, <1>6, <1>7

\* The pools are empty unless a rollover is filling or emptying them.
LEMMA PoolsEmptyStep ==
    ASSUME BudgetInv, PoolsEmpty, Next
    PROVE  PoolsEmpty'
  <1> USE DEF At, Goto, SettleDone, schLocals
  <1>1. CASE Settle
    <2>1. PICK cyc, bw : SettlesTo(cyc, bw)
      BY DEF SettlesTo
    <2>2. CASE Mode = "OFF"
      BY <1>1, <2>1, <2>2, SettleNumbers DEF PoolsEmpty
    <2>3. CASE Mode # "OFF"
      BY <1>1, <2>3 DEF PoolsEmpty, Settle
    <2> QED
      BY <2>2, <2>3
  <1>2. CASE Scheduler /\ ~Settle
    <2>0. CASE Receive
      BY <2>0 DEF PoolsEmpty, Receive, sch_budget_receive
    <2>1. CASE ReceiveDone \/ DrfIdle \/ DrfShare \/ (\E t \in Tenants : DrfSingle(t))
      BY <2>1 DEF PoolsEmpty, ReceiveDone, DrfIdle, DrfShare, DrfSingle
    <2>2. CASE Release
      BY <2>2 DEF PoolsEmpty, Release
    <2>3. CASE TakeCycles \/ BucketDone \/ OffDone
      BY <2>3 DEF PoolsEmpty, TakeCycles, BucketDone, OffDone
    <2>4. CASE DrfClear \/ DrfClearDone \/ ApplyDebt \/ Report \/ SkipReport
      BY <2>4 DEF PoolsEmpty, DrfClear, DrfClearDone, ApplyDebt, Report, SkipReport
    <2>5. CASE StartCheck \/ Reschedule \/ Activate \/ CheckBudget \/ StartRollover \/ SkipRollover
      BY <2>5
         DEF PoolsEmpty, StartCheck, Reschedule, Activate, CheckBudget, CheckSkip, CheckLoadCycles,
             CheckLoadBytes, CheckStore, CheckDone, StartRollover, SkipRollover
    <2> QED
      BY <1>2, <2>0, <2>1, <2>2, <2>3, <2>4, <2>5 DEF Scheduler, Rollover, Redistribute
  <1>3. ASSUME NEW v \in Workers, Worker(v) PROVE PoolsEmpty'
    BY <1>3, WorkerFrame DEF PoolsEmpty, BudgetInv
  <1> QED
    BY <1>1, <1>2, <1>3 DEF Next

\* Only the settlement of a tenant and the end of the rollover change which
\* tenants have been settled.
LEMMA SettledSetKept ==
    ASSUME BudgetInv, Next, ~Settle, ~ApplyDebt, NEW t \in Accounted
    PROVE  Regranted(t)' <=> Regranted(t)
  <1> USE DEF At, Goto, SettleDone
  <1>0. TypeOK /\ st \in 0..2 /\ t \in 0..1
    BY TenantsNum, TenantsAre DEF BudgetInv, TypeOK, MAX_TENANT_NUM
  <1>1. CASE StartCheck \/ Reschedule \/ Activate \/ CheckBudget \/ StartRollover \/ SkipRollover
             \/ Report \/ SkipReport
    BY <1>0, <1>1
       DEF Regranted, StartCheck, Reschedule, Activate, CheckBudget, CheckSkip, CheckLoadCycles,
           CheckLoadBytes, CheckStore, CheckDone, StartRollover, SkipRollover, Report, SkipReport
  <1>2. CASE TakeCycles \/ Release
    BY <1>0, <1>2 DEF Regranted, TakeCycles, Release
  <1>3. CASE Receive \/ ReceiveDone \/ DrfClear \/ DrfClearDone
    BY <1>3 DEF Regranted, Receive, ReceiveDone, DrfClear, DrfClearDone
  <1>4. CASE OffDone \/ BucketDone \/ DrfIdle \/ DrfShare \/ (\E u \in Tenants : DrfSingle(u))
    BY <1>0, <1>4, AllBelow DEF Regranted, OffDone, BucketDone, DrfIdle, DrfShare, DrfSingle
  <1>5. ASSUME NEW v \in Workers, Worker(v) PROVE Regranted(t)' <=> Regranted(t)
    BY <1>0, <1>5, WorkerFrame DEF Regranted
  <1> QED
    BY <1>1, <1>2, <1>3, <1>4, <1>5 DEF Next, Scheduler, Rollover, Redistribute

\* After a rollover either the debt or the budget is gone; until a tenant's
\* next settlement neither changes.
LEMMA DebtorWaitsStep ==
    ASSUME BudgetInv, DebtorWaits, Next
    PROVE  DebtorWaits'
  <1> USE DEF At, Goto
  <1> SUFFICES ASSUME NEW t \in Accounted, tenant_cycle_debt'[t] > 0, ~Regranted(t)'
               PROVE  tenant_cycle_budget'[t] = 0
    BY DEF DebtorWaits
  <1>0. TypeOK /\ st \in 0..2 /\ t \in 0..1 /\ t \in Tenants
    BY TenantsNum, TenantsAre DEF BudgetInv, TypeOK, MAX_TENANT_NUM
  <1>1. CASE Settle
    <2>1. t # st /\ ~Regranted(t)
      BY <1>0, <1>1 DEF Regranted, Settle
    <2>2. /\ tenant_cycle_debt'[t] = tenant_cycle_debt[t]
          /\ tenant_cycle_budget'[t] = tenant_cycle_budget[t]
      BY <1>0, <1>1, <2>1 DEF Settle, TypeOK
    <2> QED
      BY <2>1, <2>2 DEF DebtorWaits
  <1>2. CASE ApplyDebt
    <2>1. tenant_cycle_budget[t] \in Nat /\ tenant_cycle_debt[t] \in 0..SIZE_MAX
      BY <1>0 DEF TypeOK
    <2>2. PaidOff(t).budget = 0 \/ PaidOff(t).debt = 0
      BY <2>1, ApplyDebtFacts DEF PaidOff
    <2>3. tenant_cycle_budget'[t] = PaidOff(t).budget /\ tenant_cycle_debt'[t] = PaidOff(t).debt
      BY <1>0, <1>2 DEF ApplyDebt
    <2> QED
      BY <2>2, <2>3
  <1>3. CASE ~Settle /\ ~ApplyDebt
    <2>1. ~Regranted(t)
      BY <1>3, SettledSetKept
    <2>2. CASE Receive \/ DrfSingle(0) \/ DrfSingle(1) \/ DrfShare
      <3>1. Regranted(t)
        BY <1>0, <2>2, AllBelow DEF Regranted, Receive, DrfSingle, DrfShare, SettleDone
      <3> QED
        BY <2>1, <3>1
    <2>3. CASE Scheduler /\ ~(Receive \/ DrfSingle(0) \/ DrfSingle(1) \/ DrfShare)
      <3>1. UNCHANGED <<tenant_cycle_budget, tenant_cycle_debt>>
        BY <1>3, <2>3, TenantsAre
           DEF budgets, Scheduler, StartCheck, Reschedule, Activate, CheckBudget, CheckSkip,
               CheckLoadCycles, CheckLoadBytes, CheckStore, CheckDone, StartRollover, SkipRollover,
               Rollover, TakeCycles, Release, Redistribute, OffDone, BucketDone, ReceiveDone,
               DrfIdle, DrfClear, DrfClearDone, Report, SkipReport
      <3> QED
        BY <2>1, <3>1 DEF DebtorWaits
    <2>4. ASSUME NEW v \in Workers, Worker(v) PROVE tenant_cycle_budget'[t] = 0
      <3>1. UNCHANGED <<tenant_cycle_budget, tenant_cycle_debt>>
        BY <1>0, <2>4, WorkerFrame DEF budgets
      <3> QED
        BY <2>1, <3>1 DEF DebtorWaits
    <2> QED
      BY <2>2, <2>3, <2>4 DEF Next
  <1> QED
    BY <1>1, <1>2, <1>3

\* MeterInv is an invariant of the scheduler and its workers.
LEMMA MeterInvariance ==
    ASSUME NEW r \in 1..SIZE_MAX, FitsAt(r)
    PROVE  Spec => []MeterInv(r)
  <1>1. Init => PoolsEmpty /\ DebtorWaits
    BY TenantsNum DEF Init, PoolsEmpty, DebtorWaits
  <1>2. TrafficInv(r) /\ PoolsEmpty /\ DebtorWaits /\ [Next]_vars => PoolsEmpty' /\ DebtorWaits'
    <2> SUFFICES ASSUME TrafficInv(r), PoolsEmpty, DebtorWaits, [Next]_vars
                 PROVE  PoolsEmpty' /\ DebtorWaits'
      OBVIOUS
    <2>1. CASE Next
      BY <2>1, PoolsEmptyStep, DebtorWaitsStep DEF TrafficInv
    <2>2. CASE UNCHANGED vars
      BY <2>2 DEF PoolsEmpty, DebtorWaits, Regranted, At, vars, budgets, schLocals
    <2> QED
      BY <2>1, <2>2
  <1>3. Spec => []TrafficInv(r)
    BY TrafficInvariance
  <1> QED
    BY <1>1, <1>2, <1>3, PTL DEF Spec, MeterInv

-----------------------------------------------------------------------------
(* Steps of the workers                                                    *)

\* A worker moves no balance, no gate and no settlement.
LEMMA WorkerMapped ==
    ASSUME TypeOK, NEW v \in Workers, Worker(v)
    PROVE  /\ UNCHANGED <<CycleBalance, cycle_pool, CycleGate, SettledTenants>>
           /\ UNCHANGED <<tenant_bw_budget, bw_pool, ByteGate>>
           /\ \A t \in Tenants : Taken(t)' = Taken(t)
  <1>1. UNCHANGED <<restrict_tenant, tenant_cycle_budget, tenant_bw_budget, tenant_cycle_debt, spc,
                    st, cycle_used, cycle_pool, bw_pool>>
    BY WorkerFrame DEF budgets, schLocals
  <1> QED
    BY <1>1 DEF CycleBalance, CycleGate, ByteGate, GateFor, SettledTenants, Regranted, Taken, At

\* A worker's step is one of the metered resource's, or none: the packet it
\* begins is work, the first of its two charges is the one that is metered.
LEMMA WorkerCyclesMapped ==
    ASSUME NEW r \in 1..SIZE_MAX, FitsAt(r), TrafficInv(r), NEW v \in Workers, Worker(v)
    PROVE  [Cycles!MNext]_(Cycles!mvars)
  <1>1. BudgetInv /\ TypeOK /\ TypeOK' /\ WorkersCharging /\ CyclesFit
    BY WorkerInv DEF TrafficInv, BudgetInv
  <1>2. \A t \in Tenants : /\ Outstanding(t)' = Outstanding(t)
                           /\ tenant_cycle_consumed[t] <= tenant_cycle_consumed'[t]
    BY <1>1, TrafficBound, WorkerCycles
  <1>3. /\ UNCHANGED <<CycleBalance, cycle_pool, CycleGate, SettledTenants>>
        /\ \A t \in Tenants : Taken(t)' = Taken(t)
    BY <1>1, WorkerMapped
  <1>4. \A w \in Workers : w # v => CycleJob'[w] = CycleJob[w]
    BY <1>1, WorkerFrame DEF CycleJob, Unmetered
  <1>5. /\ CycleJob[v] = IF wpc[v] = "charge_cycles" THEN [tenant |-> wq[v], cost |-> cycle_delta[v]]
                                                     ELSE [tenant |-> 0, cost |-> 0]
        /\ CycleJob'[v] = IF wpc'[v] = "charge_cycles"
                          THEN [tenant |-> wq'[v], cost |-> cycle_delta'[v]]
                          ELSE [tenant |-> 0, cost |-> 0]
        /\ CycleJob = [w \in Workers |-> CycleJob[w]]
        /\ CycleJob' = [w \in Workers |-> CycleJob'[w]]
    BY DEF CycleJob, Unmetered
  <1>6. CASE \/ Looks(v)
             \/ ChargeBytes(v) \/ BatchEnd(v)
    <2>1. /\ UNCHANGED tenant_cycle_consumed
          /\ wpc[v] # "charge_cycles" /\ wpc'[v] # "charge_cycles"
      BY <1>1, <1>6, LooksFacts, ChargeBytesFacts DEF counters
    <2>2. CycleJob' = CycleJob
      BY <1>4, <1>5, <2>1
    <2>3. CycleMeter' = CycleMeter
      BY <1>3, <2>1 DEF CycleMeter
    <2> QED
      BY <1>3, <2>2, <2>3 DEF Cycles!mvars
  <1>7. ASSUME NEW c \in PktCycles, NEW b \in PktBytes, DrainPacket(v, c, b)
        PROVE  [Cycles!MNext]_(Cycles!mvars)
    <2>1. /\ UNCHANGED tenant_cycle_consumed
          /\ wpc[v] = "drain" /\ wpc'[v] = "charge_cycles" /\ wq'[v] = wq[v] /\ cycle_delta'[v] = c
      BY <1>1, <1>7, DrainFacts DEF counters
    <2>2. wq[v] \in Tenants /\ CycleGate[wq[v]] = "open"
      BY <1>1, <1>7 DEF DrainPacket, TypeOK, CycleGate, GateFor
    <2>3. CycleJob' = [CycleJob EXCEPT ![v] = [tenant |-> wq[v], cost |-> c]]
      BY <1>4, <1>5, <2>1
    <2>4. CycleMeter' = CycleMeter
      BY <1>3, <2>1 DEF CycleMeter
    <2>5. CycleJob[v] = [tenant |-> 0, cost |-> 0]
      BY <1>5, <2>1
    <2>6. Cycles!Work(v, wq[v], c)
      BY <1>3, <2>2, <2>3, <2>4, <2>5 DEF Cycles!Work, Cycles!NoJob
    <2>7. wq[v] \in Cycles!Tenants
      BY <2>2, TenantsAre DEF Cycles!Tenants
    <2> QED
      BY <2>6, <2>7 DEF Cycles!MNext
  <1>8. CASE ChargeCycles(v)
    <2>1. /\ wpc[v] = "charge_cycles" /\ wpc'[v] = "charge_bytes" /\ wq[v] \in Tenants
          /\ \A t \in Tenants : t # wq[v] => tenant_cycle_consumed'[t] = tenant_cycle_consumed[t]
          /\ tenant_cycle_consumed'[wq[v]] = SizeAdd(tenant_cycle_consumed[wq[v]], cycle_delta[v])
      BY <1>1, <1>8, ChargeCyclesFacts DEF TypeOK
    <2>2. cycle_delta[v] \in PktCycles /\ cycle_delta[v] \in 1..SIZE_MAX
      BY <2>1, <1>1, ParameterAssumption DEF WorkersCharging
    <2>3. CycleJob[v] = [tenant |-> wq[v], cost |-> cycle_delta[v]]
      BY <1>5, <2>1
    <2>4. CycleJob[v] # Cycles!NoJob
      BY <2>2, <2>3, ArithmeticAssumption DEF Cycles!NoJob
    <2>5. CycleJob' = [CycleJob EXCEPT ![v] = Cycles!NoJob]
      BY <1>4, <1>5, <2>1 DEF Cycles!NoJob
    <2>6. tenant_cycle_consumed'[wq[v]] = tenant_cycle_consumed[wq[v]] + cycle_delta[v]
      <3>1. tenant_cycle_consumed[wq[v]] \in 0..SIZE_MAX
        BY <1>1, <2>1 DEF TypeOK
      <3>2. tenant_cycle_consumed[wq[v]] <= tenant_cycle_consumed'[wq[v]]
        BY <1>2, <2>1
      <3> QED
        BY <2>1, <2>2, <3>1, <3>2, ArithmeticAssumption DEF SizeAdd
    <2>7. /\ CycleMeter = [t \in Tenants |-> tenant_cycle_consumed[t] + Taken(t)]
          /\ CycleMeter' = [t \in Tenants |-> tenant_cycle_consumed'[t] + Taken(t)]
      BY <1>3 DEF CycleMeter
    <2>8. \A t \in Tenants : Taken(t) \in Int /\ tenant_cycle_consumed[t] \in Int
      BY <1>1, ArithmeticAssumption DEF Taken, TypeOK
    <2>9. CycleMeter' = [CycleMeter EXCEPT ![wq[v]] = @ + cycle_delta[v]]
      BY <2>1, <2>2, <2>6, <2>7, <2>8
    <2>10. Cycles!Charge(v)
      BY <1>3, <2>3, <2>4, <2>5, <2>9 DEF Cycles!Charge
    <2> QED
      BY <2>10 DEF Cycles!MNext
  <1> QED
    BY <1>6, <1>7, <1>8, WorkerCases

\* The same for bytes, which are metered with the last of the two charges.
LEMMA WorkerBytesMapped ==
    ASSUME NEW r \in 1..SIZE_MAX, FitsAt(r), TrafficInv(r), NEW v \in Workers, Worker(v)
    PROVE  [Bytes!MNext]_(Bytes!mvars)
  <1>1. BudgetInv /\ TypeOK /\ TypeOK' /\ WorkersCharging /\ BytesFit(r)
    BY WorkerInv DEF TrafficInv, BudgetInv
  <1>2. \A t \in Tenants : tenant_bw_consumed[t] <= tenant_bw_consumed'[t]
    BY <1>1, WorkerBytes
  <1>3. UNCHANGED <<tenant_bw_budget, bw_pool, ByteGate, SettledTenants>>
    BY <1>1, WorkerMapped
  <1>4. \A w \in Workers : w # v => ByteJob'[w] = ByteJob[w]
    BY <1>1, WorkerFrame DEF ByteJob, Unmetered
  <1>5. /\ ByteJob[v] = IF wpc[v] \in {"charge_cycles", "charge_bytes"}
                        THEN [tenant |-> wq[v], cost |-> packet_size[v]]
                        ELSE [tenant |-> 0, cost |-> 0]
        /\ ByteJob'[v] = IF wpc'[v] \in {"charge_cycles", "charge_bytes"}
                         THEN [tenant |-> wq'[v], cost |-> packet_size'[v]]
                         ELSE [tenant |-> 0, cost |-> 0]
        /\ ByteJob = [w \in Workers |-> ByteJob[w]]
        /\ ByteJob' = [w \in Workers |-> ByteJob'[w]]
    BY DEF ByteJob, Unmetered
  <1>6. CASE Looks(v) \/ ChargeCycles(v)
    <2>1. UNCHANGED tenant_bw_consumed
      BY <1>1, <1>6, LooksFacts, ChargeCyclesFacts DEF counters
    <2>2. ByteJob'[v] = ByteJob[v]
      BY <1>1, <1>5, <1>6, LooksFacts, ChargeCyclesFacts
    <2>3. ByteJob' = ByteJob
      BY <1>4, <1>5, <2>2
    <2> QED
      BY <1>3, <2>1, <2>3 DEF Bytes!mvars
  <1>7. ASSUME NEW c \in PktCycles, NEW b \in PktBytes, DrainPacket(v, c, b)
        PROVE  [Bytes!MNext]_(Bytes!mvars)
    <2>1. /\ UNCHANGED tenant_bw_consumed
          /\ wpc[v] = "drain" /\ wpc'[v] = "charge_cycles" /\ wq'[v] = wq[v] /\ packet_size'[v] = b
      BY <1>1, <1>7, DrainFacts DEF counters
    <2>2. wq[v] \in Tenants /\ ByteGate[wq[v]] = "open"
      BY <1>1, <1>7 DEF DrainPacket, TypeOK, ByteGate, GateFor
    <2>3. ByteJob' = [ByteJob EXCEPT ![v] = [tenant |-> wq[v], cost |-> b]]
      BY <1>4, <1>5, <2>1
    <2>4. ByteJob[v] = [tenant |-> 0, cost |-> 0]
      BY <1>5, <2>1
    <2>5. Bytes!Work(v, wq[v], b)
      BY <1>3, <2>1, <2>2, <2>3, <2>4 DEF Bytes!Work, Bytes!NoJob
    <2>6. wq[v] \in Bytes!Tenants
      BY <2>2, TenantsAre DEF Bytes!Tenants
    <2> QED
      BY <2>5, <2>6 DEF Bytes!MNext
  <1>8. CASE ChargeBytes(v) \/ BatchEnd(v)
    <2>1. /\ wpc[v] = "charge_bytes" /\ wpc'[v] \in {"drain", "asleep"} /\ wq[v] \in Tenants
          /\ \A t \in Tenants : t # wq[v] => tenant_bw_consumed'[t] = tenant_bw_consumed[t]
          /\ tenant_bw_consumed'[wq[v]] = SizeAdd(tenant_bw_consumed[wq[v]], packet_size[v])
      BY <1>1, <1>8, ChargeBytesFacts DEF TypeOK
    <2>2. packet_size[v] \in PktBytes /\ packet_size[v] \in 1..SIZE_MAX
      BY <2>1, <1>1, ParameterAssumption DEF WorkersCharging
    <2>3. ByteJob[v] = [tenant |-> wq[v], cost |-> packet_size[v]]
      BY <1>5, <2>1
    <2>4. ByteJob[v] # Bytes!NoJob
      BY <2>2, <2>3, ArithmeticAssumption DEF Bytes!NoJob
    <2>5. ByteJob' = [ByteJob EXCEPT ![v] = Bytes!NoJob]
      BY <1>4, <1>5, <2>1 DEF Bytes!NoJob
    <2>6. tenant_bw_consumed'[wq[v]] = tenant_bw_consumed[wq[v]] + packet_size[v]
      <3>1. tenant_bw_consumed[wq[v]] \in 0..SIZE_MAX
        BY <1>1, <2>1 DEF TypeOK
      <3>2. tenant_bw_consumed[wq[v]] <= tenant_bw_consumed'[wq[v]]
        BY <1>2, <2>1
      <3> QED
        BY <2>1, <2>2, <3>1, <3>2, ArithmeticAssumption DEF SizeAdd
    <2>7. tenant_bw_consumed' = [tenant_bw_consumed EXCEPT ![wq[v]] = @ + packet_size[v]]
      BY <1>1, <2>1, <2>6 DEF TypeOK
    <2>8. Bytes!Charge(v)
      BY <1>3, <2>3, <2>4, <2>5, <2>7 DEF Bytes!Charge
    <2> QED
      BY <2>8 DEF Bytes!MNext
  <1> QED
    BY <1>6, <1>7, <1>8, WorkerCases

-----------------------------------------------------------------------------
(* Steps of the scheduler                                                  *)

\* The scheduler touches no packet.
LEMMA SchedulerJobs ==
    ASSUME TypeOK, Scheduler
    PROVE  UNCHANGED <<CycleJob, ByteJob>>
  BY SchedulerFrame DEF CycleJob, ByteJob, Unmetered

\* Who has been settled, at the points of the scheduler where it matters.
LEMMA SettledAre ==
    ASSUME BudgetInv
    PROVE  /\ SettledTenants \subseteq Accounted
           /\ ~InRollover => SettledTenants = {}
           /\ spc \in {"receive", "clear", "apply"} \/ SettleDone => SettledTenants = Accounted
           /\ At("settle") => st \in Accounted /\ st \notin SettledTenants
           /\ At("release") => st \in SettledTenants
  <1>1. TypeOK /\ IndexOK
    BY DEF BudgetInv
  <1>2. SettledTenants \subseteq Accounted
    BY DEF SettledTenants
  <1>3. ~InRollover => SettledTenants = {}
    BY DEF SettledTenants, Regranted, InRollover, At
  <1>4. spc \in {"receive", "clear", "apply"} \/ SettleDone => SettledTenants = Accounted
    BY <1>1, AllBelow DEF SettledTenants, Regranted, SettleDone, At
  <1>5. st \in Nat
    BY <1>1 DEF TypeOK, MAX_TENANT_NUM
  <1>6. At("settle") => st \in Accounted /\ st \notin SettledTenants
    BY <1>1, <1>5 DEF SettledTenants, Regranted, At, IndexOK
  <1>7. At("release") => st \in SettledTenants
    BY <1>1, <1>5 DEF SettledTenants, Regranted, At, IndexOK
  <1> QED
    BY <1>2, <1>3, <1>4, <1>6, <1>7

\* Settlements and the end of the rollover apart, the set stays as it is.
LEMMA SettledKept ==
    ASSUME BudgetInv, Next, ~Settle, ~ApplyDebt
    PROVE  SettledTenants' = SettledTenants
  BY SettledSetKept DEF SettledTenants

\* Steps of the scheduler that the abstract resource does not see.
Silent ==
    \/ StartCheck \/ Reschedule \/ Activate
    \/ CheckSkip \/ CheckLoadCycles \/ CheckLoadBytes \/ CheckDone
    \/ StartRollover \/ SkipRollover
    \/ TakeCycles \/ OffDone \/ BucketDone \/ DrfClearDone
    \/ Report \/ SkipReport

\* They move neither resource: cycles taken out of the counter stay metered.
LEMMA SilentMapped ==
    ASSUME BudgetInv, Silent
    PROVE  UNCHANGED Cycles!mvars /\ UNCHANGED Bytes!mvars
  <1>1. TypeOK /\ IndexOK
    BY DEF BudgetInv
  <1>2. Scheduler /\ Next
    BY DEF Silent, Scheduler, Next, CheckBudget, Rollover, Redistribute
  <1>3. ~Settle /\ ~ApplyDebt
    <2>1. spc # "settle" /\ spc # "apply"
      BY DEF Silent, At, SettleDone, StartCheck, Reschedule, Activate, CheckSkip, CheckLoadCycles,
             CheckLoadBytes, CheckDone, StartRollover, SkipRollover, TakeCycles, OffDone,
             BucketDone, DrfClearDone, Report, SkipReport
    <2> QED
      BY <2>1 DEF Settle, ApplyDebt, At
  <1>4. UNCHANGED <<CycleJob, ByteJob, SettledTenants>>
    BY <1>1, <1>2, <1>3, SchedulerJobs, SettledKept
  <1>5. UNCHANGED <<budgets, restrict_tenant, cycle_pool, bw_pool, tenant_bw_consumed>>
    BY DEF Silent, counters, budgets, schLocals, StartCheck, Reschedule, Activate, CheckSkip,
           CheckLoadCycles, CheckLoadBytes, CheckDone, StartRollover, SkipRollover, TakeCycles,
           OffDone, BucketDone, DrfClearDone, Report, SkipReport
  <1>6. UNCHANGED <<CycleBalance, CycleGate, ByteGate>>
    BY <1>5 DEF CycleBalance, CycleGate, ByteGate, GateFor, budgets
  <1>7. CycleMeter' = CycleMeter
    <2>1. CASE TakeCycles
      <3>1. /\ spc = "take" /\ spc' = "settle" /\ st' = st /\ st \in Tenants
            /\ cycle_used' = tenant_cycle_consumed[st]
            /\ tenant_cycle_consumed' = [tenant_cycle_consumed EXCEPT ![st] = 0]
        BY <2>1, TenantsNum DEF TakeCycles, At, Goto
      <3>2. \A t \in Tenants : tenant_cycle_consumed'[t] + Taken(t)'
                                   = tenant_cycle_consumed[t] + Taken(t)
        BY <1>1, <3>1, ArithmeticAssumption DEF Taken, At, TypeOK
      <3> QED
        BY <3>2 DEF CycleMeter
    <2>2. CASE ~TakeCycles
      <3>1. UNCHANGED tenant_cycle_consumed /\ spc # "settle" /\ spc' # "settle"
        BY <2>2
           DEF Silent, counters, StartCheck, Reschedule, Activate, CheckSkip,
           CheckLoadCycles, CheckLoadBytes, CheckDone, StartRollover, SkipRollover,
           OffDone, BucketDone, DrfClearDone, Report, SkipReport, At, Goto, SettleDone
      <3> QED
        BY <3>1 DEF CycleMeter, Taken, At
    <2> QED
      BY <2>1, <2>2
  <1> QED
    BY <1>4, <1>5, <1>6, <1>7 DEF Cycles!mvars, Bytes!mvars, budgets

\* The store of a restriction shuts the gate, over the resource that the check
\* found used up.
LEMMA CheckStoreMapped ==
    ASSUME BudgetInv, CheckInv, CheckStore
    PROVE  Cycles!MNext /\ Bytes!MNext
  <1>1. TypeOK /\ IndexOK /\ st \in Accounted /\ st \in Tenants
    BY TenantsNum DEF BudgetInv, IndexOK, CheckStore, At
  <1>2. Scheduler /\ Next /\ ~Settle /\ ~ApplyDebt /\ ~InRollover
    BY DEF Scheduler, CheckBudget, Next, CheckStore, Settle, ApplyDebt, InRollover, At
  <1>3. UNCHANGED <<CycleJob, ByteJob, SettledTenants>> /\ SettledTenants = {}
    BY <1>1, <1>2, SchedulerJobs, SettledKept, SettledAre
  <1>4. /\ UNCHANGED <<counters, budgets, cycle_pool, bw_pool>>
        /\ spc = "check_store" /\ spc' = "check"
        /\ restrict_tenant' = [restrict_tenant EXCEPT ![st] = restriction]
        /\ restrict_tenant[st] = TENANT_RESTRICT_NONE
        /\ restriction \in {TENANT_RESTRICT_CYCLE, TENANT_RESTRICT_BW}
        /\ Cause(st, restriction)
    BY <1>1 DEF CheckStore, CheckInv, At, Goto, TypeOK, IndexOK, Restrictions
  <1>5. UNCHANGED <<CycleMeter, CycleBalance, tenant_bw_consumed, tenant_bw_budget>>
    BY <1>4 DEF CycleMeter, CycleBalance, Taken, At, counters, budgets
  <1>8. /\ \A t \in Tenants : restrict_tenant'[t] = IF t = st THEN restriction ELSE restrict_tenant[t]
        /\ restriction # TENANT_RESTRICT_NONE
    BY <1>1, <1>4 DEF TypeOK, TENANT_RESTRICT_NONE, TENANT_RESTRICT_CYCLE, TENANT_RESTRICT_BW
  <1>6. Cycles!MNext
    <2>1. PICK over \in {"this", "another"} :
              over = IF restriction = TENANT_RESTRICT_CYCLE THEN "this" ELSE "another"
      OBVIOUS
    <2>2. CycleGate' = [CycleGate EXCEPT ![st] = over] /\ CycleGate[st] = "open"
      <3>1. \A t \in Tenants : CycleGate'[t] = IF t = st THEN over ELSE CycleGate[t]
        BY <1>8, <2>1 DEF CycleGate, GateFor
      <3>2. /\ CycleGate = [t \in Tenants |-> CycleGate[t]]
            /\ CycleGate' = [t \in Tenants |-> CycleGate'[t]]
        BY DEF CycleGate, GateFor
      <3>3. CycleGate' = [CycleGate EXCEPT ![st] = over]
        BY <3>1, <3>2
      <3>4. CycleGate[st] = "open"
        BY <1>1, <1>4 DEF CycleGate, GateFor
      <3> QED
        BY <3>3, <3>4
    <2>3. over = "this" => CycleMeter[st] >= CycleBalance[st]
      <3>1. CycleMeter[st] = tenant_cycle_consumed[st]
            /\ CycleBalance[st] = tenant_cycle_budget[st] - tenant_cycle_debt[st]
        BY <1>1, <1>4, ArithmeticAssumption DEF CycleMeter, CycleBalance, Taken, At, TypeOK
      <3>2. /\ tenant_cycle_consumed[st] \in Nat /\ tenant_cycle_budget[st] \in Nat
            /\ tenant_cycle_debt[st] \in Nat
        BY <1>1, ArithmeticAssumption DEF TypeOK
      <3> QED
        BY <1>4, <2>1, <3>1, <3>2 DEF Cause
    <2>4. Cycles!Shut(st, over)
      BY <1>3, <1>4, <1>5, <2>2, <2>3 DEF Cycles!Shut
    <2> QED
      BY <1>1, <2>4 DEF Cycles!MNext
  <1>7. Bytes!MNext
    <2>1. PICK over \in {"this", "another"} :
              over = IF restriction = TENANT_RESTRICT_BW THEN "this" ELSE "another"
      OBVIOUS
    <2>2. ByteGate' = [ByteGate EXCEPT ![st] = over] /\ ByteGate[st] = "open"
      <3>1. \A t \in Tenants : ByteGate'[t] = IF t = st THEN over ELSE ByteGate[t]
        BY <1>8, <2>1 DEF ByteGate, GateFor
      <3>2. /\ ByteGate = [t \in Tenants |-> ByteGate[t]]
            /\ ByteGate' = [t \in Tenants |-> ByteGate'[t]]
        BY DEF ByteGate, GateFor
      <3>3. ByteGate' = [ByteGate EXCEPT ![st] = over]
        BY <3>1, <3>2
      <3>4. ByteGate[st] = "open"
        BY <1>1, <1>4 DEF ByteGate, GateFor
      <3> QED
        BY <3>3, <3>4
    <2>3. over = "this" => tenant_bw_consumed[st] >= tenant_bw_budget[st]
      BY <1>4, <2>1 DEF Cause
    <2>4. Bytes!Shut(st, over)
      BY <1>3, <1>4, <1>5, <2>2, <2>3 DEF Bytes!Shut
    <2> QED
      BY <1>1, <2>4 DEF Bytes!MNext
  <1> QED
    BY <1>6, <1>7

\* The release of a tenant, in mode OFF and after the DRF division.
LEMMA ReleaseMapped ==
    ASSUME BudgetInv, Release \/ DrfClear
    PROVE  Cycles!MNext /\ Bytes!MNext
  <1>1. TypeOK /\ st \in Accounted /\ st \in Tenants
    BY TenantsNum DEF BudgetInv, IndexOK, Release, DrfClear, At
  <1>2. Scheduler /\ Next /\ ~Settle /\ ~ApplyDebt
    BY DEF Scheduler, Rollover, Redistribute, Next, Release, DrfClear, Settle, ApplyDebt, At
  <1>3. UNCHANGED <<CycleJob, ByteJob, SettledTenants>>
    BY <1>1, <1>2, SchedulerJobs, SettledKept
  <1>4. st \in SettledTenants
    BY <1>1, SettledAre DEF Release, DrfClear, At
  <1>5. /\ UNCHANGED <<counters, budgets, cycle_pool, bw_pool>>
        /\ spc # "settle" /\ spc' # "settle"
        /\ restrict_tenant' = [restrict_tenant EXCEPT ![st] = TENANT_RESTRICT_NONE]
    BY DEF Release, DrfClear, At, Goto, schLocals
  <1>6. UNCHANGED <<CycleMeter, CycleBalance, tenant_bw_consumed, tenant_bw_budget>>
    BY <1>5 DEF CycleMeter, CycleBalance, Taken, At, counters, budgets
  <1>7. /\ CycleGate' = [CycleGate EXCEPT ![st] = "open"]
        /\ ByteGate' = [ByteGate EXCEPT ![st] = "open"]
    BY <1>1, <1>5 DEF CycleGate, ByteGate, GateFor, TypeOK
  <1>8. Cycles!Open(st) /\ Bytes!Open(st)
    BY <1>3, <1>4, <1>5, <1>6, <1>7 DEF Cycles!Open, Bytes!Open
  <1>9. st \in Cycles!Tenants /\ st \in Bytes!Tenants
    BY <1>1, TenantsAre DEF Cycles!Tenants, Bytes!Tenants
  <1> QED
    BY <1>8, <1>9 DEF Cycles!MNext, Bytes!MNext

\* Paying debts ends the period: the balances do not notice.
LEMMA ApplyDebtMapped ==
    ASSUME BudgetInv, PoolsEmpty, ApplyDebt
    PROVE  Cycles!MNext /\ Bytes!MNext
  <1>1. TypeOK
    BY DEF BudgetInv
  <1>2. Scheduler
    BY DEF Scheduler, Rollover
  <1>3. UNCHANGED <<CycleJob, ByteJob>>
    BY <1>1, <1>2, SchedulerJobs
  <1>4. /\ UNCHANGED <<counters, restrict_tenant, tenant_bw_budget, cycle_pool, bw_pool>>
        /\ spc = "apply" /\ spc' = "report"
    BY DEF ApplyDebt, At, Goto, schLocals
  <1>5. SettledTenants = Accounted /\ SettledTenants' = {}
    BY <1>4, SettledAre DEF SettledTenants, Regranted, At
  <1>6. cycle_pool = 0 /\ bw_pool = 0
    BY <1>4 DEF PoolsEmpty
  <1>7. UNCHANGED <<CycleMeter, CycleGate, ByteGate, tenant_bw_consumed>>
    BY <1>4 DEF CycleMeter, CycleGate, ByteGate, GateFor, Taken, At, counters
  <1>8. CycleBalance' = CycleBalance
    <2>1. ASSUME NEW t \in Tenants
          PROVE  tenant_cycle_budget'[t] - tenant_cycle_debt'[t]
                     = tenant_cycle_budget[t] - tenant_cycle_debt[t]
      <3>1. tenant_cycle_budget[t] \in Nat /\ tenant_cycle_debt[t] \in 0..SIZE_MAX
        BY <1>1 DEF TypeOK
      <3>2. /\ PaidOff(t).budget \in Nat
            /\ PaidOff(t).debt \in 0..SIZE_MAX
            /\ tenant_cycle_budget[t] - PaidOff(t).budget = tenant_cycle_debt[t] - PaidOff(t).debt
        BY <3>1, ApplyDebtFacts DEF PaidOff
      <3>3. /\ tenant_cycle_budget'[t]
                   = IF t \in Accounted THEN PaidOff(t).budget ELSE tenant_cycle_budget[t]
            /\ tenant_cycle_debt'[t]
                   = IF t \in Accounted THEN PaidOff(t).debt ELSE tenant_cycle_debt[t]
        BY DEF ApplyDebt
      <3> QED
        BY <3>1, <3>2, <3>3, ArithmeticAssumption
    <2> QED
      BY <2>1 DEF CycleBalance
  <1>9. Cycles!EndPeriod /\ Bytes!EndPeriod
    BY <1>3, <1>4, <1>5, <1>6, <1>7, <1>8 DEF Cycles!EndPeriod, Bytes!EndPeriod
  <1> QED
    BY <1>9 DEF Cycles!MNext, Bytes!MNext

\* The settlement counts the tenant at hand among the settled ones.
LEMMA SettleMarks ==
    ASSUME BudgetInv, Settle
    PROVE  SettledTenants' = SettledTenants \cup {st}
  <1>1. st \in Accounted /\ \A t \in Accounted : t \in Nat
    BY TenantsNum, TenantsAre DEF BudgetInv, IndexOK, Settle, At
  <1>2. /\ spc = "settle"
        /\ IF Mode = "OFF" THEN spc' = "release" /\ st' = st ELSE spc' = "take" /\ st' = st + 1
    BY DEF Settle, At, Goto
  <1>3. \A t \in Accounted : Regranted(t)' <=> (Regranted(t) \/ t = st)
    BY <1>1, <1>2 DEF Regranted, At
  <1> QED
    BY <1>1, <1>3 DEF SettledTenants

\* What a settlement leaves on the balance, in numbers: b is the new budget, p
\* goes to the pool, d is the debt afterwards.
LEMMA SettledBalance ==
    ASSUME NEW quota \in Nat, NEW cap \in Nat, NEW used \in Nat, NEW budget \in Nat,
           NEW debt \in Nat, NEW b \in Nat, NEW p \in Nat, NEW d \in Nat, NEW due \in Int,
           debt > 0 => budget = 0,
           d = debt + (IF used > budget THEN used - budget ELSE 0),
           quota <= b, b <= cap,
           \/ b = quota /\ p = 0
           \/ b + p = quota + (IF budget > used THEN budget - used ELSE 0),
           due = quota + (budget - debt - used)
    PROVE  /\ b - d \in (IF due < quota THEN due ELSE quota)..(IF due < cap THEN due ELSE cap)
           /\ p = 0 \/ p = due - (b - d)
  <1>1. CASE debt > 0
    BY <1>1
  <1>2. CASE debt = 0
    BY <1>2
  <1> QED
    BY <1>1, <1>2

\* The settlement of a tenant's cycles: no debt is cut off at SIZE_MAX, because
\* no tenant has that much traffic.
LEMMA SettleCyclesMapped ==
    ASSUME NEW r \in 1..SIZE_MAX, FitsAt(r), MeterInv(r), Settle
    PROVE  Cycles!MNext
  <1>1. /\ BudgetInv /\ TypeOK /\ IndexOK /\ DebtorWaits /\ CyclesFit
        /\ st \in Accounted /\ st \in Tenants
    BY TenantsNum DEF MeterInv, TrafficInv, BudgetInv, IndexOK, Settle, At
  <1>2. Scheduler
    BY DEF Scheduler, Rollover
  <1>3. UNCHANGED CycleJob
    BY <1>1, <1>2, SchedulerJobs
  <1>4. PICK cyc, bw : SettlesTo(cyc, bw)
    BY DEF SettlesTo
  <1>5. /\ cyc.budget \in Nat /\ cyc.pool \in Nat
        /\ tenant_cycle_target[st] <= cyc.budget /\ cyc.budget <= tenant_cycle_budget_cap[st]
        /\ \/ cyc.budget = tenant_cycle_target[st] /\ cyc.pool = 0
           \/ cyc.budget + cyc.pool
                  = tenant_cycle_target[st]
                    + (IF tenant_cycle_budget[st] > cycle_used
                       THEN tenant_cycle_budget[st] - cycle_used ELSE 0)
        /\ tenant_cycle_budget' = [tenant_cycle_budget EXCEPT ![st] = cyc.budget]
        /\ cycle_pool' = cycle_pool + cyc.pool
    BY <1>1, <1>4, SettleNumbers
  <1>6. /\ spc = "settle" /\ spc' # "settle"
        /\ UNCHANGED <<tenant_cycle_consumed, restrict_tenant>>
        /\ tenant_cycle_debt' =
               [tenant_cycle_debt EXCEPT
                   ![st] = sch_cycle_record_debt(tenant_cycle_budget[st], cycle_used,
                                                 tenant_cycle_debt[st])]
        /\ IF Mode = "OFF" THEN spc' = "release" /\ st' = st ELSE spc' = "take" /\ st' = st + 1
    BY DEF Settle, At, Goto
  <1>7. /\ cycle_used \in 0..SIZE_MAX /\ cycle_used \in Nat
        /\ tenant_cycle_budget[st] \in Nat
        /\ tenant_cycle_debt[st] \in 0..SIZE_MAX /\ tenant_cycle_debt[st] \in Nat
        /\ tenant_cycle_consumed[st] \in Nat /\ cycle_pool \in Nat
        /\ tenant_cycle_target[st] \in Nat /\ tenant_cycle_budget_cap[st] \in Nat
    BY <1>1, TargetFacts, ArithmeticAssumption DEF TypeOK
  <1>8. tenant_cycle_debt[st] + cycle_used <= SIZE_MAX
    <2>1. Outstanding(st) \in Nat /\ Outstanding(st) - cycle_used \in Nat
      <3>1. Settles(st)
        BY <1>6 DEF Settles, At
      <3> QED
        BY <1>1, <1>2, <3>1, SchedulerCycles
    <2>2. Outstanding(st) + tenant_cycle_debt[st] <= Traffic[st] /\ Traffic[st] <= SIZE_MAX
      BY <1>1, TrafficBound DEF CyclesFit
    <2>3. Traffic[st] \in Nat
      BY <1>1, ParameterAssumption
    <2> QED
      BY <1>7, <2>1, <2>2, <2>3, ArithmeticAssumption
  <1>9. PICK d : d = sch_cycle_record_debt(tenant_cycle_budget[st], cycle_used, tenant_cycle_debt[st])
    OBVIOUS
  <1>10. /\ d = tenant_cycle_debt[st] + (IF cycle_used > tenant_cycle_budget[st]
                                         THEN cycle_used - tenant_cycle_budget[st] ELSE 0)
         /\ d \in Nat
    <2>1. /\ d \in 0..SIZE_MAX
          /\ d = IF tenant_cycle_debt[st] + (IF cycle_used > tenant_cycle_budget[st]
                                             THEN cycle_used - tenant_cycle_budget[st] ELSE 0)
                        > SIZE_MAX
                 THEN SIZE_MAX
                 ELSE tenant_cycle_debt[st] + (IF cycle_used > tenant_cycle_budget[st]
                                               THEN cycle_used - tenant_cycle_budget[st] ELSE 0)
      BY <1>7, <1>9, RecordDebtFacts
    <2> QED
      BY <1>7, <1>8, <2>1, ArithmeticAssumption
  <1>11. tenant_cycle_debt[st] > 0 => tenant_cycle_budget[st] = 0
    BY <1>1, <1>6, SettledAre DEF DebtorWaits, SettledTenants, At
  <1>12. PICK due : due = Cycles!Due(st, cycle_used)
    OBVIOUS
  <1>13. /\ due = tenant_cycle_target[st] + (tenant_cycle_budget[st] - tenant_cycle_debt[st] - cycle_used)
         /\ due \in Int
    BY <1>1, <1>7, <1>12 DEF Cycles!Due, CycleBalance
  <1>14. PICK kept : kept = cyc.budget - d
    OBVIOUS
  <1>15. /\ kept \in (IF due < tenant_cycle_target[st] THEN due ELSE tenant_cycle_target[st])
                     ..(IF due < tenant_cycle_budget_cap[st] THEN due ELSE tenant_cycle_budget_cap[st])
         /\ cyc.pool = 0 \/ cyc.pool = due - kept
    <2>1. PICK quota \in Nat, cap \in Nat :
              quota = tenant_cycle_target[st] /\ cap = tenant_cycle_budget_cap[st]
      BY <1>7
    <2>2. PICK used \in Nat, budget \in Nat, debt \in Nat :
              used = cycle_used /\ budget = tenant_cycle_budget[st] /\ debt = tenant_cycle_debt[st]
      BY <1>7
    <2>3. PICK b \in Nat, p \in Nat : b = cyc.budget /\ p = cyc.pool
      BY <1>5
    <2>4. /\ debt > 0 => budget = 0
          /\ d = debt + (IF used > budget THEN used - budget ELSE 0)
          /\ due = quota + (budget - debt - used)
      BY <1>10, <1>11, <1>13, <2>1, <2>2
    <2>5. /\ quota <= b /\ b <= cap
          /\ \/ b = quota /\ p = 0
             \/ b + p = quota + (IF budget > used THEN budget - used ELSE 0)
      BY <1>5, <2>1, <2>2, <2>3
    <2>6. /\ b - d \in (IF due < quota THEN due ELSE quota)..(IF due < cap THEN due ELSE cap)
          /\ p = 0 \/ p = due - (b - d)
      BY <1>10, <1>13, <2>4, <2>5, SettledBalance
    <2> QED
      BY <1>14, <2>1, <2>3, <2>6
  <1>16. CycleBalance' = [CycleBalance EXCEPT ![st] = kept]
    BY <1>1, <1>5, <1>6, <1>9, <1>14 DEF CycleBalance, TypeOK
  <1>17. cycle_pool' \in {cycle_pool, cycle_pool + due - kept}
    BY <1>5, <1>7, <1>10, <1>13, <1>14, <1>15
  <1>18. CycleMeter' = [CycleMeter EXCEPT ![st] = CycleMeter[st] - cycle_used]
         /\ cycle_used \in 0..CycleMeter[st]
    <2>1. /\ \A t \in Tenants : Taken(t) = (IF t = st THEN cycle_used ELSE 0) /\ Taken(t)' = 0
          /\ \A t \in Tenants : tenant_cycle_consumed[t] \in Int
      BY <1>1, <1>6, ArithmeticAssumption DEF Taken, At, TypeOK
    <2>2. /\ CycleMeter = [t \in Tenants |-> tenant_cycle_consumed[t] + Taken(t)]
          /\ CycleMeter' = [t \in Tenants |-> tenant_cycle_consumed[t] + 0]
      BY <1>6, <2>1 DEF CycleMeter
    <2> QED
      BY <1>1, <1>7, <2>1, <2>2
  <1>19. SettledTenants' = SettledTenants \cup {st} /\ st \in Accounted \ SettledTenants
    BY <1>1, <1>6, SettleMarks, SettledAre DEF At
  <1>20. UNCHANGED CycleGate
    BY <1>6 DEF CycleGate, GateFor
  <1>21. Cycles!Settle(st)
    <2>1. \E k \in (IF Cycles!Due(st, cycle_used) < tenant_cycle_target[st]
                    THEN Cycles!Due(st, cycle_used) ELSE tenant_cycle_target[st])
                   ..(IF Cycles!Due(st, cycle_used) < tenant_cycle_budget_cap[st]
                      THEN Cycles!Due(st, cycle_used) ELSE tenant_cycle_budget_cap[st]) :
              /\ CycleBalance' = [CycleBalance EXCEPT ![st] = k]
              /\ cycle_pool' \in {cycle_pool, cycle_pool + Cycles!Due(st, cycle_used) - k}
      BY <1>12, <1>15, <1>16, <1>17
    <2> QED
      BY <1>3, <1>18, <1>19, <1>20, <2>1 DEF Cycles!Settle
  <1>22. st \in Cycles!Tenants
    BY <1>1, TenantsAre DEF Cycles!Tenants
  <1> QED
    BY <1>21, <1>22 DEF Cycles!MNext

\* The settlement of its bytes, whose overdraft is forgiven.
LEMMA SettleBytesMapped ==
    ASSUME BudgetInv, Settle
    PROVE  Bytes!MNext
  <1>1. TypeOK /\ IndexOK /\ st \in Accounted /\ st \in Tenants
    BY TenantsNum DEF BudgetInv, IndexOK, Settle, At
  <1>2. Scheduler
    BY DEF Scheduler, Rollover
  <1>3. UNCHANGED ByteJob
    BY <1>1, <1>2, SchedulerJobs
  <1>4. PICK cyc, bw : SettlesTo(cyc, bw)
    BY DEF SettlesTo
  <1>5. /\ bw.budget \in Nat /\ bw.pool \in Nat
        /\ tenant_bw_target[st] <= bw.budget /\ bw.budget <= tenant_bw_budget_cap[st]
        /\ \/ bw.budget = tenant_bw_target[st] /\ bw.pool = 0
           \/ bw.budget + bw.pool
                  = tenant_bw_target[st]
                    + (IF tenant_bw_budget[st] > tenant_bw_consumed[st]
                       THEN tenant_bw_budget[st] - tenant_bw_consumed[st] ELSE 0)
        /\ tenant_bw_budget' = [tenant_bw_budget EXCEPT ![st] = bw.budget]
        /\ bw_pool' = bw_pool + bw.pool
    BY <1>1, <1>4, SettleNumbers
  <1>6. /\ spc = "settle" /\ UNCHANGED restrict_tenant
        /\ tenant_bw_consumed' = [tenant_bw_consumed EXCEPT ![st] = 0]
    BY DEF Settle, At
  <1>7. PICK used \in Nat : used = tenant_bw_consumed[st]
    BY <1>1, ArithmeticAssumption DEF TypeOK
  <1>8. /\ tenant_bw_budget[st] \in Nat /\ bw_pool \in Nat
        /\ tenant_bw_target[st] \in Nat /\ tenant_bw_budget_cap[st] \in Nat
        /\ tenant_bw_target[st] <= tenant_bw_budget_cap[st]
    BY <1>1, TargetFacts DEF TypeOK
  <1>9. PICK due : due = Bytes!Due(st, used)
    OBVIOUS
  <1>10. /\ due = tenant_bw_target[st] + (IF tenant_bw_budget[st] > used
                                          THEN tenant_bw_budget[st] - used ELSE 0)
         /\ due \in Nat
    BY <1>7, <1>8, <1>9 DEF Bytes!Due
  <1>11. PICK kept : kept = bw.budget
    OBVIOUS
  <1>12. /\ kept \in (IF due < tenant_bw_target[st] THEN due ELSE tenant_bw_target[st])
                     ..(IF due < tenant_bw_budget_cap[st] THEN due ELSE tenant_bw_budget_cap[st])
         /\ bw_pool' \in {bw_pool, bw_pool + due - kept}
    BY <1>5, <1>7, <1>8, <1>10, <1>11
  <1>13. /\ tenant_bw_consumed' = [tenant_bw_consumed EXCEPT ![st] = tenant_bw_consumed[st] - used]
         /\ used \in 0..tenant_bw_consumed[st]
    <2>1. tenant_bw_consumed[st] - used = 0 /\ used \in 0..tenant_bw_consumed[st]
      BY <1>7
    <2> QED
      BY <1>6, <2>1
  <1>14. SettledTenants' = SettledTenants \cup {st} /\ st \in Accounted \ SettledTenants
    BY <1>1, <1>6, SettleMarks, SettledAre DEF At
  <1>15. UNCHANGED ByteGate
    BY <1>6 DEF ByteGate, GateFor
  <1>16. Bytes!Settle(st)
    <2>1. \E k \in (IF Bytes!Due(st, used) < tenant_bw_target[st]
                    THEN Bytes!Due(st, used) ELSE tenant_bw_target[st])
                   ..(IF Bytes!Due(st, used) < tenant_bw_budget_cap[st]
                      THEN Bytes!Due(st, used) ELSE tenant_bw_budget_cap[st]) :
              /\ tenant_bw_budget' = [tenant_bw_budget EXCEPT ![st] = k]
              /\ bw_pool' \in {bw_pool, bw_pool + Bytes!Due(st, used) - k}
      BY <1>5, <1>9, <1>11, <1>12
    <2> QED
      BY <1>3, <1>13, <1>14, <1>15, <2>1 DEF Bytes!Settle
  <1>17. st \in Bytes!Tenants
    BY <1>1, TenantsAre DEF Bytes!Tenants
  <1> QED
    BY <1>16, <1>17 DEF Bytes!MNext

\* After the settlements budgets only grow, out of the pools; the tenants in
\* `opened` are released; what is left stays in the pools or is dropped.
Redistributes(opened) ==
    /\ UNCHANGED <<counters, tenant_cycle_debt>>
    /\ spc # "settle" /\ spc' # "settle"
    /\ \A t \in Tenants :
          /\ restrict_tenant'[t] = IF t \in opened THEN TENANT_RESTRICT_NONE ELSE restrict_tenant[t]
          /\ tenant_cycle_budget[t] <= tenant_cycle_budget'[t]
          /\ tenant_bw_budget[t] <= tenant_bw_budget'[t]
    /\ \E left \in Nat : /\ Total(tenant_cycle_budget') + left = Total(tenant_cycle_budget) + cycle_pool
                         /\ cycle_pool' \in {0, left}
    /\ \E left \in Nat : /\ Total(tenant_bw_budget') + left = Total(tenant_bw_budget) + bw_pool
                         /\ bw_pool' \in {0, left}

\* What one tenant that fills up from both pools gets and leaves.
FillsUp(u, cyc, bw) ==
    /\ cyc = sch_budget_receive(tenant_cycle_budget[u], tenant_cycle_budget_cap[u], cycle_pool)
    /\ bw = sch_budget_receive(tenant_bw_budget[u], tenant_bw_budget_cap[u], bw_pool)
    /\ tenant_cycle_budget' = [tenant_cycle_budget EXCEPT ![u] = cyc.budget]
    /\ tenant_bw_budget' = [tenant_bw_budget EXCEPT ![u] = bw.budget]

\* Its budgets grow by what the pools lose.
LEMMA FilledUp ==
    ASSUME BudgetInv, NEW u \in Tenants, NEW cyc, NEW bw, FillsUp(u, cyc, bw)
    PROVE  /\ cyc.left \in Nat /\ bw.left \in Nat
           /\ \A t \in Tenants : /\ tenant_cycle_budget[t] <= tenant_cycle_budget'[t]
                                 /\ tenant_bw_budget[t] <= tenant_bw_budget'[t]
           /\ Total(tenant_cycle_budget') + cyc.left = Total(tenant_cycle_budget) + cycle_pool
           /\ Total(tenant_bw_budget') + bw.left = Total(tenant_bw_budget) + bw_pool
  <1>1. /\ cycle_pool \in Nat /\ bw_pool \in Nat
        /\ tenant_cycle_budget \in [Tenants -> Nat] /\ tenant_bw_budget \in [Tenants -> Nat]
        /\ tenant_cycle_budget_cap \in [Tenants -> Nat] /\ tenant_bw_budget_cap \in [Tenants -> Nat]
        /\ tenant_cycle_budget[u] <= tenant_cycle_budget_cap[u]
        /\ tenant_bw_budget[u] <= tenant_bw_budget_cap[u]
    BY TargetFacts DEF BudgetInv, TypeOK, BudgetWithinCap
  <1>2. /\ cyc = sch_budget_receive(tenant_cycle_budget[u], tenant_cycle_budget_cap[u], cycle_pool)
        /\ bw = sch_budget_receive(tenant_bw_budget[u], tenant_bw_budget_cap[u], bw_pool)
        /\ tenant_cycle_budget' = [tenant_cycle_budget EXCEPT ![u] = cyc.budget]
        /\ tenant_bw_budget' = [tenant_bw_budget EXCEPT ![u] = bw.budget]
    BY DEF FillsUp
  <1>3. /\ cyc.left \in Nat
        /\ \A t \in Tenants : tenant_cycle_budget[t] <= tenant_cycle_budget'[t]
        /\ Total(tenant_cycle_budget') + cyc.left = Total(tenant_cycle_budget) + cycle_pool
    <2>1. tenant_cycle_budget[u] \in Nat /\ tenant_cycle_budget_cap[u] \in Nat
      BY <1>1
    <2>2. /\ cyc.budget \in Nat /\ cyc.left \in Nat /\ tenant_cycle_budget[u] <= cyc.budget
          /\ cyc.budget + cyc.left = tenant_cycle_budget[u] + cycle_pool
      BY <1>1, <1>2, <2>1, ReceiveFacts
    <2>3. PICK after : after = tenant_cycle_budget'
      OBVIOUS
    <2>4. /\ after \in [Tenants -> Nat] /\ after[u] = cyc.budget
          /\ \A t \in Tenants : t # u => after[t] = tenant_cycle_budget[t]
      BY <1>1, <1>2, <2>2, <2>3
    <2>5. tenant_cycle_budget \in [Tenants -> Int] /\ after \in [Tenants -> Int]
      BY <1>1, <2>4
    <2>6. Total(after) = Total(tenant_cycle_budget) + (after[u] - tenant_cycle_budget[u])
      BY <2>4, <2>5, TotalOfUpdate
    <2>7. Total(after) \in Nat /\ Total(tenant_cycle_budget) \in Nat
      BY <1>1, <2>4, TenantsAre DEF Total
    <2>8. Total(after) + cyc.left = Total(tenant_cycle_budget) + cycle_pool
      BY <1>1, <2>1, <2>2, <2>4, <2>6, <2>7
    <2>9. \A t \in Tenants : tenant_cycle_budget[t] <= after[t]
      BY <1>1, <2>2, <2>4
    <2> QED
      BY <2>2, <2>3, <2>8, <2>9
  <1>4. /\ bw.left \in Nat
        /\ \A t \in Tenants : tenant_bw_budget[t] <= tenant_bw_budget'[t]
        /\ Total(tenant_bw_budget') + bw.left = Total(tenant_bw_budget) + bw_pool
    <2>1. tenant_bw_budget[u] \in Nat /\ tenant_bw_budget_cap[u] \in Nat
      BY <1>1
    <2>2. /\ bw.budget \in Nat /\ bw.left \in Nat /\ tenant_bw_budget[u] <= bw.budget
          /\ bw.budget + bw.left = tenant_bw_budget[u] + bw_pool
      BY <1>1, <1>2, <2>1, ReceiveFacts
    <2>3. PICK after : after = tenant_bw_budget'
      OBVIOUS
    <2>4. /\ after \in [Tenants -> Nat] /\ after[u] = bw.budget
          /\ \A t \in Tenants : t # u => after[t] = tenant_bw_budget[t]
      BY <1>1, <1>2, <2>2, <2>3
    <2>5. tenant_bw_budget \in [Tenants -> Int] /\ after \in [Tenants -> Int]
      BY <1>1, <2>4
    <2>6. Total(after) = Total(tenant_bw_budget) + (after[u] - tenant_bw_budget[u])
      BY <2>4, <2>5, TotalOfUpdate
    <2>7. Total(after) \in Nat /\ Total(tenant_bw_budget) \in Nat
      BY <1>1, <2>4, TenantsAre DEF Total
    <2>8. Total(after) + bw.left = Total(tenant_bw_budget) + bw_pool
      BY <1>1, <2>1, <2>2, <2>4, <2>6, <2>7
    <2>9. \A t \in Tenants : tenant_bw_budget[t] <= after[t]
      BY <1>1, <2>2, <2>4
    <2> QED
      BY <2>2, <2>3, <2>8, <2>9
  <1> QED
    BY <1>3, <1>4

\* The steps that end a rollover.
LEMMA RedistributionSteps ==
    ASSUME BudgetInv,
           Receive \/ ReceiveDone \/ DrfIdle \/ (\E t \in Tenants : DrfSingle(t)) \/ DrfShare
    PROVE  SettledTenants = Accounted /\ \E opened \in SUBSET Accounted : Redistributes(opened)
  <1>1. /\ TypeOK /\ BudgetWithinCap /\ cycle_pool \in Nat /\ bw_pool \in Nat
        /\ tenant_cycle_budget \in [Tenants -> Nat] /\ tenant_bw_budget \in [Tenants -> Nat]
        /\ tenant_cycle_budget_cap \in [Tenants -> Nat] /\ tenant_bw_budget_cap \in [Tenants -> Nat]
    BY TargetFacts DEF BudgetInv, TypeOK
  <1>2. SettledTenants = Accounted
    BY SettledAre DEF Receive, ReceiveDone, DrfIdle, DrfSingle, DrfShare, At
  <1>3. CASE Receive
    <2>1. PICK cyc, bw :
              /\ cyc = sch_budget_receive(tenant_cycle_budget[st], tenant_cycle_budget_cap[st], cycle_pool)
              /\ bw = sch_budget_receive(tenant_bw_budget[st], tenant_bw_budget_cap[st], bw_pool)
      OBVIOUS
    <2>2. st \in Accounted /\ st \in Tenants
      BY <1>3, TenantsNum DEF Receive
    <2>3. /\ UNCHANGED <<counters, tenant_cycle_debt>> /\ spc # "settle" /\ spc' # "settle"
          /\ restrict_tenant' = [restrict_tenant EXCEPT ![st] = TENANT_RESTRICT_NONE]
          /\ tenant_cycle_budget' = [tenant_cycle_budget EXCEPT ![st] = cyc.budget]
          /\ tenant_bw_budget' = [tenant_bw_budget EXCEPT ![st] = bw.budget]
          /\ cycle_pool' = cyc.left /\ bw_pool' = bw.left
      BY <1>3, <2>1 DEF Receive, At, Goto
    <2>4. FillsUp(st, cyc, bw)
      BY <2>1, <2>3 DEF FillsUp
    <2>5. /\ cyc.left \in Nat /\ bw.left \in Nat
          /\ \A t \in Tenants : /\ tenant_cycle_budget[t] <= tenant_cycle_budget'[t]
                                /\ tenant_bw_budget[t] <= tenant_bw_budget'[t]
          /\ Total(tenant_cycle_budget') + cyc.left = Total(tenant_cycle_budget) + cycle_pool
          /\ Total(tenant_bw_budget') + bw.left = Total(tenant_bw_budget) + bw_pool
      BY <2>2, <2>4, FilledUp
    <2>6. \A t \in Tenants : restrict_tenant'[t] = IF t \in {st} THEN TENANT_RESTRICT_NONE
                                                                 ELSE restrict_tenant[t]
      BY <1>1, <2>3 DEF TypeOK
    <2>7. Redistributes({st})
      BY <2>3, <2>5, <2>6 DEF Redistributes
    <2> QED
      BY <1>2, <2>2, <2>7
  <1>4. CASE ReceiveDone \/ DrfIdle
    <2>1. /\ UNCHANGED <<counters, restrict_tenant, budgets>> /\ spc # "settle" /\ spc' # "settle"
          /\ cycle_pool' = 0 /\ bw_pool' = 0
      BY <1>4 DEF ReceiveDone, DrfIdle, SettleDone, At, Goto
    <2>2. UNCHANGED <<tenant_cycle_budget, tenant_bw_budget, tenant_cycle_debt>>
      BY <2>1 DEF budgets
    <2>3. Redistributes({})
      BY <1>1, <2>1, <2>2 DEF Redistributes
    <2> QED
      BY <1>2, <2>3
  <1>5. ASSUME NEW u \in Tenants, DrfSingle(u)
        PROVE  \E opened \in SUBSET Accounted : Redistributes(opened)
    <2>1. PICK cyc, bw :
              /\ cyc = sch_budget_receive(tenant_cycle_budget[u], tenant_cycle_budget_cap[u], cycle_pool)
              /\ bw = sch_budget_receive(tenant_bw_budget[u], tenant_bw_budget_cap[u], bw_pool)
      OBVIOUS
    <2>2. u \in Accounted
      BY <1>5 DEF DrfSingle, Active
    <2>3. /\ UNCHANGED <<counters, tenant_cycle_debt>> /\ spc # "settle" /\ spc' # "settle"
          /\ restrict_tenant' = [restrict_tenant EXCEPT ![u] = TENANT_RESTRICT_NONE]
          /\ tenant_cycle_budget' = [tenant_cycle_budget EXCEPT ![u] = cyc.budget]
          /\ tenant_bw_budget' = [tenant_bw_budget EXCEPT ![u] = bw.budget]
          /\ cycle_pool' = 0 /\ bw_pool' = 0
      BY <1>5, <2>1 DEF DrfSingle, SettleDone, At, Goto
    <2>4. FillsUp(u, cyc, bw)
      BY <2>1, <2>3 DEF FillsUp
    <2>5. /\ cyc.left \in Nat /\ bw.left \in Nat
          /\ \A t \in Tenants : /\ tenant_cycle_budget[t] <= tenant_cycle_budget'[t]
                                /\ tenant_bw_budget[t] <= tenant_bw_budget'[t]
          /\ Total(tenant_cycle_budget') + cyc.left = Total(tenant_cycle_budget) + cycle_pool
          /\ Total(tenant_bw_budget') + bw.left = Total(tenant_bw_budget) + bw_pool
      BY <2>4, FilledUp
    <2>6. \A t \in Tenants : restrict_tenant'[t] = IF t \in {u} THEN TENANT_RESTRICT_NONE
                                                                ELSE restrict_tenant[t]
      BY <1>1, <2>3 DEF TypeOK
    <2>7. Redistributes({u})
      BY <2>3, <2>5, <2>6 DEF Redistributes
    <2> QED
      BY <2>2, <2>7
  <1>6. CASE DrfShare
    <2>1. PICK s : s = sch_distribute_drf_pool(restrict_tenant, CycleAccounts, BwAccounts,
                                               cycle_pool, bw_pool)
      OBVIOUS
    <2>2. /\ UNCHANGED <<counters, restrict_tenant, tenant_cycle_debt>>
          /\ spc # "settle" /\ spc' # "settle"
          /\ tenant_cycle_budget' = s.cycle /\ tenant_bw_budget' = s.bw
          /\ cycle_pool' = 0 /\ bw_pool' = 0
      BY <1>6, <2>1 DEF DrfShare, SettleDone, At, Goto
    <2>3. restrict_tenant \in [Tenants -> Restrictions]
      BY <1>1 DEF TypeOK
    <2>4. /\ s.cycle \in [Tenants -> Nat] /\ s.bw \in [Tenants -> Nat]
          /\ \A t \in Tenants : CycleAccounts[t].budget <= s.cycle[t] /\ BwAccounts[t].budget <= s.bw[t]
          /\ Total(s.cycle) <= CycleAccounts[0].budget + CycleAccounts[1].budget + cycle_pool
          /\ Total(s.bw) <= BwAccounts[0].budget + BwAccounts[1].budget + bw_pool
      BY <1>1, <2>1, <2>3, AccountsFacts, DrfDistributionSound
    <2>5. /\ \A t \in Tenants : /\ tenant_cycle_budget[t] <= tenant_cycle_budget'[t]
                                /\ tenant_bw_budget[t] <= tenant_bw_budget'[t]
          /\ Total(tenant_cycle_budget') <= Total(tenant_cycle_budget) + cycle_pool
          /\ Total(tenant_bw_budget') <= Total(tenant_bw_budget) + bw_pool
      BY <2>2, <2>4, AccountsFacts, TenantsAre DEF Total
    <2>6. /\ Total(tenant_cycle_budget') \in Nat /\ Total(tenant_cycle_budget) \in Nat
          /\ Total(tenant_bw_budget') \in Nat /\ Total(tenant_bw_budget) \in Nat
      BY <1>1, <2>2, <2>4, TenantsAre DEF Total
    <2>7. /\ \E left \in Nat :
                 Total(tenant_cycle_budget') + left = Total(tenant_cycle_budget) + cycle_pool
          /\ \E left \in Nat : Total(tenant_bw_budget') + left = Total(tenant_bw_budget) + bw_pool
      <3>1. PICK cl \in Nat : cl = Total(tenant_cycle_budget) + cycle_pool - Total(tenant_cycle_budget')
        BY <1>1, <2>5, <2>6
      <3>2. PICK bl \in Nat : bl = Total(tenant_bw_budget) + bw_pool - Total(tenant_bw_budget')
        BY <1>1, <2>5, <2>6
      <3>3. /\ Total(tenant_cycle_budget') + cl = Total(tenant_cycle_budget) + cycle_pool
            /\ Total(tenant_bw_budget') + bl = Total(tenant_bw_budget) + bw_pool
        BY <1>1, <2>6, <3>1, <3>2
      <3> QED
        BY <3>3
    <2>8. Redistributes({})
      BY <2>2, <2>5, <2>7 DEF Redistributes
    <2> QED
      BY <1>2, <2>8
  <1> QED
    BY <1>2, <1>3, <1>4, <1>5, <1>6

\* Steps that end a rollover hand out cycles of the pool within the caps.
LEMMA DistributeCyclesMapped ==
    ASSUME BudgetInv, BudgetInv', NEW opened \in SUBSET Accounted, Redistributes(opened),
           SettledTenants = Accounted, UNCHANGED <<CycleJob, SettledTenants>>
    PROVE  Cycles!MNext
  <1>1. /\ tenant_cycle_budget \in [Tenants -> Nat] /\ tenant_cycle_budget' \in [Tenants -> Nat]
        /\ cycle_pool \in Nat
        /\ \A t \in Tenants : tenant_cycle_budget'[t] <= tenant_cycle_budget_cap[t]
        /\ \A t \in Tenants : tenant_cycle_budget_cap[t] \in Nat
        /\ \A t \in Tenants : tenant_cycle_debt[t] \in Nat
    BY TargetFacts, ArithmeticAssumption DEF BudgetInv, TypeOK, BudgetWithinCap
  <1>2. /\ UNCHANGED <<counters, tenant_cycle_debt>> /\ spc # "settle" /\ spc' # "settle"
        /\ \A t \in Tenants :
              /\ restrict_tenant'[t] = IF t \in opened THEN TENANT_RESTRICT_NONE
                                                       ELSE restrict_tenant[t]
              /\ tenant_cycle_budget[t] <= tenant_cycle_budget'[t]
    BY DEF Redistributes
  <1>3. PICK left \in Nat : /\ Total(tenant_cycle_budget') + left = Total(tenant_cycle_budget) + cycle_pool
                            /\ cycle_pool' \in {0, left}
    BY DEF Redistributes
  <1>4. PICK gain : gain = [t \in Tenants |-> tenant_cycle_budget'[t] - tenant_cycle_budget[t]]
    OBVIOUS
  <1>5. /\ gain[0] = tenant_cycle_budget'[0] - tenant_cycle_budget[0]
        /\ gain[1] = tenant_cycle_budget'[1] - tenant_cycle_budget[1]
        /\ gain[0] \in Nat /\ gain[1] \in Nat
    BY <1>1, <1>2, <1>4, TenantsAre
  <1>6. gain[0] + gain[1] + left = cycle_pool
    <2>1. /\ tenant_cycle_budget[0] \in Nat /\ tenant_cycle_budget[1] \in Nat
          /\ tenant_cycle_budget'[0] \in Nat /\ tenant_cycle_budget'[1] \in Nat /\ cycle_pool \in Nat
      BY <1>1, TenantsAre
    <2>2. tenant_cycle_budget'[0] + tenant_cycle_budget'[1] + left
              = tenant_cycle_budget[0] + tenant_cycle_budget[1] + cycle_pool
      BY <1>3 DEF Total
    <2> QED
      BY <1>5, <2>1, <2>2
  <1>7. gain \in [Cycles!Tenants -> 0..cycle_pool]
    <2>1. gain[0] \in 0..cycle_pool /\ gain[1] \in 0..cycle_pool
      BY <1>1, <1>5, <1>6
    <2> QED
      BY <1>4, <2>1, TenantsAre DEF Cycles!Tenants
  <1>8. Cycles!Sum(gain) <= cycle_pool /\ cycle_pool' \in {0, cycle_pool - Cycles!Sum(gain)}
    <2>1. left = cycle_pool - (gain[0] + gain[1]) /\ gain[0] + gain[1] <= cycle_pool
      BY <1>1, <1>5, <1>6
    <2> QED
      BY <1>3, <2>1 DEF Cycles!Sum
  <1>9. \A t \in Tenants : CycleBalance'[t] = CycleBalance[t] + gain[t]
    <2>1. ASSUME NEW t \in Tenants PROVE CycleBalance'[t] = CycleBalance[t] + gain[t]
      <3>1. /\ CycleBalance[t] = tenant_cycle_budget[t] - tenant_cycle_debt[t]
            /\ CycleBalance'[t] = tenant_cycle_budget'[t] - tenant_cycle_debt[t]
            /\ gain[t] = tenant_cycle_budget'[t] - tenant_cycle_budget[t]
        BY <1>2, <1>4 DEF CycleBalance
      <3>2. /\ tenant_cycle_budget[t] \in Nat /\ tenant_cycle_budget'[t] \in Nat
            /\ tenant_cycle_debt[t] \in Nat
        BY <1>1
      <3> QED
        BY <3>1, <3>2
    <2> QED
      BY <2>1
  <1>10. \A t \in Tenants : CycleBalance[t] + gain[t] <= tenant_cycle_budget_cap[t]
    <2>1. ASSUME NEW t \in Tenants PROVE CycleBalance[t] + gain[t] <= tenant_cycle_budget_cap[t]
      <3>1. CycleBalance[t] + gain[t] = tenant_cycle_budget'[t] - tenant_cycle_debt[t]
        BY <1>2, <1>9 DEF CycleBalance
      <3> QED
        BY <1>1, <3>1
    <2> QED
      BY <2>1
  <1>11. CycleBalance' = [t \in Tenants |-> CycleBalance[t] + gain[t]]
    BY <1>1, <1>9 DEF CycleBalance
  <1>12. CycleGate' = [t \in Tenants |-> IF t \in opened THEN "open" ELSE CycleGate[t]]
    BY <1>2 DEF CycleGate, GateFor
  <1>13. UNCHANGED CycleMeter
    BY <1>2 DEF CycleMeter, Taken, At, counters
  <1>14. Cycles!Tenants = Tenants
    BY TenantsAre DEF Cycles!Tenants
  <1>15. Cycles!Distribute(gain, opened)
    BY <1>8, <1>10, <1>11, <1>12, <1>13, <1>14 DEF Cycles!Distribute
  <1> QED
    BY <1>7, <1>15 DEF Cycles!MNext

\* Steps that end a rollover hand out bytes of the pool within the caps.
LEMMA DistributeBytesMapped ==
    ASSUME BudgetInv, BudgetInv', NEW opened \in SUBSET Accounted, Redistributes(opened),
           SettledTenants = Accounted, UNCHANGED <<ByteJob, SettledTenants>>
    PROVE  Bytes!MNext
  <1>1. /\ tenant_bw_budget \in [Tenants -> Nat] /\ tenant_bw_budget' \in [Tenants -> Nat]
        /\ bw_pool \in Nat
        /\ \A t \in Tenants : tenant_bw_budget'[t] <= tenant_bw_budget_cap[t]
        /\ \A t \in Tenants : tenant_bw_budget_cap[t] \in Nat
    BY TargetFacts, ArithmeticAssumption DEF BudgetInv, TypeOK, BudgetWithinCap
  <1>2. /\ UNCHANGED <<counters, tenant_cycle_debt>> /\ spc # "settle" /\ spc' # "settle"
        /\ \A t \in Tenants :
              /\ restrict_tenant'[t] = IF t \in opened THEN TENANT_RESTRICT_NONE
                                                       ELSE restrict_tenant[t]
              /\ tenant_bw_budget[t] <= tenant_bw_budget'[t]
    BY DEF Redistributes
  <1>3. PICK left \in Nat : /\ Total(tenant_bw_budget') + left = Total(tenant_bw_budget) + bw_pool
                            /\ bw_pool' \in {0, left}
    BY DEF Redistributes
  <1>4. PICK gain : gain = [t \in Tenants |-> tenant_bw_budget'[t] - tenant_bw_budget[t]]
    OBVIOUS
  <1>5. /\ gain[0] = tenant_bw_budget'[0] - tenant_bw_budget[0]
        /\ gain[1] = tenant_bw_budget'[1] - tenant_bw_budget[1]
        /\ gain[0] \in Nat /\ gain[1] \in Nat
    BY <1>1, <1>2, <1>4, TenantsAre
  <1>6. gain[0] + gain[1] + left = bw_pool
    <2>1. /\ tenant_bw_budget[0] \in Nat /\ tenant_bw_budget[1] \in Nat
          /\ tenant_bw_budget'[0] \in Nat /\ tenant_bw_budget'[1] \in Nat /\ bw_pool \in Nat
      BY <1>1, TenantsAre
    <2>2. tenant_bw_budget'[0] + tenant_bw_budget'[1] + left
              = tenant_bw_budget[0] + tenant_bw_budget[1] + bw_pool
      BY <1>3 DEF Total
    <2> QED
      BY <1>5, <2>1, <2>2
  <1>7. gain \in [Bytes!Tenants -> 0..bw_pool]
    <2>1. gain[0] \in 0..bw_pool /\ gain[1] \in 0..bw_pool
      BY <1>1, <1>5, <1>6
    <2> QED
      BY <1>4, <2>1, TenantsAre DEF Bytes!Tenants
  <1>8. Bytes!Sum(gain) <= bw_pool /\ bw_pool' \in {0, bw_pool - Bytes!Sum(gain)}
    <2>1. left = bw_pool - (gain[0] + gain[1]) /\ gain[0] + gain[1] <= bw_pool
      BY <1>1, <1>5, <1>6
    <2> QED
      BY <1>3, <2>1 DEF Bytes!Sum
  <1>9. \A t \in Tenants : tenant_bw_budget'[t] = tenant_bw_budget[t] + gain[t]
    BY <1>1, <1>4
  <1>10. \A t \in Tenants : tenant_bw_budget[t] + gain[t] <= tenant_bw_budget_cap[t]
    BY <1>1, <1>9
  <1>11. tenant_bw_budget' = [t \in Tenants |-> tenant_bw_budget[t] + gain[t]]
    BY <1>1, <1>9
  <1>12. ByteGate' = [t \in Tenants |-> IF t \in opened THEN "open" ELSE ByteGate[t]]
    BY <1>2 DEF ByteGate, GateFor
  <1>13. UNCHANGED tenant_bw_consumed
    BY <1>2 DEF counters
  <1>14. Bytes!Tenants = Tenants
    BY TenantsAre DEF Bytes!Tenants
  <1>15. Bytes!Distribute(gain, opened)
    BY <1>8, <1>10, <1>11, <1>12, <1>13, <1>14 DEF Bytes!Distribute
  <1> QED
    BY <1>7, <1>15 DEF Bytes!MNext

-----------------------------------------------------------------------------
(* The refinement                                                          *)

\* Every step of the scheduler is one of both resources' steps, or none.
LEMMA SchedulerMapped ==
    ASSUME NEW r \in 1..SIZE_MAX, FitsAt(r), MeterInv(r), Scheduler
    PROVE  [Cycles!MNext]_(Cycles!mvars) /\ [Bytes!MNext]_(Bytes!mvars)
  <1>1. BudgetInv /\ TypeOK /\ CheckInv /\ PoolsEmpty /\ Next /\ BudgetInv'
    <2>1. BudgetInv /\ CauseInv /\ PoolsEmpty /\ Next
      BY DEF MeterInv, TrafficInv, Next
    <2> QED
      BY <2>1, NextBudgetInv DEF CauseInv, BudgetInv
  <1>2. CASE Silent
    BY <1>1, <1>2, SilentMapped
  <1>3. CASE CheckStore
    BY <1>1, <1>3, CheckStoreMapped
  <1>4. CASE Release \/ DrfClear
    BY <1>1, <1>4, ReleaseMapped
  <1>5. CASE ApplyDebt
    BY <1>1, <1>5, ApplyDebtMapped
  <1>6. CASE Settle
    BY <1>1, <1>6, SettleCyclesMapped, SettleBytesMapped
  <1>7. CASE Receive \/ ReceiveDone \/ DrfIdle \/ (\E t \in Tenants : DrfSingle(t)) \/ DrfShare
    <2>1. ~Settle /\ ~ApplyDebt
      BY <1>7 DEF Receive, ReceiveDone, DrfIdle, DrfSingle, DrfShare, SettleDone, Settle, ApplyDebt, At
    <2>2. UNCHANGED <<CycleJob, ByteJob, SettledTenants>>
      BY <1>1, <2>1, SchedulerJobs, SettledKept
    <2>3. /\ SettledTenants = Accounted
          /\ \E opened \in SUBSET Accounted : Redistributes(opened)
      BY <1>1, <1>7, RedistributionSteps
    <2>4. PICK opened \in SUBSET Accounted : Redistributes(opened)
      BY <2>3
    <2>5. Cycles!MNext
      BY <1>1, <2>2, <2>3, <2>4, DistributeCyclesMapped
    <2>6. Bytes!MNext
      BY <1>1, <2>2, <2>3, <2>4, DistributeBytesMapped
    <2> QED
      BY <2>5, <2>6
  <1> QED
    BY <1>2, <1>3, <1>4, <1>5, <1>6, <1>7
       DEF Scheduler, Rollover, Redistribute, CheckBudget, Silent

\* Every step of the system is one of both resources' steps, or none.
LEMMA StepMapped ==
    ASSUME NEW r \in 1..SIZE_MAX, FitsAt(r), MeterInv(r), [Next]_vars
    PROVE  [Cycles!MNext]_(Cycles!mvars) /\ [Bytes!MNext]_(Bytes!mvars)
  <1>1. TrafficInv(r)
    BY DEF MeterInv
  <1>2. CASE Scheduler
    BY <1>2, SchedulerMapped
  <1>3. ASSUME NEW v \in Workers, Worker(v)
        PROVE  [Cycles!MNext]_(Cycles!mvars) /\ [Bytes!MNext]_(Bytes!mvars)
    BY <1>1, <1>3, WorkerCyclesMapped, WorkerBytesMapped
  <1>4. CASE UNCHANGED vars
    <2>1. /\ UNCHANGED <<tenant_cycle_consumed, tenant_bw_consumed, restrict_tenant>>
          /\ UNCHANGED <<tenant_cycle_budget, tenant_bw_budget, tenant_cycle_debt>>
          /\ UNCHANGED <<spc, st, cycle_used, cycle_pool, bw_pool>>
          /\ UNCHANGED <<wpc, wq, cycle_delta, packet_size>>
      BY <1>4 DEF vars, counters, budgets, schLocals, workers
    <2>2. UNCHANGED <<CycleJob, ByteJob>>
      BY <2>1 DEF CycleJob, ByteJob, Unmetered
    <2>3. UNCHANGED <<CycleMeter, CycleBalance, CycleGate, ByteGate, SettledTenants>>
      BY <2>1 DEF CycleMeter, Taken, CycleBalance, CycleGate, ByteGate, GateFor, SettledTenants,
                  Regranted, At
    <2> QED
      BY <2>1, <2>2, <2>3 DEF Cycles!mvars, Bytes!mvars
  <1> QED
    BY <1>2, <1>3, <1>4 DEF Next

\* Both resources start with full quotas, open gates and empty meters.
LEMMA InitMapped == Init => Cycles!MInit /\ Bytes!MInit
  <1> SUFFICES ASSUME Init PROVE Cycles!MInit /\ Bytes!MInit
    OBVIOUS
  <1>1. Cycles!Tenants = Tenants /\ Bytes!Tenants = Tenants
    BY TenantsAre DEF Cycles!Tenants, Bytes!Tenants
  <1>2. /\ CycleJob = [w \in Workers |-> [tenant |-> 0, cost |-> 0]]
        /\ ByteJob = [w \in Workers |-> [tenant |-> 0, cost |-> 0]]
    BY DEF Init, CycleJob, ByteJob, Unmetered
  <1>3. /\ CycleGate = [t \in Tenants |-> "open"] /\ ByteGate = [t \in Tenants |-> "open"]
        /\ SettledTenants = {}
    BY DEF Init, CycleGate, ByteGate, GateFor, SettledTenants, Regranted, At
  <1>4. CycleMeter = [t \in Tenants |-> 0]
    BY DEF Init, CycleMeter, Taken, At
  <1>5. CycleBalance = tenant_cycle_target
    BY TargetFacts DEF Init, CycleBalance
  <1>6. /\ tenant_bw_consumed = [t \in Tenants |-> 0] /\ tenant_bw_budget = tenant_bw_target
        /\ cycle_pool = 0 /\ bw_pool = 0
    BY DEF Init
  <1> QED
    BY <1>1, <1>2, <1>3, <1>4, <1>5, <1>6 DEF Cycles!MInit, Bytes!MInit, Cycles!NoJob, Bytes!NoJob

\* The implementation for one bound r on the bytes per cycle.
LEMMA MeteringAt ==
    ASSUME NEW r \in 1..SIZE_MAX, FitsAt(r)
    PROVE  Spec => CyclesMetered /\ BytesMetered
  <1>1. Spec => []MeterInv(r)
    BY MeterInvariance
  <1>2. MeterInv(r) /\ [Next]_vars => [Cycles!MNext]_(Cycles!mvars) /\ [Bytes!MNext]_(Bytes!mvars)
    BY StepMapped
  <1> QED
    BY <1>1, <1>2, InitMapped, PTL DEF Spec, CyclesMetered, BytesMetered, Cycles!MSpec, Bytes!MSpec

\* While no tenant's traffic overflows its counters, scheduler and workers
\* implement a metered resource in cycles: every packet is metered once,
\* tenants are stopped over cycles only when their balance is used up, and
\* each rollover settles each tenant once, without creating cycles.
THEOREM CyclesImplementMetering ==
    ASSUME TrafficFits
    PROVE  Spec => CyclesMetered
  <1>1. PICK r \in 1..SIZE_MAX : FitsAt(r)
    BY DEF TrafficFits
  <1>2. Spec => CyclesMetered /\ BytesMetered
    BY <1>1, MeteringAt
  <1> QED
    BY <1>2

\* The same in bytes, whose overdraft a rollover forgives.
THEOREM BytesImplementMetering ==
    ASSUME TrafficFits
    PROVE  Spec => BytesMetered
  <1>1. PICK r \in 1..SIZE_MAX : FitsAt(r)
    BY DEF TrafficFits
  <1>2. Spec => CyclesMetered /\ BytesMetered
    BY <1>1, MeteringAt
  <1> QED
    BY <1>2
=============================================================================
