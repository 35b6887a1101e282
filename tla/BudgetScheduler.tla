-------------------------- MODULE BudgetScheduler ---------------------------
(***************************************************************************)
(* One scheduler thread (flexio_scheduler_handle) and its worker threads   *)
(* (flexio_pp_dev_32), which share one dpa_sche_context.                    *)
(*                                                                         *)
(* Workers drain one receive queue per tenant and charge every packet to   *)
(* its tenant with two relaxed atomic adds.  The scheduler reads the       *)
(* counters, restricts a tenant that has used up its budget and, once per  *)
(* period, rolls the budgets over.  Every access to a location that the    *)
(* other side writes is a step of its own; what a thread does between two  *)
(* such accesses belongs to the step of the first.                         *)
(*                                                                         *)
(* There are no clocks: whether a deadline has passed is a free choice     *)
(* where the code compares __dpa_thread_cycles() with it.                  *)
(***************************************************************************)
EXTENDS TenantBudget

CONSTANTS
    Mode,                    \* SCH_ROLLOVER_WORK_CONSERVING
    THREADS_NUM,             \* threads_num_per_scheduler
    TENANTS_NUM,             \* tenants_num as passed by the host
    SCHEDULER_NUM,           \* scheduler_num
    SCHED_PERIOD_CYCLES,
    MAX_CYCLE_PERCENTAGE,    \* ..._DPA_HEAP or ..._DPU_MEM, by buffer_location
    MAX_CYCLE_TOTAL,
    PERIOD_BYTES,            \* DEFAULT_LINK_BANDWIDTH_BPS / 8 / 1000
    cycle_weights,
    bandwidth_weights,
    WORKER_QUEUE_POLL_CYCLE_LIMIT,
    PktCycles,               \* what one packet may cost, in cycles
    PktBytes,                \* and in bytes
    Traffic,                 \* cycles of work offered to each tenant, in all
    MaxReportPeriods         \* bound: rollovers between two usage reports

Modes == {"OFF", "BUCKET", "DRF"}

Workers == 0..(THREADS_NUM - 1)

ASSUME ParameterAssumption ==
    /\ Mode \in Modes
    /\ THREADS_NUM \in Nat \ {0}
    /\ TENANTS_NUM \in Nat
    /\ SCHEDULER_NUM \in Nat
    /\ SCHED_PERIOD_CYCLES \in Nat
    /\ MAX_CYCLE_PERCENTAGE \in Nat
    /\ MAX_CYCLE_TOTAL \in Nat \ {0}
    /\ PERIOD_BYTES \in Nat
    /\ cycle_weights \in [Tenants -> Nat \ {0}]
    /\ bandwidth_weights \in [Tenants -> Nat \ {0}]
    /\ WORKER_QUEUE_POLL_CYCLE_LIMIT \in Nat \ {0}
    /\ PktCycles \subseteq (1..SIZE_MAX)
    /\ PktBytes \subseteq (1..SIZE_MAX)
    /\ Traffic \in [Tenants -> Nat]
    /\ MaxReportPeriods \in Nat \ {0}

-----------------------------------------------------------------------------
(***************************************************************************)
(* Quotas: sch_init_cycle_accounting and sch_init_bandwidth_accounting.    *)
(***************************************************************************)
tenants_num == IF TENANTS_NUM > MAX_TENANT_NUM THEN MAX_TENANT_NUM ELSE TENANTS_NUM

\* The tenants the scheduler keeps accounts of; workers serve all of Tenants.
Accounted == {t \in Tenants : t < tenants_num}

\* sum_weight: the weights of the accounted tenants.
SumWeight(weights) ==
    (IF 0 \in Accounted THEN weights[0] ELSE 0) + (IF 1 \in Accounted THEN weights[1] ELSE 0)

base_cycle_budget ==
    (SCHED_PERIOD_CYCLES * THREADS_NUM * MAX_CYCLE_PERCENTAGE) \div MAX_CYCLE_TOTAL

per_period_total_budget ==
    PERIOD_BYTES \div (IF SCHEDULER_NUM = 0 THEN 1 ELSE SCHEDULER_NUM)

QuotaOf(base, weights, t) ==
    IF t \in Accounted THEN tenant_quota(base, weights[t], SumWeight(weights)) ELSE 0

tenant_cycle_target == [t \in Tenants |-> QuotaOf(base_cycle_budget, cycle_weights, t)]

tenant_bw_target == [t \in Tenants |-> QuotaOf(per_period_total_budget, bandwidth_weights, t)]

tenant_cycle_budget_cap == [t \in Tenants |-> sch_budget_cap(tenant_cycle_target[t])]

tenant_bw_budget_cap == [t \in Tenants |-> sch_budget_cap(tenant_bw_target[t])]

-----------------------------------------------------------------------------
VARIABLES
    \* dpa_sche_context, fields written by the workers
    tenant_cycle_consumed,
    tenant_bw_consumed,
    \* and by the scheduler
    restrict_tenant,
    tenant_cycle_budget,
    tenant_bw_budget,
    tenant_cycle_debt,
    tenant_cycle_report_used,
    tenant_cycle_report_periods,
    \* the scheduler thread: where it is, its loop index and its locals
    spc, st, cycle_used, restriction, cycle_pool, bw_pool,
    \* the worker threads: where each is, the queue it is at and its locals
    wpc, wq, queue_cycles, cycle_delta, packet_size,
    \* work, in cycles, still to be received on a tenant's queues
    supply

counters == <<tenant_cycle_consumed, tenant_bw_consumed>>
budgets == <<tenant_cycle_budget, tenant_bw_budget, tenant_cycle_debt>>
reports == <<tenant_cycle_report_used, tenant_cycle_report_periods>>
schLocals == <<cycle_used, restriction, cycle_pool, bw_pool>>
workers == <<wpc, wq, queue_cycles, cycle_delta, packet_size>>

vars == <<counters, restrict_tenant, budgets, reports, spc, st, schLocals, workers, supply>>

SchPC == {"off", "loop", "check", "check_bw", "check_store", "timer", "take",
          "settle", "release", "receive", "clear", "apply", "report"}

WorkerPC == {"poll", "drain", "charge_cycles", "charge_bytes", "asleep"}

\* The state once sch_ctx_init has run and the workers have been woken.
Init ==
    /\ tenant_cycle_consumed = [t \in Tenants |-> 0]
    /\ tenant_bw_consumed = [t \in Tenants |-> 0]
    /\ restrict_tenant = [t \in Tenants |-> TENANT_RESTRICT_NONE]
    /\ tenant_cycle_budget = tenant_cycle_target
    /\ tenant_bw_budget = tenant_bw_target
    /\ tenant_cycle_debt = [t \in Tenants |-> 0]
    /\ tenant_cycle_report_used = [t \in Tenants |-> 0]
    /\ tenant_cycle_report_periods = 0
    /\ spc = "loop"
    /\ st = 0
    /\ cycle_used = 0
    /\ restriction = TENANT_RESTRICT_NONE
    /\ cycle_pool = 0
    /\ bw_pool = 0
    /\ wpc = [w \in Workers |-> "poll"]
    /\ wq = [w \in Workers |-> 0]
    /\ queue_cycles = [w \in Workers |-> 0]
    /\ cycle_delta = [w \in Workers |-> 0]
    /\ packet_size = [w \in Workers |-> 0]
    /\ supply = Traffic

-----------------------------------------------------------------------------
(***************************************************************************)
(* The scheduler's main loop.  A local that is dead is set back to 0 so    *)
(* that states differ only in what the threads can still use.              *)
(***************************************************************************)
At(pc) == spc = pc

Goto(pc, t) == spc' = pc /\ st' = t

\* The loop condition holds: a new round of checks begins.
StartCheck ==
    /\ At("loop")
    /\ Goto("check", 0)
    /\ UNCHANGED <<counters, restrict_tenant, budgets, reports, schLocals, workers, supply>>

\* reschedule_cycle has passed: arm the queues' CQs and leave the EU.
Reschedule ==
    /\ At("loop")
    /\ Goto("off", 0)
    /\ UNCHANGED <<counters, restrict_tenant, budgets, reports, schLocals, workers, supply>>

\* An armed queue has a completion: the handler is entered again, and does
\* not initialise the context a second time.
Activate ==
    /\ At("off")
    /\ \E t \in Tenants : supply[t] > 0
    /\ Goto("loop", 0)
    /\ UNCHANGED <<counters, restrict_tenant, budgets, reports, schLocals, workers, supply>>

(***************************************************************************)
(* sch_check_budget                                                        *)
(***************************************************************************)
CheckSkip ==
    /\ At("check") /\ st \in Accounted
    /\ restrict_tenant[st] # TENANT_RESTRICT_NONE
    /\ Goto("check", st + 1)
    /\ UNCHANGED <<counters, restrict_tenant, budgets, reports, schLocals, workers, supply>>

CheckLoadCycles ==
    /\ At("check") /\ st \in Accounted
    /\ restrict_tenant[st] = TENANT_RESTRICT_NONE
    /\ cycle_used' = tenant_cycle_consumed[st]
    /\ Goto("check_bw", st)
    /\ UNCHANGED <<counters, restrict_tenant, budgets, reports, restriction, cycle_pool, bw_pool,
                   workers, supply>>

\* Mutant: usage is compared with the quota, not with the budget.
CheckAgainstTarget ==
    /\ At("check_bw")
    /\ restriction' = RestrictionFor(cycle_used, tenant_cycle_target[st],
                                     tenant_bw_consumed[st], tenant_bw_target[st])
    /\ cycle_used' = 0
    /\ IF restriction' = TENANT_RESTRICT_NONE THEN Goto("check", st + 1)
                                              ELSE Goto("check_store", st)
    /\ UNCHANGED <<counters, restrict_tenant, budgets, reports, cycle_pool, bw_pool, workers, supply>>

\* The second load, and the comparison of both values with the budgets.
CheckLoadBytes ==
    /\ At("check_bw")
    /\ restriction' = RestrictionFor(cycle_used, tenant_cycle_budget[st],
                                     tenant_bw_consumed[st], tenant_bw_budget[st])
    /\ cycle_used' = 0
    /\ IF restriction' = TENANT_RESTRICT_NONE THEN Goto("check", st + 1)
                                              ELSE Goto("check_store", st)
    /\ UNCHANGED <<counters, restrict_tenant, budgets, reports, cycle_pool, bw_pool, workers, supply>>

CheckStore ==
    /\ At("check_store")
    /\ restrict_tenant' = [restrict_tenant EXCEPT ![st] = restriction]
    /\ restriction' = TENANT_RESTRICT_NONE
    /\ Goto("check", st + 1)
    /\ UNCHANGED <<counters, budgets, reports, cycle_used, cycle_pool, bw_pool, workers, supply>>

CheckDone ==
    /\ At("check") /\ st \notin Accounted
    /\ Goto("timer", 0)
    /\ UNCHANGED <<counters, restrict_tenant, budgets, reports, schLocals, workers, supply>>

-----------------------------------------------------------------------------
(***************************************************************************)
(* sch_rollover_budget                                                     *)
(***************************************************************************)
\* now_cycle has reached next_sched_cycle.
StartRollover ==
    /\ At("timer")
    /\ tenant_cycle_report_periods < MaxReportPeriods
    /\ Goto("take", 0)
    /\ UNCHANGED <<counters, restrict_tenant, budgets, reports, schLocals, workers, supply>>

SkipRollover ==
    /\ At("timer")
    /\ Goto("report", 0)
    /\ UNCHANGED <<counters, restrict_tenant, budgets, reports, schLocals, workers, supply>>

\* Mutant: a load in place of the exchange.
TakeByLoad ==
    /\ At("take") /\ st \in Accounted
    /\ cycle_used' = tenant_cycle_consumed[st]
    /\ Goto("settle", st)
    /\ UNCHANGED <<counters, restrict_tenant, budgets, reports, restriction, cycle_pool, bw_pool,
                   workers, supply>>

\* The exchange of tenant_cycle_consumed[t] with 0.
TakeCycles ==
    /\ At("take") /\ st \in Accounted
    /\ cycle_used' = tenant_cycle_consumed[st]
    /\ tenant_cycle_consumed' = [tenant_cycle_consumed EXCEPT ![st] = 0]
    /\ Goto("settle", st)
    /\ UNCHANGED <<tenant_bw_consumed, restrict_tenant, budgets, reports, restriction, cycle_pool,
                   bw_pool, workers, supply>>

(***************************************************************************)
(* The budget and pool contribution of tenant t after its settlement, in   *)
(* resource `kind`: in DRF mode a tenant restricted in that resource gives *)
(* the part above its target back at once.                                 *)
(***************************************************************************)
Settled(kind, t, quota, cap, used, budget) ==
    LET s == sch_budget_settle(quota, cap, used, budget)
        r == sch_budget_reclaim_over_target(s.budget, quota)
    IN  CASE Mode = "OFF" -> [budget |-> quota, pool |-> 0]
          [] Mode = "DRF" /\ restrict_tenant[t] = kind ->
                 [budget |-> r.budget, pool |-> s.spill + r.excess]
          [] OTHER -> [budget |-> s.budget, pool |-> s.spill]

\* The exchange of tenant_bw_consumed[t] with 0 and the settlement.
Settle ==
    LET cyc == Settled(TENANT_RESTRICT_CYCLE, st, tenant_cycle_target[st],
                       tenant_cycle_budget_cap[st], cycle_used, tenant_cycle_budget[st])
        bw  == Settled(TENANT_RESTRICT_BW, st, tenant_bw_target[st],
                       tenant_bw_budget_cap[st], tenant_bw_consumed[st], tenant_bw_budget[st])
    IN
    /\ At("settle")
    /\ tenant_bw_consumed' = [tenant_bw_consumed EXCEPT ![st] = 0]
    /\ tenant_cycle_debt' =
           [tenant_cycle_debt EXCEPT
               ![st] = sch_cycle_record_debt(tenant_cycle_budget[st], cycle_used, @)]
    /\ tenant_cycle_budget' = [tenant_cycle_budget EXCEPT ![st] = cyc.budget]
    /\ tenant_bw_budget' = [tenant_bw_budget EXCEPT ![st] = bw.budget]
    /\ cycle_pool' = cycle_pool + cyc.pool
    /\ bw_pool' = bw_pool + bw.pool
    /\ tenant_cycle_report_used' =
           [tenant_cycle_report_used EXCEPT ![st] = SizeAdd(@, cycle_used)]
    /\ cycle_used' = 0
    /\ IF Mode = "OFF" THEN Goto("release", st) ELSE Goto("take", st + 1)
    /\ UNCHANGED <<tenant_cycle_consumed, restrict_tenant, tenant_cycle_report_periods, restriction,
                   workers, supply>>

\* Mutant: only a restriction in cycles is lifted.
ReleaseCyclesOnly ==
    /\ At("release")
    /\ restrict_tenant' = [restrict_tenant EXCEPT
           ![st] = IF @ = TENANT_RESTRICT_CYCLE THEN TENANT_RESTRICT_NONE ELSE @]
    /\ Goto("take", st + 1)
    /\ UNCHANGED <<counters, budgets, reports, schLocals, workers, supply>>

\* Mode OFF lifts a tenant's restriction before it turns to the next one.
Release ==
    /\ At("release")
    /\ restrict_tenant' = [restrict_tenant EXCEPT ![st] = TENANT_RESTRICT_NONE]
    /\ Goto("take", st + 1)
    /\ UNCHANGED <<counters, budgets, reports, schLocals, workers, supply>>

SettleDone == At("take") /\ st \notin Accounted

NextPeriod == tenant_cycle_report_periods' = tenant_cycle_report_periods + 1

OffDone ==
    /\ SettleDone /\ Mode = "OFF"
    /\ NextPeriod
    /\ Goto("apply", 0)
    /\ UNCHANGED <<counters, restrict_tenant, budgets, tenant_cycle_report_used, schLocals, workers,
                   supply>>

BucketDone ==
    /\ SettleDone /\ Mode = "BUCKET"
    /\ NextPeriod
    /\ Goto("receive", 0)
    /\ UNCHANGED <<counters, restrict_tenant, budgets, tenant_cycle_report_used, schLocals, workers,
                   supply>>

\* Mutant: the restriction is not lifted.
ReceiveWithoutRelease ==
    LET cyc == sch_budget_receive(tenant_cycle_budget[st], tenant_cycle_budget_cap[st], cycle_pool)
        bw  == sch_budget_receive(tenant_bw_budget[st], tenant_bw_budget_cap[st], bw_pool)
    IN
    /\ At("receive") /\ st \in Accounted
    /\ tenant_cycle_budget' = [tenant_cycle_budget EXCEPT ![st] = cyc.budget]
    /\ tenant_bw_budget' = [tenant_bw_budget EXCEPT ![st] = bw.budget]
    /\ cycle_pool' = cyc.left
    /\ bw_pool' = bw.left
    /\ Goto("receive", st + 1)
    /\ UNCHANGED <<counters, restrict_tenant, tenant_cycle_debt, reports, cycle_used, restriction,
                   workers, supply>>

\* Mode BUCKET: tenant t fills up from the pools, then its restriction is
\* lifted, before any debt has been taken off.
Receive ==
    LET cyc == sch_budget_receive(tenant_cycle_budget[st], tenant_cycle_budget_cap[st], cycle_pool)
        bw  == sch_budget_receive(tenant_bw_budget[st], tenant_bw_budget_cap[st], bw_pool)
    IN
    /\ At("receive") /\ st \in Accounted
    /\ tenant_cycle_budget' = [tenant_cycle_budget EXCEPT ![st] = cyc.budget]
    /\ tenant_bw_budget' = [tenant_bw_budget EXCEPT ![st] = bw.budget]
    /\ cycle_pool' = cyc.left
    /\ bw_pool' = bw.left
    /\ restrict_tenant' = [restrict_tenant EXCEPT ![st] = TENANT_RESTRICT_NONE]
    /\ Goto("receive", st + 1)
    /\ UNCHANGED <<counters, tenant_cycle_debt, reports, cycle_used, restriction, workers, supply>>

\* What is still in the pools is dropped with the locals that held it.
ReceiveDone ==
    /\ At("receive") /\ st \notin Accounted
    /\ cycle_pool' = 0 /\ bw_pool' = 0
    /\ Goto("apply", 0)
    /\ UNCHANGED <<counters, restrict_tenant, budgets, reports, cycle_used, restriction, workers,
                   supply>>

\* The tenants found restricted at this rollover: only the scheduler writes
\* restrict_tenant, so active_count is its size.
Active == {t \in Accounted : restrict_tenant[t] # TENANT_RESTRICT_NONE}

\* Mode DRF, nobody restricted: nothing is redistributed.
DrfIdle ==
    /\ SettleDone /\ Mode = "DRF" /\ Active = {}
    /\ NextPeriod
    /\ cycle_pool' = 0 /\ bw_pool' = 0
    /\ Goto("apply", 0)
    /\ UNCHANGED <<counters, restrict_tenant, budgets, tenant_cycle_report_used, cycle_used,
                   restriction, workers, supply>>

\* Mode DRF, one tenant restricted: it takes both pools, as far as its caps
\* allow, and is released.
DrfSingle(t) ==
    /\ SettleDone /\ Mode = "DRF" /\ Active = {t}
    /\ NextPeriod
    /\ tenant_cycle_budget' =
           [tenant_cycle_budget EXCEPT
               ![t] = sch_budget_receive(@, tenant_cycle_budget_cap[t], cycle_pool).budget]
    /\ tenant_bw_budget' =
           [tenant_bw_budget EXCEPT
               ![t] = sch_budget_receive(@, tenant_bw_budget_cap[t], bw_pool).budget]
    /\ restrict_tenant' = [restrict_tenant EXCEPT ![t] = TENANT_RESTRICT_NONE]
    /\ cycle_pool' = 0 /\ bw_pool' = 0
    /\ Goto("apply", 0)
    /\ UNCHANGED <<counters, tenant_cycle_debt, tenant_cycle_report_used, cycle_used, restriction,
                   workers, supply>>

CycleAccounts ==
    [t \in Tenants |-> [budget |-> tenant_cycle_budget[t],
                        target |-> tenant_cycle_target[t],
                        cap    |-> tenant_cycle_budget_cap[t]]]

BwAccounts ==
    [t \in Tenants |-> [budget |-> tenant_bw_budget[t],
                        target |-> tenant_bw_target[t],
                        cap    |-> tenant_bw_budget_cap[t]]]

\* Mode DRF, several restricted: sch_distribute_drf_pool.
DrfShare ==
    LET shared == sch_distribute_drf_pool(restrict_tenant, CycleAccounts, BwAccounts,
                                          cycle_pool, bw_pool)
    IN
    /\ SettleDone /\ Mode = "DRF" /\ Active = Tenants
    /\ NextPeriod
    /\ tenant_cycle_budget' = shared.cycle
    /\ tenant_bw_budget' = shared.bw
    /\ cycle_pool' = 0 /\ bw_pool' = 0
    /\ Goto("clear", 0)
    /\ UNCHANGED <<counters, restrict_tenant, tenant_cycle_debt, tenant_cycle_report_used,
                   cycle_used, restriction, workers, supply>>

\* Mutant: the restrictions are kept.
DrfClearNothing ==
    /\ At("clear") /\ st \in Accounted
    /\ Goto("clear", st + 1)
    /\ UNCHANGED <<counters, restrict_tenant, budgets, reports, schLocals, workers, supply>>

\* ... and every restriction is lifted, one store at a time.
DrfClear ==
    /\ At("clear") /\ st \in Accounted
    /\ restrict_tenant' = [restrict_tenant EXCEPT ![st] = TENANT_RESTRICT_NONE]
    /\ Goto("clear", st + 1)
    /\ UNCHANGED <<counters, budgets, reports, schLocals, workers, supply>>

DrfClearDone ==
    /\ At("clear") /\ st \notin Accounted
    /\ Goto("apply", 0)
    /\ UNCHANGED <<counters, restrict_tenant, budgets, reports, schLocals, workers, supply>>

\* sch_apply_cycle_debt touches only what the scheduler alone uses.
PaidOff(t) == sch_cycle_apply_debt(tenant_cycle_budget[t], tenant_cycle_debt[t])

ApplyDebt ==
    /\ At("apply")
    /\ tenant_cycle_budget' =
           [t \in Tenants |-> IF t \in Accounted THEN PaidOff(t).budget ELSE tenant_cycle_budget[t]]
    /\ tenant_cycle_debt' =
           [t \in Tenants |-> IF t \in Accounted THEN PaidOff(t).debt ELSE tenant_cycle_debt[t]]
    /\ Goto("report", 0)
    /\ UNCHANGED <<counters, restrict_tenant, tenant_bw_budget, reports, schLocals, workers, supply>>

\* sch_report_cycle_usage, once next_report_cycle has passed.
Report ==
    /\ At("report")
    /\ tenant_cycle_report_used' =
           [t \in Tenants |-> IF t \in Accounted THEN 0 ELSE tenant_cycle_report_used[t]]
    /\ tenant_cycle_report_periods' = 0
    /\ Goto("loop", 0)
    /\ UNCHANGED <<counters, restrict_tenant, budgets, schLocals, workers, supply>>

SkipReport ==
    /\ At("report")
    /\ Goto("loop", 0)
    /\ UNCHANGED <<counters, restrict_tenant, budgets, reports, schLocals, workers, supply>>

-----------------------------------------------------------------------------
(***************************************************************************)
(* The workers.  supply stands for the receive queues of all of a tenant's *)
(* workers: a packet may or may not be in the queue of this one.           *)
(***************************************************************************)
NextQueue(w) ==
    /\ wpc' = [wpc EXCEPT ![w] = "poll"]
    /\ wq' = [wq EXCEPT ![w] = (@ + 1) % MAX_TENANT_NUM]
    /\ queue_cycles' = [queue_cycles EXCEPT ![w] = 0]

\* The tenant is restricted, or its queue has no completion: go on.
PollSkip(w) ==
    /\ wpc[w] = "poll"
    /\ NextQueue(w)
    /\ UNCHANGED <<counters, restrict_tenant, budgets, reports, spc, st, schLocals, cycle_delta,
                   packet_size, supply>>

PollHit(w) ==
    /\ wpc[w] = "poll"
    /\ restrict_tenant[wq[w]] = TENANT_RESTRICT_NONE
    /\ supply[wq[w]] > 0
    /\ wpc' = [wpc EXCEPT ![w] = "drain"]
    /\ UNCHANGED <<counters, restrict_tenant, budgets, reports, spc, st, schLocals, wq, queue_cycles,
                   cycle_delta, packet_size, supply>>

\* WORKER_DRAIN_QUEUE, loop condition false or tenant restricted meanwhile.
DrainStop(w) ==
    /\ wpc[w] = "drain"
    /\ NextQueue(w)
    /\ UNCHANGED <<counters, restrict_tenant, budgets, reports, spc, st, schLocals, cycle_delta,
                   packet_size, supply>>

\* Mutant: the restriction is tested only when the queue is first polled.
DrainUnchecked(w, c, b) ==
    /\ wpc[w] = "drain"
    /\ queue_cycles[w] < WORKER_QUEUE_POLL_CYCLE_LIMIT
    /\ c <= supply[wq[w]]
    /\ supply' = [supply EXCEPT ![wq[w]] = @ - c]
    /\ cycle_delta' = [cycle_delta EXCEPT ![w] = c]
    /\ packet_size' = [packet_size EXCEPT ![w] = b]
    /\ queue_cycles' = [queue_cycles EXCEPT ![w] = @ + c]
    /\ wpc' = [wpc EXCEPT ![w] = "charge_cycles"]
    /\ UNCHANGED <<counters, restrict_tenant, budgets, reports, spc, st, schLocals, wq>>

\* The restriction is read as NONE and a packet of c cycles and b bytes is
\* processed; nothing has been charged yet.
DrainPacket(w, c, b) ==
    /\ wpc[w] = "drain"
    /\ queue_cycles[w] < WORKER_QUEUE_POLL_CYCLE_LIMIT
    /\ restrict_tenant[wq[w]] = TENANT_RESTRICT_NONE
    /\ c <= supply[wq[w]]
    /\ supply' = [supply EXCEPT ![wq[w]] = @ - c]
    /\ cycle_delta' = [cycle_delta EXCEPT ![w] = c]
    /\ packet_size' = [packet_size EXCEPT ![w] = b]
    /\ queue_cycles' = [queue_cycles EXCEPT ![w] = @ + c]
    /\ wpc' = [wpc EXCEPT ![w] = "charge_cycles"]
    /\ UNCHANGED <<counters, restrict_tenant, budgets, reports, spc, st, schLocals, wq>>

ChargeCycles(w) ==
    /\ wpc[w] = "charge_cycles"
    /\ tenant_cycle_consumed' =
           [tenant_cycle_consumed EXCEPT ![wq[w]] = SizeAdd(@, cycle_delta[w])]
    /\ cycle_delta' = [cycle_delta EXCEPT ![w] = 0]
    /\ wpc' = [wpc EXCEPT ![w] = "charge_bytes"]
    /\ UNCHANGED <<tenant_bw_consumed, restrict_tenant, budgets, reports, spc, st, schLocals, wq,
                   queue_cycles, packet_size, supply>>

AddBytes(w) ==
    /\ wpc[w] = "charge_bytes"
    /\ tenant_bw_consumed' =
           [tenant_bw_consumed EXCEPT ![wq[w]] = SizeAdd(@, packet_size[w])]
    /\ packet_size' = [packet_size EXCEPT ![w] = 0]

ChargeBytes(w) ==
    /\ AddBytes(w)
    /\ wpc' = [wpc EXCEPT ![w] = "drain"]
    /\ UNCHANGED <<tenant_cycle_consumed, restrict_tenant, budgets, reports, spc, st, schLocals, wq,
                   queue_cycles, cycle_delta, supply>>

\* pkt_count has reached WORKER_BATCH_SIZE: the worker leaves its EU
\* (WorkerWakeup models how it gets there and back).
BatchEnd(w) ==
    /\ AddBytes(w)
    /\ wpc' = [wpc EXCEPT ![w] = "asleep"]
    /\ wq' = [wq EXCEPT ![w] = 0]
    /\ queue_cycles' = [queue_cycles EXCEPT ![w] = 0]
    /\ UNCHANGED <<tenant_cycle_consumed, restrict_tenant, budgets, reports, spc, st, schLocals,
                   cycle_delta, supply>>

Wake(w) ==
    /\ wpc[w] = "asleep"
    /\ wpc' = [wpc EXCEPT ![w] = "poll"]
    /\ UNCHANGED <<counters, restrict_tenant, budgets, reports, spc, st, schLocals, wq, queue_cycles,
                   cycle_delta, packet_size, supply>>

-----------------------------------------------------------------------------
CheckBudget == CheckSkip \/ CheckLoadCycles \/ CheckLoadBytes \/ CheckStore \/ CheckDone

Redistribute ==
    \/ OffDone
    \/ BucketDone \/ Receive \/ ReceiveDone
    \/ DrfIdle \/ (\E t \in Tenants : DrfSingle(t)) \/ DrfShare \/ DrfClear \/ DrfClearDone

\* The steps the scheduler takes without waiting for anything.
Rollover == TakeCycles \/ Settle \/ Release \/ Redistribute \/ ApplyDebt

Scheduler ==
    \/ StartCheck \/ Reschedule \/ Activate
    \/ CheckBudget
    \/ StartRollover \/ SkipRollover
    \/ Rollover
    \/ Report \/ SkipReport

Worker(w) ==
    \/ PollSkip(w) \/ PollHit(w)
    \/ DrainStop(w) \/ (\E c \in PktCycles, b \in PktBytes : DrainPacket(w, c, b))
    \/ ChargeCycles(w) \/ ChargeBytes(w) \/ BatchEnd(w) \/ Wake(w)

Next == Scheduler \/ (\E w \in Workers : Worker(w))

Spec == Init /\ [][Next]_vars

(***************************************************************************)
(* Fairness.  The loop runs on an execution unit of its own: every step    *)
(* that waits for nothing is taken.  A period, a report interval and the   *)
(* 15 s before a reschedule all pass while the loop comes round again and  *)
(* again, so a deadline that is tested for ever is met for ever (SF).  The *)
(* hardware enters the handler again when an armed CQ has a completion.    *)
(* Nothing is assumed of the workers.                                      *)
(***************************************************************************)
SchedulerFairness ==
    /\ WF_vars(CheckBudget \/ Rollover \/ StartRollover \/ SkipRollover \/ Report \/ SkipReport
               \/ StartCheck \/ Reschedule)
    /\ SF_vars(StartCheck)
    /\ SF_vars(StartRollover)
    /\ SF_vars(Report)
    /\ WF_vars(Activate)

FairSpec == Spec /\ SchedulerFairness

-----------------------------------------------------------------------------
(***************************************************************************)
(* Properties                                                              *)
(***************************************************************************)
TypeOK ==
    /\ tenant_cycle_consumed \in [Tenants -> 0..SIZE_MAX]
    /\ tenant_bw_consumed \in [Tenants -> 0..SIZE_MAX]
    /\ restrict_tenant \in [Tenants -> Restrictions]
    /\ tenant_cycle_budget \in [Tenants -> Nat]
    /\ tenant_bw_budget \in [Tenants -> Nat]
    /\ tenant_cycle_debt \in [Tenants -> 0..SIZE_MAX]
    /\ tenant_cycle_report_used \in [Tenants -> 0..SIZE_MAX]
    /\ tenant_cycle_report_periods \in Nat
    /\ spc \in SchPC
    /\ st \in 0..MAX_TENANT_NUM
    /\ cycle_used \in 0..SIZE_MAX
    /\ restriction \in Restrictions
    /\ cycle_pool \in Nat
    /\ bw_pool \in Nat
    /\ wpc \in [Workers -> WorkerPC]
    /\ wq \in [Workers -> Tenants]
    /\ queue_cycles \in [Workers -> Nat]
    /\ cycle_delta \in [Workers -> 0..SIZE_MAX]
    /\ packet_size \in [Workers -> 0..SIZE_MAX]
    /\ supply \in [Tenants -> Nat]

\* The scheduler is between the first exchange and the payment of debts.
InRollover == spc \in {"take", "settle", "release", "receive", "clear", "apply"}

\* sch_rollover_budget never grants a tenant more than its cap in either
\* resource, whatever it carries over, borrows from the pools or is given by
\* the DRF division (whose clamps are compiled out, assert_debug being 0).
BudgetWithinCap ==
    \A t \in Tenants :
        /\ tenant_cycle_budget[t] <= tenant_cycle_budget_cap[t]
        /\ tenant_bw_budget[t] <= tenant_bw_budget_cap[t]

\* Redistribution never leaves a tenant with less than its own quota: before
\* debts are taken off, every accounted tenant holds at least its target.
QuotaGuaranteed ==
    At("apply") =>
        \A t \in Accounted :
            /\ tenant_cycle_budget[t] >= tenant_cycle_target[t]
            /\ tenant_bw_budget[t] >= tenant_bw_target[t]

\* A tenant that still owes cycles after a rollover has no cycle budget, so
\* the first check after the rollover (which lifted its restriction) stops it
\* again: at the end of a round of checks it is restricted.
DebtorStopped ==
    \A t \in Accounted :
        (tenant_cycle_debt[t] > 0 /\ ~InRollover) =>
            /\ tenant_cycle_budget[t] = 0
            /\ At("timer") => restrict_tenant[t] # TENANT_RESTRICT_NONE

\* A tenant is stopped only for a budget it has really used up.  The check
\* compares values loaded before it stores the restriction; they are never
\* stale in the tenant's disfavour.
RestrictedForCause ==
    \A t \in Tenants :
        ~InRollover =>
            /\ restrict_tenant[t] = TENANT_RESTRICT_CYCLE =>
                   tenant_cycle_consumed[t] >= tenant_cycle_budget[t]
            /\ restrict_tenant[t] = TENANT_RESTRICT_BW =>
                   tenant_bw_consumed[t] >= tenant_bw_budget[t]

\* A restricted tenant with work queued is released again, also when the
\* scheduler is rescheduled while the tenant is restricted.
RestrictedIsReleased ==
    \A t \in Tenants :
        (restrict_tenant[t] # TENANT_RESTRICT_NONE /\ supply[t] > 0)
            ~> (restrict_tenant[t] = TENANT_RESTRICT_NONE)

-----------------------------------------------------------------------------
(***************************************************************************)
(* What makes the invariants above inductive (proved in BudgetProofs).     *)
(***************************************************************************)
IndexOK ==
    /\ spc \in {"check_bw", "check_store", "settle", "release"} => st \in Accounted
    /\ At("check_store") => restriction # TENANT_RESTRICT_NONE

\* Tenant t has received its quota in the rollover under way.
Regranted(t) ==
    \/ spc \in {"receive", "clear", "apply"}
    \/ spc \in {"take", "settle"} /\ t < st
    \/ At("release") /\ t <= st

\* Tenant t has been looked at in this round of checks.
Checked(t) == At("timer") \/ (spc \in {"check", "check_bw", "check_store"} /\ t < st)

SettledHasQuota ==
    \A t \in Accounted :
        Regranted(t) => /\ tenant_cycle_target[t] <= tenant_cycle_budget[t]
                        /\ tenant_bw_target[t] <= tenant_bw_budget[t]

DebtorChecked ==
    \A t \in Accounted :
        (tenant_cycle_debt[t] > 0 /\ ~InRollover) =>
            /\ tenant_cycle_budget[t] = 0
            /\ Checked(t) => restrict_tenant[t] # TENANT_RESTRICT_NONE

BudgetInv == TypeOK /\ IndexOK /\ BudgetWithinCap /\ SettledHasQuota /\ DebtorChecked

(***************************************************************************)
(* No counter wraps around: all the work ever offered to a tenant fits in  *)
(* a size_t, in cycles and in bytes, r being the most bytes that a packet  *)
(* carries per cycle it costs.                                             *)
(***************************************************************************)
AtMostPerCycle(r) == \A c \in PktCycles, b \in PktBytes : b <= r * c

FitsAt(r) == AtMostPerCycle(r) /\ \A t \in Tenants : Traffic[t] * r <= SIZE_MAX

TrafficFits == \E r \in 1..SIZE_MAX : FitsAt(r)

SumOverWorkers(f) ==
    LET sum[n \in 0..THREADS_NUM] == IF n = 0 THEN 0 ELSE sum[n - 1] + f[n - 1]
    IN  sum[THREADS_NUM]

\* What the workers hold for tenant t in `amount`, one of their locals.
HeldBy(w, t, amount) == IF wq[w] = t THEN amount[w] ELSE 0

\* Cycles, and bytes, of packets processed for t but not yet charged.
InFlight(t) == SumOverWorkers([w \in Workers |-> HeldBy(w, t, cycle_delta)])

BytesInFlight(t) == SumOverWorkers([w \in Workers |-> HeldBy(w, t, packet_size)])

\* Cycles taken by the exchange and not yet settled.
Taken(t) == IF At("settle") /\ st = t THEN cycle_used ELSE 0

\* A worker's locals hold a packet from its processing to its last charge.
WorkersCharging ==
    \A w \in Workers :
        /\ IF wpc[w] = "charge_cycles" THEN cycle_delta[w] \in PktCycles ELSE cycle_delta[w] = 0
        /\ IF wpc[w] \in {"charge_cycles", "charge_bytes"} THEN packet_size[w] \in PktBytes
                                                           ELSE packet_size[w] = 0

\* Cycles of t's traffic that no rollover has settled yet.
Outstanding(t) == supply[t] + InFlight(t) + tenant_cycle_consumed[t] + Taken(t)

CyclesFit == \A t \in Tenants : Outstanding(t) + tenant_cycle_debt[t] <= Traffic[t]

BytesFit(r) ==
    \A t \in Tenants :
        supply[t] * r + BytesInFlight(t) + tenant_bw_consumed[t] <= Traffic[t] * r

\* Restricted for a budget that is used up.
Cause(t, why) ==
    /\ why = TENANT_RESTRICT_CYCLE => tenant_cycle_consumed[t] >= tenant_cycle_budget[t]
    /\ why = TENANT_RESTRICT_BW => tenant_bw_consumed[t] >= tenant_bw_budget[t]

\* The rollover under way is past the store that releases tenant t.
Released(t) ==
    \/ At("apply")
    \/ spc \in {"receive", "clear"} /\ t < st
    \/ Mode = "OFF" /\ spc \in {"take", "settle", "release"} /\ t < st

CheckInv ==
    /\ spc \in {"check_bw", "check_store"} => restrict_tenant[st] = TENANT_RESTRICT_NONE
    /\ At("check_bw") => cycle_used <= tenant_cycle_consumed[st]
    /\ At("check_store") => Cause(st, restriction)

CauseInv ==
    /\ \A t \in Tenants :
           (t \notin Accounted \/ Released(t)) => restrict_tenant[t] = TENANT_RESTRICT_NONE
    /\ ~InRollover => \A t \in Tenants : Cause(t, restrict_tenant[t])
    /\ CheckInv

TrafficInv(r) == BudgetInv /\ WorkersCharging /\ CyclesFit /\ BytesFit(r) /\ CauseInv
=============================================================================
