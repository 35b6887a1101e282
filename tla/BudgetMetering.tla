--------------------------- MODULE BudgetMetering ---------------------------
(***************************************************************************)
(* BudgetScheduler implements MeteredResource, once for cycles and once    *)
(* for bytes.  Cycles that the exchange has taken out of the counter stay  *)
(* on the meter until they are settled; the balance is the budget less the *)
(* debt, so that paying a debt changes nothing.                            *)
(***************************************************************************)
EXTENDS BudgetScheduler

GateFor(kind) ==
    [t \in Tenants |-> IF restrict_tenant[t] = TENANT_RESTRICT_NONE THEN "open"
                       ELSE IF restrict_tenant[t] = kind THEN "this"
                       ELSE "another"]

SettledTenants == {t \in Accounted : Regranted(t)}

\* A packet of worker w that is not on the meter yet.
Unmetered(w, places, cost) ==
    IF wpc[w] \in places THEN [tenant |-> wq[w], cost |-> cost] ELSE [tenant |-> 0, cost |-> 0]

CycleJob == [w \in Workers |-> Unmetered(w, {"charge_cycles"}, cycle_delta[w])]

CycleMeter == [t \in Tenants |-> tenant_cycle_consumed[t] + Taken(t)]

CycleBalance == [t \in Tenants |-> tenant_cycle_budget[t] - tenant_cycle_debt[t]]

CycleGate == GateFor(TENANT_RESTRICT_CYCLE)

Cycles == INSTANCE MeteredResource WITH
    Costs    <- PktCycles,
    Forgives <- FALSE,
    quota    <- tenant_cycle_target,
    cap      <- tenant_cycle_budget_cap,
    job      <- CycleJob,
    meter    <- CycleMeter,
    balance  <- CycleBalance,
    pool     <- cycle_pool,
    gate     <- CycleGate,
    settled  <- SettledTenants

ByteJob == [w \in Workers |-> Unmetered(w, {"charge_cycles", "charge_bytes"}, packet_size[w])]

ByteGate == GateFor(TENANT_RESTRICT_BW)

Bytes == INSTANCE MeteredResource WITH
    Costs    <- PktBytes,
    Forgives <- TRUE,
    quota    <- tenant_bw_target,
    cap      <- tenant_bw_budget_cap,
    job      <- ByteJob,
    meter    <- tenant_bw_consumed,
    balance  <- tenant_bw_budget,
    pool     <- bw_pool,
    gate     <- ByteGate,
    settled  <- SettledTenants

\* Whatever the interleaving of workers, checks and rollovers, cycles are
\* metered once, tenants stopped over cycles have used their balance up, and
\* each rollover settles each tenant once, without creating cycles.
CyclesMetered == Cycles!MSpec

\* The same for bytes, whose overdraft is forgiven.
BytesMetered == Bytes!MSpec

-----------------------------------------------------------------------------
(***************************************************************************)
(* What the refinement rests on (proved in MeteringProofs).                *)
(***************************************************************************)
PoolsEmpty ==
    (Mode = "OFF" \/ spc \notin {"take", "settle", "release", "receive"}) =>
        cycle_pool = 0 /\ bw_pool = 0

\* A tenant in debt has no cycle budget until it is given its next quota.
DebtorWaits ==
    \A t \in Accounted :
        (tenant_cycle_debt[t] > 0 /\ ~Regranted(t)) => tenant_cycle_budget[t] = 0

MeterInv(r) == TrafficInv(r) /\ PoolsEmpty /\ DebtorWaits
=============================================================================
