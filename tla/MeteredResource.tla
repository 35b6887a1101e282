-------------------------- MODULE MeteredResource ---------------------------
(***************************************************************************)
(* What a scheduler promises about one metered resource (cycles or bytes), *)
(* without rounds of checks, without the steps of a rollover and without   *)
(* telling budgets from debts:                                             *)
(*                                                                         *)
(*   - work is done only for a tenant whose gate is open and is added to   *)
(*     its meter once;                                                     *)
(*   - the gate is shut over this resource only when the meter has reached *)
(*     the balance;                                                        *)
(*   - once per period every tenant is settled: what was metered is taken  *)
(*     off the balance and a quota is added; what exceeds the cap goes to  *)
(*     a pool, from which it may be handed out or lost, but not multiplied;*)
(*   - the gate is opened only after the settlement.                       *)
(*                                                                         *)
(* A balance below zero is a debt.  A resource that forgives forgets it.   *)
(***************************************************************************)
EXTENDS Integers

CONSTANTS
    Workers,
    Accounted,   \* the tenants that are settled
    Costs,       \* what one packet may take of the resource
    Forgives,    \* overdrafts are not carried over
    quota,       \* per tenant and period
    cap          \* the largest balance

\* As many as MAX_TENANT_NUM.
Tenants == {0, 1}

Sum(f) == f[0] + f[1]

VARIABLES
    job,       \* the packet a worker has processed and not metered yet
    meter,     \* metered and not settled
    balance,
    pool,
    gate,      \* "open", or what it was shut over: "this" resource or "another"
    settled    \* the tenants settled in the current period

mvars == <<job, meter, balance, pool, gate, settled>>

NoJob == [tenant |-> 0, cost |-> 0]

MInit ==
    /\ job = [w \in Workers |-> NoJob]
    /\ meter = [t \in Tenants |-> 0]
    /\ balance = quota
    /\ pool = 0
    /\ gate = [t \in Tenants |-> "open"]
    /\ settled = {}

-----------------------------------------------------------------------------
Work(w, t, c) ==
    /\ job[w] = NoJob
    /\ gate[t] = "open"
    /\ job' = [job EXCEPT ![w] = [tenant |-> t, cost |-> c]]
    /\ UNCHANGED <<meter, balance, pool, gate, settled>>

Charge(w) ==
    /\ job[w] # NoJob
    /\ meter' = [meter EXCEPT ![job[w].tenant] = @ + job[w].cost]
    /\ job' = [job EXCEPT ![w] = NoJob]
    /\ UNCHANGED <<balance, pool, gate, settled>>

Shut(t, over) ==
    /\ settled = {}
    /\ gate[t] = "open"
    /\ over = "this" => meter[t] >= balance[t]
    /\ gate' = [gate EXCEPT ![t] = over]
    /\ UNCHANGED <<job, meter, balance, pool, settled>>

\* What tenant t is due after using `used`.
Due(t, used) ==
    quota[t] + (IF Forgives /\ balance[t] < used THEN 0 ELSE balance[t] - used)

\* The tenant keeps what it is due: at least its quota or all of it, at most
\* its cap.  The rest goes to the pool, or is lost.
Settle(t) ==
    \E used \in 0..meter[t] :
        LET due == Due(t, used)
        IN
        /\ t \in Accounted \ settled
        /\ meter' = [meter EXCEPT ![t] = @ - used]
        /\ \E kept \in (IF due < quota[t] THEN due ELSE quota[t])..(IF due < cap[t] THEN due ELSE cap[t]) :
              /\ balance' = [balance EXCEPT ![t] = kept]
              /\ pool' \in {pool, pool + due - kept}
        /\ settled' = settled \cup {t}
        /\ UNCHANGED <<job, gate>>

\* Part of the pool is handed out within the caps, the rest may be lost; the
\* tenants in `opened` are released.
Distribute(gain, opened) ==
    /\ settled = Accounted
    /\ Sum(gain) <= pool
    /\ \A t \in Tenants : gain[t] > 0 => balance[t] + gain[t] <= cap[t]
    /\ balance' = [t \in Tenants |-> balance[t] + gain[t]]
    /\ pool' \in {0, pool - Sum(gain)}
    /\ gate' = [t \in Tenants |-> IF t \in opened THEN "open" ELSE gate[t]]
    /\ UNCHANGED <<job, meter, settled>>

Open(t) ==
    /\ t \in settled
    /\ gate' = [gate EXCEPT ![t] = "open"]
    /\ UNCHANGED <<job, meter, balance, pool, settled>>

EndPeriod ==
    /\ settled = Accounted
    /\ pool = 0
    /\ settled' = {}
    /\ UNCHANGED <<job, meter, balance, pool, gate>>

MNext ==
    \/ \E w \in Workers, t \in Tenants, c \in Costs : Work(w, t, c)
    \/ \E w \in Workers : Charge(w)
    \/ \E t \in Accounted, over \in {"this", "another"} : Shut(t, over)
    \/ \E t \in Tenants : Settle(t) \/ Open(t)
    \/ \E gain \in [Tenants -> 0..pool], opened \in SUBSET Accounted : Distribute(gain, opened)
    \/ EndPeriod

MSpec == MInit /\ [][MNext]_mvars
=============================================================================
