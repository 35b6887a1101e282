# TLA+ model of the DPA tenant scheduler

This directory holds a formal model of the packet processor in
`src/packet_processor`: a program for the data-path accelerator (DPA) of an
NVIDIA BlueField DPU in which scheduler threads meter the packet processing of
several tenants in execution cycles and bytes.  File names below are relative to
`src/packet_processor` unless they start with `common/`.

## 1. The system

| Part | Code | State it keeps | Operations |
|---|---|---|---|
| Tenant accounts | `dev/flexio_pp_dev_sch.c`, `sch_init_*_accounting` in `dev/flexio_pp_dev_utils.c` | per scheduler and tenant, in `dpa_sche_context`: quota (target), budget, cap, consumption of cycles and bytes, cycle debt, restriction | check (stop tenants that have used up their budget), rollover once per millisecond in one of three build modes, usage report once per second |
| Workers | `dev/flexio_pp_dev_tnt3.c` | program state; rings of two receive queues, one per tenant | poll the queues in turn, skip restricted tenants, process, charge cycles and bytes, sleep after a batch |
| Dispatch | `sch_assign_workers`, `sch_check_workers`, worker prologue and epilogue, `offload_info[]` | assigned queues, wakeup CQ number, `EU_OFF`/`EU_FREE`/`EU_HANG` status of each worker | assign, wake (MSI-X), first-run handshake, sleep |
| Packet path | `dev/flexio_pp_dev_utils.h` (`PP_DEFINE_QUEUE_WORKLOAD*`), `common/dev/com_dev.c` | CQ index and owner bit, SQ producer and segment index, doorbell records | take a completion, work on the packet in place, send it from the receive buffer, repost the buffer |
| Host | `host/flexio_pp_host_main.c`, `host/flexio_pp_host_utils.c` | `app_context`, and per handler a `thread_context` with its `flexio_queues`: pointers to all resources, flags for shared and host-side buffers | create schedulers and run them, steer packets to their queues, create workers, initialise (RPC) and run them, wait, clean up |

Workers and their scheduler share one `dpa_sche_context`.  A worker writes only
the two consumption counters of a tenant (relaxed atomic adds) and reads only
its restriction; everything else belongs to the scheduler.  Schedulers share
nothing with each other.  A scheduler and a worker also talk through
`offload_info[thd_id]`: the scheduler stores the queues and wakes the thread,
the thread reports that it sleeps.  The host writes the worker contexts while
the schedulers already run.  Worker and NIC share the rings and the buffers.

What is hard here: counters that are read and emptied while others add to
them; restrictions that are decided on values that are already old; budgets,
pools and debts that interact over an unlimited number of periods; integer
division with its clamps compiled out; a wakeup protocol made of single stores;
a start-up in which three kinds of threads overtake each other; one ownership
bit that tells old completions from new ones; buffers that are received into
and sent from at the same time; some hundred creations on the host, each of which
may fail, with one clean-up for all of them.  `PROJECT.json` lists these hazards with the
line where each bites and the property that is about it.

What makes each part correct:

- accounts: nobody gets more cycles than have been granted, in any number of
  periods; every tenant gets its quota; what is overdrawn is paid back; nothing
  charged is lost; a tenant is stopped when, and only when, it has used up its
  budget, and is released again;
- dispatch: no queue has two workers, no wakeup is lost, every queue is served;
- packet path: every packet is taken once, in order, and returned unharmed;
- host: whatever fails, all that was created is released once and in a legal
  order; handlers find complete data; queues get disjoint traffic, handlers
  disjoint execution units, buffers disjoint memory.

## 2. Modules

| Module | Models | Used by |
|---|---|---|
| `TenantBudget` | the pure functions of `sch.c`: caps, settlement, borrowing, debts, reclaiming, the DRF division | all budget modules |
| `BudgetScheduler` | one scheduler thread and its workers around one `dpa_sche_context` | live runs |
| `SteadyTraffic` | `BudgetScheduler` under traffic that never ends | run `steady_debt`, `TrafficProofs` |
| `BudgetLedger` | `BudgetScheduler` with history variables: quotas granted, cycles harvested, packets charged after a restriction | account runs |
| `MeteredResource` | abstract: what the scheduler promises about one resource | `BudgetMetering` |
| `BudgetMetering` | the two refinement mappings, cycles and bytes | live runs, `MeteringProofs` |
| `DrfDivision` | `sch_distribute_drf_pool` on all small inputs, against a reference definition | run `drf_division` |
| `WorkerWakeup` | assignment, status handshake, sleep and wakeup of the workers, and their start by the host | wakeup runs |
| `PacketRing` | one receive queue with completion queue and send queue, a thread and the NIC | ring runs |
| `Reflector` | abstract: a bounded queue that returns every packet | `PacketRing` |
| `HostLifecycle` | start-up and clean-up of the host program with failures | run `host` |
| `TenantBudgetLemmas`, `BudgetProofs` | theorems: the arithmetic of the budgets, types, caps, quotas, debts, the ledger | `TrafficProofs` |
| `TrafficProofs` | theorems: charges in flight, causes of restrictions, debts under traffic that never ends, for any number of workers | `MeteringProofs` |
| `MeteringProofs` | theorems: `BudgetScheduler` implements `MeteredResource` in all modes | |
| `DrfProofs`, `WakeupProofs`, `RingProofs`, `HostProofs` | theorems about the component they are named after | |
| `MCBudgetLedger`, `MCBudgetScheduler`, `MCSteadyTraffic`, `MCWakeup`, `MCHost` | weights, traffic and command lines of the small instances | |

### BudgetScheduler and the code

The variables are the fields of `dpa_sche_context` under their own names, plus
for each thread its place (`spc`, `wpc`), its loop index (`st`, `wq`) and its
live locals.  A local is reset once it is dead, which merges states the code
cannot tell apart.

*Granularity.*  Every access to a location the other side writes is a step:
`sch_check_budget` takes three (`CheckLoadCycles`, `CheckLoadBytes`,
`CheckStore`), the exchange of the cycle counter and that of the byte counter
are two (`TakeCycles`, `Settle`), each cleared restriction is one; a worker
tests the restriction, processes, adds cycles, adds bytes in separate steps.
Memory is coherent per location and stores are visible at once; the atomics
are relaxed, but no property of the accounts depends on the order in which two
different locations become visible.

*Time* is not modelled.  Where the code compares `__dpa_thread_cycles()` with a
deadline (rollover, report, the 15 s after which the scheduler leaves its
execution unit) both outcomes are possible, so the properties hold for every
timing, including rollovers that come much too late or in a row.

*Traffic.*  `Traffic` bounds the cycles of work that ever arrive for a tenant;
`supply` is what has not been processed yet.  A packet takes any cost in
`PktCycles` that is still in supply and any size in `PktBytes`.  A queue may look
empty at any time (`PollSkip`, `DrainStop` need no reason), since the arrival of
packets is not modelled there.

In `SteadyTraffic` packets arrive for ever (`Arrive`, external).  `Traffic[t]` then
bounds the cycles of tenant t's work that no rollover has settled yet, that is what
can arrive within a period; every settlement makes room for more.

*Build modes.*  `Mode` is `SCH_ROLLOVER_WORK_CONSERVING`: `"OFF"`, `"BUCKET"`
(overflow bucket), `"DRF"`; each is an alternative definition of the rollover in
the source and an alternative set of actions here.

*Width.*  Counters and debts are `size_t` (`SIZE_MAX`); additions wrap
(`SizeAdd`), and `sch_cycle_record_debt`'s test for the wrap is modelled as
written.  `DRF_ONE` stands for 2^20.

### MeteredResource and its refinement

`MeteredResource` says of one resource, in six variables and without the steps of
a check or a rollover, what a tenant's account promises: work only while the gate
is open, every packet metered once, the gate shut over this resource only when the
meter has reached the balance, every tenant settled once per period, nothing handed
out that was not in the pool, the gate opened only after the settlement.
`BudgetMetering` instantiates it twice.  For cycles the balance is budget minus
debt, which makes recording a debt part of the settlement and its later payment a
stuttering step, and cycles between the exchange and the settlement still count as
metered.  For bytes an overdraft is forgiven (`Forgives`).  A tenant counts as
settled from its own step of the rollover until the period ends (`Regranted`).  All
three build modes implement it.  With `TENANTS_NUM = 1`
the abstract specification has a second tenant that works and is metered but never
settled, nor shut out: this is what the code does with the second queue of every
pair.  (`off_live` checks cycles only; bytes take the same path there.)

### WorkerWakeup and the code

`offload_info[]` field by field, one step per atomic access.  External: the
wakeup CQ is armed when created, an MSI-X on an armed CQ disarms it and raises
one event, an event is kept while the handler runs or before it is started.
The queue pointers of a worker are written once, before its first wakeup, so
that their loads are one step.  `BatchOutlastsStore` is a timing assumption: a
worker does not process a million packets while its scheduler executes the one
store that follows the MSI-X.  The violating run shows that the protocol needs
something of this kind.

The shape (schedulers, workers each, place of the buffers) is chosen in `Init` from
`Options`, as by the command line, and never changes; `MAX_SCHEDULERS`,
`MAX_THREADS` and `MAX_SCHEDULER_QUEUES` are the sizes of the device's tables.  The
host compares only the last of them with its arguments; `Fits` is therefore an
assumption.  `InitThreadFails` is the RPC whose status main does not look at: the
scheduler then never learns the worker's CQ and never wakes it.  Its queues are the
exception in `EveryQueueServed`; those of all others are served.

### PacketRing and the code

The thread takes its six steps per packet in the order of the macro
`PP_DEFINE_QUEUE_WORKLOAD`; its four variants differ only in where the thread
sees the buffer.  The NIC is external: it receives in ring order into posted
buffers only, writes a completion with `(n / depth) mod 2` as ownership bit, and
executes send entries in order some time after the doorbell.  `SendsInTime`
states that the NIC is not behind with sending by as many packets as it has
buffers left to receive into.  The code does nothing to ensure this; it is an
assumption on the traffic.

`Reflects` states that all of this is a `Reflector`: a queue of `DEPTH` places from
which every packet leaves once, in order, swapped, and does leave.

### HostLifecycle and the code

Every C function that creates something is written as the sequence of its steps
(`Make` a resource and set the field, `Point` a field to what another points to,
`Flag` a field, `Attempt` something that makes nothing, `Run` a handler), and every
function that releases as the sequence of its releases with their conditions.  The
names are those of the source.  `StartUp` and `CleanUp` put them together in main's
order for given options.  An action is one call from main: it succeeds, or fails at
some step, having done the steps before it (a rule takes them back, a matcher does
not).  What main then does is an action of its own: return, go to the clean-up with
or without an error status, or go on.  `Crash` is the null matcher a rule is created
through, or an assertion on `calloc`.  The clean-up goes release by release.

`ptr` maps a field to the resource it points to, named after the field it was
created for, so that two fields of a queue can point to the same key or buffer, or to
host memory.  The code never clears a pointer; neither does the model.  `BuiltOn` is
the reference system the comment at `host_main.c:330` speaks of, read off the
attributes each creation is given: a release of something others are built on is
refused, and the code goes on.  A release that nothing stands against succeeds.
`use_copy` is a global that is 1 in the source; the model also covers 0, for which
the functions have branches.  `EUS_PER_CORE` stands for 16, `MAC_LOW` for 2^16.

Mutated definitions stand before the definitions they are variants of and are
marked "Mutant"; no specification uses them.

## 3. What TLC checks

| Run | Instance | Shows |
|---|---|---|
| `bucket_accounts` | bucket mode, 1 worker, 2 rollovers, packets of 1 or 3 cycles, quotas of 1 | budgets within caps, quotas guaranteed, debtors stopped, ledger balanced |
| `two_workers` | bucket mode, 2 workers, 1 rollover | no charge is lost; restrictions have a cause and act within one packet per worker |
| `bucket_live`, `drf_live`, `off_live` | each mode, 1 worker, any number of rollovers; `tenants_num = 1` in `off_live` | restrictions end; the mode implements `MeteredResource` for cycles, and (`bucket_live`, `drf_live`) for bytes: in DRF mode this is the balance through reclaiming, the single grant and the division (caps, quotas and ledger: proved for all modes) |
| `steady_debt` | bucket mode, 1 worker, packets of 1 or 4 cycles for ever; quota 2, plus 1 borrowed from an idle tenant; `SIZE_MAX` 7 | every rollover takes a quota off a debt; a debt is paid once periods are light |
| `drf_division` | quotas and pools up to 6, both dominant resources, cap 3/2 | the largest common fraction, rounded down once, is what is shared |
| `wakeup` | 2 schedulers with 1 worker each and 1 with 2, buffers on the heap and in host memory, failing RPCs and mappings | queues exclusive, wakeups only to sleepers; on the heap no lost wakeup and every queue served for ever |
| `wakeup_host_lost` | 1 scheduler, 1 worker, host memory | **violated**, see findings |
| `ring` | rings of 4, 17 packets, 16-bit counter cut to 3 bits | ownership bit right over four wraps; the queue implements `Reflector` |
| `ring_tx_lag` | as `ring`, NIC without `SendsInTime` | **violated**, see findings |
| `host` | 1 scheduler with 1 or 2 workers, 2 with 1; all places of the buffers; refused command lines | for a failure at every single step: releases legal, complete and never repeated; status, steering, execution units and memory layout right |

*Bounds.*  With quotas of one or two cycles a packet can cost less than, exactly, or
more than what is left, so that a debt, a debt larger than a period's quota,
an overflow into the pool and a budget at its cap all occur within two rollovers.
Two rollovers are needed for a carried-over budget to meet a borrowed one; that
nothing new happens after more of them is what the proofs establish.
In `steady_debt` a debtor's budget is 3 cycles a period at most and a single packet costs 4,
so that a debt can grow by one cycle in every period, past two quotas and until its
addition wraps and sticks at `SIZE_MAX`; then it can only shrink again if light periods
follow.
`MaxReportPeriods` bounds a counter that the usage report resets.  The live runs
have no bound on rollovers.  Two workers suffice for the races between charges,
the theorems cover any number.  The rings have four entries, the smallest
power of two in which "the entry in use", "the next" and "the last" differ, and are
gone round four times, so that both values of the ownership bit are met twice and
the packet counter wraps.

In `host` at most one failure that main goes on after (`MaxIgnored`) is
followed by at most one that ends the start-up; the first decides which pointers are
null, the second where the clean-up starts.  The second scheduler is there for the
addresses, the second worker for a scheduler with four queues, and cores of two units
for the rounding.

*Deadlock* is checked except in the ring runs, where the system is at rest once
all packets are returned, and in `host`, where the program ends.

*Debts.*  The code does not promise that a debt is paid whatever the tenant does.  A
rollover lifts the restrictions before it takes debts off (`sch.c:200`, `204`), and
until the next check the tenant's workers may take packets although its budget is 0.
A tenant that uses its quota or more in this way, period after period, stays in debt
for ever, and the debt may grow up to `SIZE_MAX`: TLC finds this behaviour when
`HeavyPeriod` is struck out of `DebtIsPaid`.  What holds is that such use is always
recorded, that every rollover takes off at least a quota (`QuotaPaysDebt`), and that a
tenant that from some time on uses less than its quota in each period gets out of debt
(`DebtIsPaid`), although all it uses meanwhile is overdrawn.

*Fairness.*  Live budget runs: the scheduler loops on an execution unit of its own
without blocking (`WF` of its steps); the period, the report interval and the 15 s
before a reschedule pass while the loop comes round again and again, so that a
deadline tested for ever is met for ever (`SF`); a completion on one of its armed
queues restarts it (`WF` of `Activate`, which needs traffic).  Nothing is assumed of
the workers there, nor of the traffic in `steady_debt`.
Wakeup runs: the host's loop finishes, schedulers keep running,
a worker does not stop between two of its own statements; that a batch ends is not
assumed; mapping a host buffer may fail any number of times in a row, not for ever
(`SF`).  Ring run: the NIC sends what has been rung and the thread returns to its
queue, which holds while its tenant is not restricted for ever - what the live
budget runs show.

## 4. What is proved

All theorems are checked by TLAPS for every value of the constants that the named
`ASSUME`s admit: any number of workers, schedulers and queues, all weights, quotas,
caps, packet costs and traffic, every ring depth, in all three build modes.
(`MAX_TENANT_NUM` is 2, as in the code.)  A theorem about an invariant a run checks
names that invariant; the run shows it on an instance, the theorem in general.

### Accounts (`TenantBudgetLemmas`, `BudgetProofs`)

- `TypeCorrect`, `LedgerTypeCorrect`: budgets never become negative, so no
  unsigned subtraction in the accounting wraps.
- `CapsHold`, `QuotasHold`: budgets between quota and cap after the settlement.
- `DebtorsStopped`: a tenant left in debt is without budget and restricted.
- `LongRun`, `TenantShare`: the ledger balances over any number of periods.
- `RestrictionTakesEffect`: one packet per worker after a restriction.
- `DrfDistributionSound`: the division with its two roundings stays within caps
  and pools; the compiled-out clamps could never have acted.

`BudgetWithinCap` alone is not inductive, because the steps of a rollover see
budgets in different phases.  `BudgetInv` says in which phase each tenant is
(settled or not, by the place and index of the scheduler), that a settled tenant
holds at least its quota until debts are applied, that a tenant whose debt was not
paid in full has no budget, and what the check loop has already stored.  The
ledger's invariant adds the pool to the left-hand side (`PoolAccounted`: cycles in
the pool count as budget not yet handed out), the fact that between settlement and
payment a tenant's newest quota is unused (`ShareAccounted`), and that a debt never
exceeds what was harvested, from which follows that it has not stuck at `SIZE_MAX`.
`LateInv` says that a packet in flight to a restricted tenant was begun before the
restriction.

### Traffic (`TrafficProofs`)

- `ChargesConserved` (`NoChargeLost`): for any number of workers, every cycle of
  work is in supply, in flight with one worker, on the counter, between exchange and
  settlement, or harvested.
- `RestrictedWithCause` (`RestrictedForCause`): outside a rollover a tenant is restricted
  only over a budget that its counter has reached, although the check stores the
  restriction after it has loaded the counter.

- `DebtsShrink` (`QuotaPaysDebt`): in every mode and under traffic that never ends, every
  rollover takes at least a quota off each debt, or all of it.

`DebtsShrink` rests on `BudgetInv`, which `Arrive` preserves (`ArriveInv`; that `supply`
stays a natural number needs the sum of what is in flight, `OutstandingIsNat`): when
`ApplyDebt` is reached every accounted tenant holds its quota, and no other step leaves
`"apply"`.  It needs no assumption on the traffic.

`TrafficInv` says what each worker holds by its place (`WorkersCharging`), that
supply, packets in flight and counter together stay within `Traffic` (`CyclesFit`;
`BytesFit(r)` for bytes, with `r` the most bytes a cycle of work can bring), and what
the scheduler's loaded values are worth by the time it stores a restriction
(`CheckInv`: counters have only grown since).  Without the bounds a counter could wrap
between two loads, and the cause would be gone.  The sums over all workers are a
table of partial sums; induction over its length is done on the set of lengths for
which the claim holds (`SetInduction`, from the well-foundedness of `<`), since
an induction scheme with an operator parameter is out of the provers' reach.

### Implementation (`MeteringProofs`)

- `CyclesImplementMetering`, `BytesImplementMetering`: under the mappings of
  `BudgetMetering`, every step of scheduler and workers is a step of
  `MeteredResource` or a stutter.  One lemma per group of actions
  (`WorkerCyclesMapped`, `CheckStoreMapped`, `ReleaseMapped`, `ApplyDebtMapped`,
  `SettleCyclesMapped`, `DistributeCyclesMapped`, and the same for bytes).

The invariant is `MeterInv`: `TrafficInv`, and that the pools are empty outside a
rollover (`PoolsEmpty`) and a debtor is not released before its debt has been
applied (`DebtorWaits`).  The ways the modes hand out a pool (bucket, the only active
tenant, the DRF division, nothing) have in common that budgets only grow, and by no more
than the pool held: `Redistributes` states this once, and the mapping is proved from it.

### Division (`DrfProofs`)

- `GrantsWithinPools`: no division hands out more than either pool holds.
- `FairShareIsLargest`: every restricted tenant is given the same fraction of its quota,
  the largest one that every cap and both pools admit.

### Dispatch (`WakeupProofs`)

- `WakeupTypeCorrect`; `QueuesExclusive`: for any numbers of schedulers and workers
  the index arithmetic `s * threads_num_per_scheduler + i` gives no queue to two workers.
- `OnlySleepersWoken`: an MSI-X is sent only to a worker that has reported sleep.
- `SleepersCanBeWoken`: with the buffers on the DPA heap no wakeup is lost.  (In host
  memory it is false, see findings.)

`WakeupInv` ties `status`, `armed`, `event` and the places of both threads
together for each worker, and says that assigned pointers never change.

### Rings (`RingProofs`)

- `RingTypeCorrect`; `OwnerBitNeverLies`: for every power-of-two depth and any number
  of wraps a completion looks new exactly when it is.
- `CompletionsNeverOverrun`: although a buffer is reposted before its completion entry
  is released, no entry is overwritten before it has been read.
- `PacketsReturnedIntact`, `RingsImplementReflector`: under `SendsInTime` every packet
  is returned once, in order, swapped; the rings implement the safety part of
  `Reflector`.

`RingInv` relates all indices to the number of completions taken
(`IndicesInStep`), and says of each entry and buffer which packet it holds.

### Host (`HostProofs`)

- `HostTypeCorrect`: wherever calls fail, the loops of the start-up stay within the
  arrays main allocates, and every pointer that is set leads to a resource that exists
  until the clean-up begins.
- `SteeringIsOneToOne`, `HandlersOnUnitsOfTheirOwn`, `HostMemoryDisjoint`: addresses,
  execution units and buffers do not overlap for any numbers and sizes.
- `HandlersStartWhenComplete`: a handler runs only once everything its data names exists
  and the data has been copied, a worker only once all schedulers run, for any numbers of
  both, wherever the buffers are, and whatever failures main has passed over by then.
- `OneRulePerIgnoredFailure`: a running scheduler lacks at most one steering rule per
  failure that main has passed over.
- `NothingAbandonedUnnoticed`: main returns 0 only if every context has its data on the
  device, but for one whose handler could not be created and a scheduler with all its
  queues that lacked a TIR.
- `CleanUpIsSafe`, `CleanUpIsComplete`: wherever the start-up stopped, the clean-up
  releases only what exists, nothing twice, nothing that another resource is still built
  on and no host memory, and it leaves only what main never releases.

`DataFields` and `FlagFields` are what the arrays of a given command line hold.
`StartUpCalls` shows function by function that all steps of the start-up are about such
fields (`FlattenSeqType` for the loops); `AfterStepsInBounds`, by induction over the
steps of a call, that a call cut short anywhere keeps to them and leaves no pointer to
nothing.  `HostInv` adds that nothing is created before the
arguments have been accepted.

`HandlersStartWhenComplete` is about order.  `StartUpOrder` is a fact about the sequence
of calls alone: the four calls that create a context stand together (`Block`) before the
copy of its data, that before the call that runs its handler, and the workers' parts
after all the schedulers'.  `HostMemoryReady` and `QueuesReady` follow a pointer through
the calls: the mapped memory is made, the host buffers point to it, the receive data may
point to those, and the send data to either.  `StartInv` says how far this has come at
the next call (`ContextsMade`, `DataMade`, `HandlersRun`); a call that fails and is
passed over keeps it, because none of those is one main passes over.

`RuleInv` counts: the rules whose call has been passed and that are not there
(`Skipped`) are at most as many as the failures passed over.  It is inductive because a
call that main passes over makes at most one rule (`OneFlag`), and it bounds what a
running scheduler lacks because every rule of a scheduler is asked for before its
handler is run (`StartUpRulesFirst`).

`AbandonInv` rests on `StartUpCovered`, another fact about the calls alone: at every call
whose failure ends the start-up silently, and at the end, a context whose handler call has
been made either has its data copied or is a scheduler with all four calls of its creation
behind it.

The two theorems on the clean-up need the order of the releases.  `Place` is the order
within a queue and among the fields of the program, `Before` extends it to all fields;
two queues' fields may come in any order, since nothing of one is built on the other.
`BuiltOnLater` shows that whatever a resource is built on comes after it; `CleanUpTidy`,
put together loop by loop (`TidyConcat`, `TidyFlatten`), that the releases stand in this
order and that all fields main ever releases are among them.  `ReleaseInv` says what the
clean-up finds: everything that exists is kept or has its turn to come, and a field whose
own resource is gone has been dealt with.  Neither half is enough: the first gives
completeness and that users go first, the second that nothing is released twice.  Both
need `OwnPointers` and `Marked` from the start-up, which hold where it was cut short
too: a field that shares another's buffer or key has its flag set, so that the clean-up
passes it over, and the parts of a rule or a matcher exist only if the pointer through
which they are released does, or are kept.  TLC checked `ReleaseInv` on part of the
states of `MCHost` before it was proved.

### Assumptions

The named `ASSUME`s: natural-number parameters, positive weights, divisors, sizes and
packet costs, a cap ratio of at least one; TLC evaluates them on every run.  Beyond
these, in the statements of the theorems:

- `LongRun` and `TenantShare` hold while fewer than 2^64 cycles have been harvested
  (`Unsaturated`).
- `ChargesConserved` assumes that no tenant is ever offered more than 2^64 cycles of
  work; `RestrictedWithCause` and the two implementation theorems assume it of
  the bytes as well (`TrafficFits`).  The counters are 64 bits wide and emptied every
  millisecond, so that this is about the life of the program.  The instances satisfy it
  (`InstanceTrafficFits`, evaluated by TLC).
- The wakeup theorems assume `Fits` and, through the specification,
  `BatchOutlastsStore`, the last two ring theorems `SendsInTime`, as described above.

### Only model-checked

- Liveness (`RestrictedIsReleased`, `DebtIsPaid`, `HeapQueuesServed`, that a packet does
  leave the `Reflector`): the prover has no fairness.  Every invariant and action
  property of the passing runs has a theorem.

## 5. Findings

1. **A wakeup can be lost with buffers in host memory** (`wakeup_host_lost`).
   `sch_check_workers` sends the MSI-X before it stores `EU_HANG`.  A worker
   whose buffer mapping fails goes to sleep at once and can store `EU_OFF` in
   between; `EU_HANG` overwrites it, and the worker is never woken again.
2. **A receive buffer is posted again before its packet has been sent**
   (`ring_tx_lag`).  With the ring full and the send delayed, the next packet
   lands in the buffer and goes out in the other's place, addresses not swapped.

Not a run, but visible in the same place: the receive doorbell is incremented one
statement before the completion entry is released, while the receive ring and its
completion queue have the same depth.  For that moment the NIC may hold one
completion more than the queue has entries (`CompletionReadInTime` shows that it is
never more than one and never over an entry still to be read; whether the device
reports an overrun is outside this code).  The README's "inserts some text into the
packet" (README:7) has no counterpart in any workload.

What the host model shows beside its properties, none of it contradicted by a
document: `host_main.c:225`, `251` and `286` end a failed start-up with status 0;
a matcher that could not be created kills the program when the first rule is made
through it (`host_utils.c:824`, `849`, `881`); the protection domain, the memory
regions and the mapped memory are never released; the handlers' data is freed before
the handlers are destroyed; `begin_worker` is compared with the schedulers' cores
only if it is given, and without regard to `begin_schedr`.  The comment "Clean up
flow is done in reverse order of creation" (`host_main.c:330`) is not literally true
(the matchers, created first, go before all queues), but the order respects all
references, which is its point (`ReleasesAreSafe`).

## 6. Not modelled

- A release that fails although nothing refers to the resource; what device threads
  do with memory the host has already freed; a command line with a number of
  schedulers or workers that is not positive, or beyond the device's tables.
- Branches and failures on the host without effect on what is modelled: the "Missing
  host buffer" checks (`host_utils.c:161`, `207`), which the order of the calls makes
  unreachable; a failing `flexio_process_get_uar`, which is not checked; the host's own
  `calloc`s, which the end of the process frees.
- `dev/flexio_pp_dev_tnt1.c`, `tnt2.c`: not part of the build.
- Reports that are compiled out (`SCH_LOOP_ITER_REPORT`, `SCH_ROLLOVER_COST_REPORT`,
  `SCH_DRF_D_REPORT`, `WORKER_QUEUE_CYCLE_REPORT`), the private send queue
  (`WORKER_TX_USE_PRIVATE_SQ` is 0), unused helpers of `common/dev/com_dev.c`.
- Checksums and the copy to the NVMe buffer: they change nothing another thread reads.
- Build files and scripts.

## 7. Plan

Done: the accounts with their proofs and their abstract specification, DRF against
its reference, the dispatch protocol for all small shapes, the rings and their
abstract specification, the host; proofs of all safety properties of the passing runs
and of the safety part of both refinements.

Open: the two hazards without a property (numbers from the command line beyond the
device's tables, handlers still running while their memory is freed) need a model of
what the device does with memory that is not its own.  Liveness stays with TLC.
