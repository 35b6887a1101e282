---------------------------- MODULE WorkerWakeup ----------------------------
(***************************************************************************)
(* How the schedulers put the worker threads to work: the assignment of    *)
(* receive queues (sch_assign_workers), the status handshake through       *)
(* offload_info[] (sch_check_workers, flexio_pp_dev_32) and the start of   *)
(* the worker handlers by the host, which goes on while the schedulers     *)
(* already run.                                                            *)
(*                                                                         *)
(* A worker sleeps in the hardware until its wakeup CQ raises an event.    *)
(* Its scheduler raises it with an MSI-X; the CQ must be armed, is armed   *)
(* when created, disarms itself when it fires, and an event for a handler  *)
(* that is running or has not been started yet is kept until it can be     *)
(* delivered (behaviour of the device, external to this code).             *)
(***************************************************************************)
EXTENDS Integers

CONSTANTS
    MAX_SCHEDULERS,         \* 32, entries of dpa_schs_ctx
    MAX_THREADS,            \* 190, entries of dpa_thds_ctx and offload_info
    MAX_SCHEDULER_QUEUES,   \* 64
    Options,                \* what the command line may say: schedulers, workers
                            \* of each scheduler, place of the buffers
    NULL

WORKER_QUEUES_PER_THREAD == 2

Slots == 0..(WORKER_QUEUES_PER_THREAD - 1)

\* The main function checks the last of these three bounds only.
Fits(o) ==
    /\ o.schedulers <= MAX_SCHEDULERS
    /\ o.schedulers * o.workers <= MAX_THREADS
    /\ o.workers * WORKER_QUEUES_PER_THREAD <= MAX_SCHEDULER_QUEUES

ASSUME DispatchAssumption ==
    /\ MAX_SCHEDULERS \in Nat /\ MAX_THREADS \in Nat /\ MAX_SCHEDULER_QUEUES \in Nat
    /\ Options \subseteq [schedulers : Nat \ {0}, workers : Nat \ {0}, location : {0, 1}]
    /\ \A o \in Options : Fits(o)
    /\ NULL \notin Nat
    /\ NULL \notin Nat \X Nat

\* Entries of the device's tables; <<s, j>> is dpa_schs_ctx[s].queues[j].
Schedulers == 0..(MAX_SCHEDULERS - 1)
Threads == 0..(MAX_THREADS - 1)
Queues == Schedulers \X (0..(MAX_SCHEDULER_QUEUES - 1))

VARIABLES
    \* the host's globals, fixed once the schedulers have been started
    scheduler_num, threads_num_per_scheduler,
    buffer_location,   \* 0: DPA heap, otherwise host memory
    \* offload_info[thd_id]
    status, assigned_queues, sch_ctx, wakeup_cq_num,
    \* dpa_thds_ctx[thd_id].queue.rq_cq_ctx.cq_number, 0 until thd_ctx_init
    cq_number,
    \* the worker threads: place, not_first_run, and the queues they loaded
    wpc, not_first_run, rq_queues,
    \* the hardware: is the wakeup CQ armed, is an event waiting
    armed, event,
    \* the scheduler threads: place, loop index, local, not_first_run
    spc, sw, current_status, sch_not_first_run,
    \* the host's worker loop: index, and the handlers it has started
    hi, hpc, running

dispatch == <<status, assigned_queues, sch_ctx, wakeup_cq_num>>
threads == <<wpc, not_first_run, rq_queues>>
hardware == <<armed, event>>
scheds == <<spc, sw, current_status, sch_not_first_run>>
options == <<scheduler_num, threads_num_per_scheduler, buffer_location>>
host == <<options, cq_number, hi, hpc, running>>

vars == <<dispatch, threads, hardware, scheds, host>>

threads_num == scheduler_num * threads_num_per_scheduler
num_queues == threads_num_per_scheduler * WORKER_QUEUES_PER_THREAD

\* The queues the host has created.
QueuesInUse == (0..(scheduler_num - 1)) \X (0..(num_queues - 1))

EuStatus == {"EU_OFF", "EU_FREE", "EU_HANG"}

WorkerPC == {"asleep", "first_load", "store_free", "spin", "fetch", "acquire", "poll",
             "arm", "store_off", "reschedule"}

SchPC == {"off", "assign", "load", "cq_num", "send", "hang", "round"}

NoQueues == [q \in Slots |-> NULL]

\* Every scheduler handler has been started, no worker handler has.
Init ==
    /\ \E o \in Options : /\ scheduler_num = o.schedulers
                         /\ threads_num_per_scheduler = o.workers
                         /\ buffer_location = o.location
    /\ status = [w \in Threads |-> "EU_OFF"]
    /\ assigned_queues = [w \in Threads |-> NoQueues]
    /\ sch_ctx = [w \in Threads |-> NULL]
    /\ wakeup_cq_num = [w \in Threads |-> 0]
    /\ cq_number = [w \in Threads |-> 0]
    /\ wpc = [w \in Threads |-> "asleep"]
    /\ not_first_run = [w \in Threads |-> FALSE]
    /\ rq_queues = [w \in Threads |-> NoQueues]
    /\ armed = [w \in Threads |-> TRUE]
    /\ event = [w \in Threads |-> FALSE]
    /\ spc = [s \in Schedulers |-> "off"]
    /\ sw = [s \in Schedulers |-> 0]
    /\ current_status = [s \in Schedulers |-> "EU_OFF"]
    /\ sch_not_first_run = [s \in Schedulers |-> FALSE]
    /\ hi = 0
    /\ hpc = "init"
    /\ running = [w \in Threads |-> FALSE]

-----------------------------------------------------------------------------
(***************************************************************************)
(* The host: thd_ctx_init by RPC, then flexio_event_handler_run.           *)
(***************************************************************************)
\* The number of a CQ is not 0; which number it is does not matter.
InitThread ==
    /\ hi < threads_num /\ hpc = "init"
    /\ cq_number' = [cq_number EXCEPT ![hi] = 1]
    /\ hpc' = "run"
    /\ UNCHANGED <<dispatch, threads, hardware, scheds, options, hi, running>>

\* The RPC fails; its status is not looked at and the worker is started all
\* the same.
InitThreadFails ==
    /\ hi < threads_num /\ hpc = "init"
    /\ hpc' = "run"
    /\ UNCHANGED <<dispatch, threads, hardware, scheds, options, cq_number, hi, running>>

RunThread ==
    /\ hi < threads_num /\ hpc = "run"
    /\ running' = [running EXCEPT ![hi] = TRUE]
    /\ hi' = hi + 1
    /\ hpc' = "init"
    /\ UNCHANGED <<dispatch, threads, hardware, scheds, options, cq_number>>

-----------------------------------------------------------------------------
(***************************************************************************)
(* Scheduler s.                                                            *)
(***************************************************************************)
thd_id(s) == s * threads_num_per_scheduler + sw[s]

SchGoto(s, pc, idx) ==
    /\ spc' = [spc EXCEPT ![s] = pc]
    /\ sw' = [sw EXCEPT ![s] = idx]

\* Mutant: one worker too many.
LastWorkerPlusOne(s) == sw[s] = threads_num_per_scheduler

LastWorker(s) == sw[s] + 1 = threads_num_per_scheduler

\* On to the next worker of sch_check_workers, or to the end of the round.
NextWorker(s) ==
    IF LastWorker(s) THEN SchGoto(s, "round", 0) ELSE SchGoto(s, "load", sw[s] + 1)

\* A completion on one of its queues starts the scheduler handler.
Activate(s) ==
    /\ s < scheduler_num
    /\ spc[s] = "off"
    /\ SchGoto(s, IF sch_not_first_run[s] THEN "load" ELSE "assign", 0)
    /\ UNCHANGED <<dispatch, threads, hardware, current_status, sch_not_first_run, host>>

\* Mutant: one queue per worker.
BaseQueueUnscaled(s) == sw[s]

base_queue_idx(s) == sw[s] * WORKER_QUEUES_PER_THREAD

\* One pass of the loop of sch_assign_workers.
AssignWorker(s) ==
    LET w == thd_id(s)
    IN
    /\ spc[s] = "assign"
    /\ assigned_queues' = [assigned_queues EXCEPT
           ![w] = [q \in Slots |-> <<s, base_queue_idx(s) + q>>]]
    /\ sch_ctx' = [sch_ctx EXCEPT ![w] = s]
    /\ wakeup_cq_num' = [wakeup_cq_num EXCEPT ![w] = cq_number[w]]
    /\ IF LastWorker(s)
       THEN SchGoto(s, "load", 0) /\ sch_not_first_run' = [sch_not_first_run EXCEPT ![s] = TRUE]
       ELSE SchGoto(s, "assign", sw[s] + 1) /\ UNCHANGED sch_not_first_run
    /\ UNCHANGED <<status, threads, hardware, current_status, host>>

\* sch_check_workers, the load of the status.
LoadStatus(s) ==
    /\ spc[s] = "load"
    /\ current_status' = [current_status EXCEPT ![s] = status[thd_id(s)]]
    /\ SchGoto(s, "cq_num", sw[s])
    /\ UNCHANGED <<dispatch, threads, hardware, sch_not_first_run, host>>

\* Mutant: EU_FREE is not answered.
LookUpCqIgnoringFree(s) ==
    LET w   == thd_id(s)
        num == IF wakeup_cq_num[w] = 0 THEN cq_number[w] ELSE wakeup_cq_num[w]
    IN
    /\ spc[s] = "cq_num"
    /\ wakeup_cq_num' = [wakeup_cq_num EXCEPT ![w] = num]
    /\ IF current_status[s] = "EU_OFF" /\ num # 0 THEN SchGoto(s, "send", sw[s]) ELSE NextWorker(s)
    /\ UNCHANGED <<status, assigned_queues, sch_ctx, threads, hardware, current_status,
                   sch_not_first_run, host>>

\* The wakeup CQ is looked up again while it is unknown; then the branch.
LookUpCq(s) ==
    LET w   == thd_id(s)
        num == IF wakeup_cq_num[w] = 0 THEN cq_number[w] ELSE wakeup_cq_num[w]
    IN
    /\ spc[s] = "cq_num"
    /\ wakeup_cq_num' = [wakeup_cq_num EXCEPT ![w] = num]
    /\ CASE current_status[s] = "EU_OFF" /\ num # 0 -> SchGoto(s, "send", sw[s])
         [] current_status[s] = "EU_FREE" -> SchGoto(s, "hang", sw[s])
         [] OTHER -> NextWorker(s)
    /\ UNCHANGED <<status, assigned_queues, sch_ctx, threads, hardware, current_status,
                   sch_not_first_run, host>>

\* flexio_dev_msix_send: the CQ fires if it is armed.
SendMsix(s) ==
    LET w == thd_id(s)
    IN
    /\ spc[s] = "send"
    /\ event' = [event EXCEPT ![w] = @ \/ armed[w]]
    /\ armed' = [armed EXCEPT ![w] = FALSE]
    /\ SchGoto(s, "hang", sw[s])
    /\ UNCHANGED <<dispatch, threads, current_status, sch_not_first_run, host>>

StoreHang(s) ==
    /\ spc[s] = "hang"
    /\ status' = [status EXCEPT ![thd_id(s)] = "EU_HANG"]
    /\ NextWorker(s)
    /\ UNCHANGED <<assigned_queues, sch_ctx, wakeup_cq_num, threads, hardware, current_status,
                   sch_not_first_run, host>>

\* The rest of the loop body is BudgetScheduler; then the next round, or the
\* end of the 15 s.
NextRound(s) ==
    /\ spc[s] = "round"
    /\ \/ SchGoto(s, "load", 0)
       \/ SchGoto(s, "off", 0)
    /\ UNCHANGED <<dispatch, threads, hardware, current_status, sch_not_first_run, host>>

-----------------------------------------------------------------------------
(***************************************************************************)
(* Worker w.                                                               *)
(***************************************************************************)
WGoto(w, pc) == wpc' = [wpc EXCEPT ![w] = pc]

\* The hardware enters the handler.
Enter(w) ==
    /\ wpc[w] = "asleep" /\ running[w] /\ event[w]
    /\ event' = [event EXCEPT ![w] = FALSE]
    /\ WGoto(w, IF not_first_run[w] THEN "fetch" ELSE "first_load")
    /\ UNCHANGED <<dispatch, not_first_run, rq_queues, armed, scheds, host>>

FirstLoad(w) ==
    /\ wpc[w] = "first_load"
    /\ WGoto(w, IF status[w] = "EU_OFF" THEN "store_free" ELSE "spin")
    /\ UNCHANGED <<dispatch, not_first_run, rq_queues, hardware, scheds, host>>

\* The store may come after the scheduler's EU_HANG and overwrite it.
StoreFree(w) ==
    /\ wpc[w] = "store_free"
    /\ status' = [status EXCEPT ![w] = "EU_FREE"]
    /\ WGoto(w, "spin")
    /\ UNCHANGED <<assigned_queues, sch_ctx, wakeup_cq_num, not_first_run, rq_queues, hardware,
                   scheds, host>>

\* spin_on_status(i, EU_HANG)
SpinOnStatus(w) ==
    /\ wpc[w] = "spin"
    /\ status[w] = "EU_HANG"
    /\ not_first_run' = [not_first_run EXCEPT ![w] = TRUE]
    /\ WGoto(w, "fetch")
    /\ UNCHANGED <<dispatch, rq_queues, hardware, scheds, host>>

\* The loads of assigned_queues and sch_ctx, which are written only once.
FetchQueues(w) ==
    /\ wpc[w] = "fetch"
    /\ rq_queues' = [rq_queues EXCEPT ![w] = assigned_queues[w]]
    /\ WGoto(w, IF buffer_location = 0 THEN "poll" ELSE "acquire")
    /\ UNCHANGED <<dispatch, not_first_run, hardware, scheds, host>>

\* flexio_pp_dev_32_host maps the buffers of both queues ...
AcquireOk(w) ==
    /\ wpc[w] = "acquire"
    /\ WGoto(w, "poll")
    /\ UNCHANGED <<dispatch, not_first_run, rq_queues, hardware, scheds, host>>

\* ... and goes to sleep at once when a mapping fails.
AcquireFail(w) ==
    /\ wpc[w] = "acquire"
    /\ WGoto(w, "arm")
    /\ UNCHANGED <<dispatch, not_first_run, rq_queues, hardware, scheds, host>>

(***************************************************************************)
(* The worker has processed WORKER_BATCH_SIZE packets.  It takes a million *)
(* packets to get here, so that the scheduler, which runs on an execution  *)
(* unit of its own, is long past the statement after its MSI-X.            *)
(***************************************************************************)
BatchOutlastsStore(w) == \A s \in Schedulers : ~(spc[s] = "hang" /\ thd_id(s) = w)

BatchEnd(w) ==
    /\ wpc[w] = "poll"
    /\ BatchOutlastsStore(w)
    /\ WGoto(w, "arm")
    /\ UNCHANGED <<dispatch, not_first_run, rq_queues, hardware, scheds, host>>

\* Mutants: the CQ is not armed; or the thread is on offer too early.
ArmNothing(w) ==
    /\ wpc[w] = "arm"
    /\ WGoto(w, "store_off")
    /\ UNCHANGED <<dispatch, not_first_run, rq_queues, hardware, scheds, host>>

ArmAndOffer(w) ==
    /\ wpc[w] = "arm"
    /\ armed' = [armed EXCEPT ![w] = TRUE]
    /\ status' = [status EXCEPT ![w] = "EU_OFF"]
    /\ WGoto(w, "store_off")
    /\ UNCHANGED <<assigned_queues, sch_ctx, wakeup_cq_num, not_first_run, rq_queues, event, scheds,
                   host>>

\* worker_sleep: arm the wakeup CQ, ...
ArmCq(w) ==
    /\ wpc[w] = "arm"
    /\ armed' = [armed EXCEPT ![w] = TRUE]
    /\ WGoto(w, "store_off")
    /\ UNCHANGED <<dispatch, not_first_run, rq_queues, event, scheds, host>>

\* ... only then offer the thread to the scheduler, ...
StoreOff(w) ==
    /\ wpc[w] = "store_off"
    /\ status' = [status EXCEPT ![w] = "EU_OFF"]
    /\ WGoto(w, "reschedule")
    /\ UNCHANGED <<assigned_queues, sch_ctx, wakeup_cq_num, not_first_run, rq_queues, hardware,
                   scheds, host>>

\* ... and leave the execution unit; the locals are gone.
RescheduleThread(w) ==
    /\ wpc[w] = "reschedule"
    /\ rq_queues' = [rq_queues EXCEPT ![w] = NoQueues]
    /\ WGoto(w, "asleep")
    /\ UNCHANGED <<dispatch, not_first_run, hardware, scheds, host>>

-----------------------------------------------------------------------------
Host == InitThread \/ InitThreadFails \/ RunThread

CheckWorkers(s) == LoadStatus(s) \/ LookUpCq(s) \/ SendMsix(s) \/ StoreHang(s)

Scheduler(s) == Activate(s) \/ AssignWorker(s) \/ CheckWorkers(s) \/ NextRound(s)

\* What a worker does without waiting for packets.
Dispatched(w) ==
    \/ Enter(w) \/ FirstLoad(w) \/ StoreFree(w) \/ SpinOnStatus(w) \/ FetchQueues(w)
    \/ AcquireOk(w) \/ AcquireFail(w)
    \/ ArmCq(w) \/ StoreOff(w) \/ RescheduleThread(w)

Worker(w) == Dispatched(w) \/ BatchEnd(w)

Next ==
    \/ Host
    \/ \E s \in Schedulers : Scheduler(s)
    \/ \E w \in Threads : Worker(w)

Spec == Init /\ [][Next]_vars

(***************************************************************************)
(* The host finishes its loop; a scheduler keeps running and is started    *)
(* again by the traffic on its queues; a worker does not stop between two  *)
(* of its own statements; mapping a buffer that is tried for ever succeeds *)
(* some time.  A batch need never end.                                     *)
(***************************************************************************)
Fairness ==
    /\ WF_vars(Host)
    /\ \A s \in Schedulers : WF_vars(Scheduler(s))
    /\ \A w \in Threads : WF_vars(Dispatched(w)) /\ SF_vars(AcquireOk(w))

FairSpec == Spec /\ Fairness

-----------------------------------------------------------------------------
WakeupTypeOK ==
    /\ [schedulers |-> scheduler_num, workers |-> threads_num_per_scheduler,
        location |-> buffer_location] \in Options
    /\ status \in [Threads -> EuStatus]
    /\ assigned_queues \in [Threads -> [Slots -> Queues \cup {NULL}]]
    /\ sch_ctx \in [Threads -> Schedulers \cup {NULL}]
    /\ wakeup_cq_num \in [Threads -> {0, 1}]
    /\ cq_number \in [Threads -> {0, 1}]
    /\ wpc \in [Threads -> WorkerPC]
    /\ not_first_run \in [Threads -> BOOLEAN]
    /\ rq_queues \in [Threads -> [Slots -> Queues \cup {NULL}]]
    /\ armed \in [Threads -> BOOLEAN]
    /\ event \in [Threads -> BOOLEAN]
    /\ spc \in [Schedulers -> SchPC]
    /\ sw \in [Schedulers -> 0..(threads_num_per_scheduler - 1)]
    /\ current_status \in [Schedulers -> EuStatus]
    /\ sch_not_first_run \in [Schedulers -> BOOLEAN]
    /\ hi \in 0..threads_num
    /\ hpc \in {"init", "run"}
    /\ running \in [Threads -> BOOLEAN]

Polls(w, queue) == wpc[w] = "poll" /\ \E q \in Slots : rq_queues[w][q] = queue

\* However the start of the workers interleaves with the schedulers, a worker
\* never polls a queue pointer that has not been assigned, and no queue is
\* polled by two workers: queues, CQ indices and send queues have no locks.
QueueExclusive ==
    \A w \in Threads :
        wpc[w] = "poll" =>
            \A q \in Slots :
                /\ rq_queues[w][q] \in QueuesInUse
                /\ \A v \in Threads : Polls(v, rq_queues[w][q]) => v = w

\* A worker that sleeps is either about to be entered or can still be woken:
\* it is on offer to its scheduler and its CQ is armed.  With buffers in host
\* memory this can fail (see EveryQueueServed).
SleeperCanBeWoken ==
    buffer_location = 0 =>
        \A w \in Threads :
            wpc[w] = "asleep" => event[w] \/ (status[w] = "EU_OFF" /\ armed[w])

\* Wakeups go to sleepers: no event is raised for a worker that is at work,
\* which would make it run its handler once too often.
WakeOnlySleeper ==
    \A w \in Threads : event[w] => wpc[w] \in {"asleep", "reschedule"}

\* The worker that queue j of scheduler s is meant for.
OwnerOf(queue) == queue[1] * threads_num_per_scheduler + queue[2] \div WORKER_QUEUES_PER_THREAD

\* The RPC that should have initialised worker w has failed.
LeftOut(w) == hi > w /\ cq_number[w] = 0

\* Every receive queue is polled again and again, so that what arrives on it
\* is sent back, through the start of the workers and their sleeps.  Only the
\* queues of a worker that could not be initialised are not served: one failed
\* RPC takes nothing from the other workers.
EveryQueueServed ==
    \A queue \in Queues :
        []<>(queue \in QueuesInUse =>
                LeftOut(OwnerOf(queue)) \/ \E w \in Threads : Polls(w, queue))

\* So it is with buffers on the DPA heap.
HeapQueuesServed == buffer_location = 0 => EveryQueueServed

-----------------------------------------------------------------------------
(***************************************************************************)
(* What makes the invariants above inductive (proved in WakeupProofs).     *)
(***************************************************************************)
\* A scheduler past its first activation has assigned the queues of all its
\* workers.
SchedulersStarted ==
    \A s \in Schedulers :
        /\ spc[s] # "off" => s < scheduler_num
        /\ spc[s] \notin {"off", "assign"} => sch_not_first_run[s]
        /\ sch_not_first_run[s] => s < scheduler_num

\* The queues that sch_assign_workers has for worker i of scheduler s.
QueuesFor(s, i) == [q \in Slots |-> <<s, i * WORKER_QUEUES_PER_THREAD + q>>]

QueuesAssigned ==
    /\ \A w \in Threads :
           \/ assigned_queues[w] = NoQueues
           \/ \E s \in 0..(scheduler_num - 1), i \in 0..(threads_num_per_scheduler - 1) :
                  /\ w = s * threads_num_per_scheduler + i
                  /\ assigned_queues[w] = QueuesFor(s, i)
    /\ \A s \in Schedulers : \A i \in 0..(threads_num_per_scheduler - 1) :
           sch_not_first_run[s] \/ (spc[s] = "assign" /\ i < sw[s])
               => assigned_queues[s * threads_num_per_scheduler + i] # NoQueues

\* A worker is woken only after its queues have been assigned.
WokenWithQueues(w) ==
    /\ event[w] \/ wpc[w] # "asleep" => assigned_queues[w] # NoQueues
    /\ wpc[w] \in {"acquire", "poll"} => rq_queues[w] = assigned_queues[w]
    /\ wpc[w] = "acquire" => buffer_location # 0

AtRest(w) == wpc[w] \in {"asleep", "reschedule"} /\ ~event[w]

\* A worker at rest is armed, one at work is not; EU_FREE waits for its answer;
\* who works while on offer is about to be marked EU_HANG.
WorkerInStep(w) ==
    /\ armed[w] <=> AtRest(w) \/ wpc[w] = "store_off"
    /\ event[w] => wpc[w] \in {"asleep", "reschedule"}
    /\ wpc[w] = "spin" => status[w] # "EU_OFF"
    /\ status[w] = "EU_FREE" => wpc[w] = "spin"
    /\ status[w] = "EU_OFF" /\ ~AtRest(w) =>
           \E s \in Schedulers : spc[s] = "hang" /\ thd_id(s) = w
    /\ buffer_location = 0 /\ AtRest(w) => status[w] = "EU_OFF"

\* What scheduler s knows of worker w between the load of its status and the
\* store of EU_HANG.
SchedulerInStep(s, w) ==
    /\ \/ spc[s] = "send"
       \/ spc[s] = "cq_num" /\ current_status[s] = "EU_OFF"
       => status[w] = "EU_OFF" /\ AtRest(w)
    /\ spc[s] = "cq_num" /\ current_status[s] = "EU_FREE" => status[w] = "EU_FREE"
    /\ spc[s] = "hang" =>
           \/ status[w] = "EU_FREE"
           \/ /\ status[w] = "EU_OFF"
              /\ buffer_location = 0 => ~AtRest(w) /\ wpc[w] \notin {"arm", "store_off"}

WakeupInv ==
    /\ WakeupTypeOK
    /\ SchedulersStarted
    /\ QueuesAssigned
    /\ \A w \in Threads : WokenWithQueues(w) /\ WorkerInStep(w)
    /\ \A s \in Schedulers : SchedulerInStep(s, thd_id(s))
=============================================================================
