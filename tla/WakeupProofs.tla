---------------------------- MODULE WakeupProofs ----------------------------
(***************************************************************************)
(* Proofs about WorkerWakeup, for any number of schedulers and workers the *)
(* tables have room for, and for buffers in either place: no queue has two *)
(* workers, and no wakeup is lost or sent too often.                       *)
(***************************************************************************)
EXTENDS WorkerWakeup, TLAPS

-----------------------------------------------------------------------------
(* Workers and their numbers                                               *)

\* A worker's number tells its scheduler and its index there.
LEMMA NumberUnique ==
    ASSUME NEW n \in Nat \ {0}, NEW s \in Nat, NEW t \in Nat, NEW i \in 0..(n - 1), NEW j \in 0..(n - 1),
           s * n + i = t * n + j
    PROVE  s = t /\ i = j
  <1>1. ASSUME NEW a \in Nat, NEW b \in Nat, a < b
        PROVE  a * n + n <= b * n /\ a * n \in Nat /\ b * n \in Nat
    <2>1. PICK d \in Nat : b = a + 1 + d
      BY <1>1
    <2>2. b * n = a * n + n + d * n /\ d * n \in Nat /\ a * n \in Nat
      BY <2>1
    <2> QED
      BY <2>2
  <1>2. CASE s < t
    BY <1>1, <1>2
  <1>3. CASE t < s
    BY <1>1, <1>3
  <1>4. CASE s = t
    <2>1. s * n \in Nat
      OBVIOUS
    <2> QED
      BY <1>4, <2>1
  <1> QED
    BY <1>2, <1>3, <1>4

\* The number of every worker of every scheduler is in the tables.
LEMMA NumberInTable ==
    ASSUME WakeupTypeOK, NEW s \in Nat, s < scheduler_num, NEW i \in 0..(threads_num_per_scheduler - 1)
    PROVE  /\ s * threads_num_per_scheduler + i \in Threads
           /\ s * threads_num_per_scheduler + i < threads_num
  <1> DEFINE o == [schedulers |-> scheduler_num, workers |-> threads_num_per_scheduler,
                   location |-> buffer_location]
  <1>1. o \in Options /\ Fits(o)
    BY DispatchAssumption DEF WakeupTypeOK
  <1>2. PICK S \in Nat, n \in Nat \ {0} :
            S = scheduler_num /\ n = threads_num_per_scheduler /\ S * n <= MAX_THREADS
    BY <1>1, DispatchAssumption DEF Fits
  <1>3. PICK d \in Nat : S = s + 1 + d
    BY <1>2
  <1>4. S * n = s * n + n + d * n /\ d * n \in Nat /\ s * n \in Nat
    BY <1>3
  <1> QED
    BY <1>2, <1>4, DispatchAssumption DEF Threads, threads_num

\* What the sizes that the program was started with are.
LEMMA Sizes ==
    ASSUME WakeupTypeOK
    PROVE  /\ scheduler_num \in Nat \ {0} /\ threads_num_per_scheduler \in Nat \ {0}
           /\ scheduler_num <= MAX_SCHEDULERS /\ num_queues \in Nat /\ num_queues <= MAX_SCHEDULER_QUEUES
           /\ num_queues = threads_num_per_scheduler * 2
           /\ MAX_SCHEDULERS \in Nat /\ MAX_SCHEDULER_QUEUES \in Nat
  BY DispatchAssumption DEF WakeupTypeOK, Fits, num_queues, WORKER_QUEUES_PER_THREAD

\* The worker a scheduler looks at: its number is in the tables, and no other
\* scheduler looks at it.
LEMMA OneSchedulerEach ==
    ASSUME WakeupTypeOK
    PROVE  /\ \A s \in Schedulers : s < scheduler_num => thd_id(s) \in Threads
           /\ \A s, t \in Schedulers : thd_id(s) = thd_id(t) => s = t
  <1>1. ASSUME NEW s \in Schedulers
        PROVE  s \in Nat /\ sw[s] \in 0..(threads_num_per_scheduler - 1)
    BY DispatchAssumption DEF Schedulers, WakeupTypeOK
  <1>2. ASSUME NEW s \in Schedulers, s < scheduler_num PROVE thd_id(s) \in Threads
    BY <1>1, <1>2, NumberInTable DEF thd_id
  <1>3. ASSUME NEW s \in Schedulers, NEW t \in Schedulers, thd_id(s) = thd_id(t) PROVE s = t
    <2>1. threads_num_per_scheduler \in Nat \ {0}
      BY Sizes
    <2> QED
      BY <1>1, <1>3, <2>1, NumberUnique DEF thd_id
  <1> QED
    BY <1>2, <1>3

\* Queues that have been assigned are not NULL.
LEMMA AssignedOrNot ==
    ASSUME NEW s \in Nat, NEW i \in Nat
    PROVE  QueuesFor(s, i) # NoQueues
  <1>1. QueuesFor(s, i)[0] = <<s, i * 2 + 0>> /\ NoQueues[0] = NULL
    BY DEF QueuesFor, NoQueues, Slots, WORKER_QUEUES_PER_THREAD
  <1>2. <<s, i * 2 + 0>> \in Nat \X Nat
    OBVIOUS
  <1> QED
    BY <1>1, <1>2, DispatchAssumption

\* The queues assigned to a worker are in the tables, and the host made them.
LEMMA QueuesForExist ==
    ASSUME WakeupTypeOK, NEW s \in 0..(scheduler_num - 1), NEW i \in 0..(threads_num_per_scheduler - 1),
           NEW q \in Slots
    PROVE  QueuesFor(s, i)[q] \in QueuesInUse /\ QueuesFor(s, i)[q] \in Queues
  <1>1. s \in Schedulers /\ i * 2 + q \in 0..(num_queues - 1) /\ i * 2 + q \in 0..(MAX_SCHEDULER_QUEUES - 1)
    BY Sizes DEF Schedulers, Slots, WORKER_QUEUES_PER_THREAD
  <1>2. QueuesFor(s, i)[q] = <<s, i * 2 + q>>
    BY DEF QueuesFor, WORKER_QUEUES_PER_THREAD
  <1> QED
    BY <1>1, <1>2 DEF QueuesInUse, Queues

-----------------------------------------------------------------------------
(* The inductive invariant                                                 *)

\* All workers asleep, armed and on offer.
LEMMA InitWakeupInv == Init => WakeupInv
  <1> SUFFICES ASSUME Init PROVE WakeupInv
    OBVIOUS
  <1>0. [schedulers |-> scheduler_num, workers |-> threads_num_per_scheduler,
         location |-> buffer_location] \in Options
    <2>1. PICK o \in Options : /\ scheduler_num = o.schedulers
                              /\ threads_num_per_scheduler = o.workers
                              /\ buffer_location = o.location
      BY DEF Init
    <2>2. o = [schedulers |-> o.schedulers, workers |-> o.workers, location |-> o.location]
      BY DispatchAssumption
    <2> QED
      BY <2>1, <2>2
  <1>1. WakeupTypeOK
    <2>1. scheduler_num \in Nat \ {0} /\ threads_num_per_scheduler \in Nat \ {0}
      BY <1>0, DispatchAssumption
    <2>2. threads_num \in Nat
      BY <2>1 DEF threads_num
    <2> QED
      BY <1>0, <2>1, <2>2 DEF Init, WakeupTypeOK, NoQueues, EuStatus, WorkerPC, SchPC
  <1>2. SchedulersStarted /\ QueuesAssigned
    BY DEF Init, SchedulersStarted, QueuesAssigned
  <1>3. ASSUME NEW w \in Threads PROVE WokenWithQueues(w) /\ WorkerInStep(w)
    BY DEF Init, WokenWithQueues, WorkerInStep, AtRest
  <1>4. ASSUME NEW s \in Schedulers PROVE SchedulerInStep(s, thd_id(s))
    BY DEF Init, SchedulerInStep
  <1> QED
    BY <1>1, <1>2, <1>3, <1>4 DEF WakeupInv

\* A step of worker w disturbs only what the invariant says of w and of the
\* scheduler that looks at it.
LEMMA WorkerStep ==
    ASSUME WakeupInv, NEW w \in Threads,
           UNCHANGED <<assigned_queues, sch_ctx, wakeup_cq_num, scheds, host>>,
           WakeupTypeOK',
           \A v \in Threads \ {w} :
               /\ status'[v] = status[v] /\ wpc'[v] = wpc[v] /\ rq_queues'[v] = rq_queues[v]
               /\ event'[v] = event[v] /\ armed'[v] = armed[v],
           WokenWithQueues(w)', WorkerInStep(w)',
           \A s \in Schedulers : thd_id(s) = w => SchedulerInStep(s, w)'
    PROVE  WakeupInv'
  <1>1. \A s \in Schedulers : thd_id(s)' = thd_id(s)
    BY DEF thd_id, scheds, host, options
  <1>2. SchedulersStarted'
    BY DEF WakeupInv, SchedulersStarted, scheds, host, options
  <1>3. QueuesAssigned'
    BY DEF WakeupInv, QueuesAssigned, scheds, host, options
  <1>4. ASSUME NEW v \in Threads PROVE WokenWithQueues(v)' /\ WorkerInStep(v)'
    <2>1. CASE v # w
      <3>1. WokenWithQueues(v) /\ WorkerInStep(v)
        BY DEF WakeupInv
      <3>2. WokenWithQueues(v)'
        BY <2>1, <3>1 DEF WokenWithQueues, host, options
      <3>3. WorkerInStep(v)'
        BY <1>1, <2>1, <3>1 DEF WorkerInStep, AtRest, scheds, host, options
      <3> QED
        BY <3>2, <3>3
    <2> QED
      BY <2>1
  <1>5. ASSUME NEW s \in Schedulers PROVE SchedulerInStep(s, thd_id(s))'
    <2>1. CASE thd_id(s) = w
      BY <1>1, <2>1 DEF SchedulerInStep, AtRest
    <2>2. CASE thd_id(s) # w /\ spc[s] # "off"
      <3>1. thd_id(s) \in Threads \ {w}
        BY <2>2, OneSchedulerEach DEF WakeupInv, SchedulersStarted
      <3>2. SchedulerInStep(s, thd_id(s))
        BY DEF WakeupInv
      <3> QED
        BY <1>1, <3>1, <3>2 DEF SchedulerInStep, AtRest, scheds, host, options
    <2>3. CASE spc[s] = "off"
      BY <2>3 DEF SchedulerInStep, scheds
    <2> QED
      BY <2>1, <2>2, <2>3
  <1> QED
    BY <1>2, <1>3, <1>4, <1>5 DEF WakeupInv

\* A step of scheduler s disturbs only what the invariant says of s, of the
\* worker it looked at and of the one it looks at next.
LEMMA SchedulerStep ==
    ASSUME WakeupInv, NEW s \in Schedulers, s < scheduler_num, NEW w, w = thd_id(s),
           UNCHANGED <<wpc, rq_queues, options>>,
           WakeupTypeOK',
           \A t \in Schedulers \ {s} :
               /\ spc'[t] = spc[t] /\ sw'[t] = sw[t] /\ current_status'[t] = current_status[t]
               /\ sch_not_first_run'[t] = sch_not_first_run[t],
           \A v \in Threads \ {w} :
               /\ status'[v] = status[v] /\ event'[v] = event[v] /\ armed'[v] = armed[v]
               /\ assigned_queues'[v] = assigned_queues[v],
           SchedulersStarted', QueuesAssigned',
           WokenWithQueues(w)', WorkerInStep(w)',
           SchedulerInStep(s, thd_id(s))'
    PROVE  WakeupInv'
  <1>1. \A t \in Schedulers \ {s} : thd_id(t)' = thd_id(t)
    BY DEF thd_id, options
  <1>2. w \in Threads
    BY OneSchedulerEach DEF WakeupInv
  <1>3. \A t \in Schedulers \ {s} : thd_id(t) # w
    BY OneSchedulerEach DEF WakeupInv
  <1>4. ASSUME NEW v \in Threads PROVE WokenWithQueues(v)' /\ WorkerInStep(v)'
    <2>1. CASE v # w
      <3>1. WokenWithQueues(v) /\ WorkerInStep(v)
        BY DEF WakeupInv
      <3>2. WokenWithQueues(v)'
        BY <2>1, <3>1 DEF WokenWithQueues, options
      <3>3. (\E t \in Schedulers : spc[t] = "hang" /\ thd_id(t) = v)
            => (\E t \in Schedulers : spc[t] = "hang" /\ thd_id(t) = v)'
        BY <1>1, <2>1
      <3>4. WorkerInStep(v)'
        BY <2>1, <3>1, <3>3 DEF WorkerInStep, AtRest, options
      <3> QED
        BY <3>2, <3>4
    <2> QED
      BY <2>1
  <1>5. ASSUME NEW t \in Schedulers PROVE SchedulerInStep(t, thd_id(t))'
    <2>1. CASE t = s
      BY <2>1
    <2>2. CASE t # s /\ spc[t] # "off"
      <3>1. thd_id(t) \in Threads \ {w}
        BY <1>3, <2>2, OneSchedulerEach DEF WakeupInv, SchedulersStarted
      <3>2. SchedulerInStep(t, thd_id(t))
        BY DEF WakeupInv
      <3> QED
        BY <1>1, <2>2, <3>1, <3>2 DEF SchedulerInStep, AtRest, options
    <2>3. CASE t # s /\ spc[t] = "off"
      BY <2>3 DEF SchedulerInStep
    <2> QED
      BY <2>1, <2>2, <2>3
  <1> QED
    BY <1>4, <1>5 DEF WakeupInv
\* What a step of worker w leaves alone.
LEMMA WorkerFrame ==
    ASSUME WakeupTypeOK, NEW w \in Threads, Worker(w)
    PROVE  /\ UNCHANGED <<assigned_queues, sch_ctx, wakeup_cq_num, scheds, host>>
           /\ WakeupTypeOK'
           /\ \A v \in Threads \ {w} :
                  /\ status'[v] = status[v] /\ wpc'[v] = wpc[v] /\ rq_queues'[v] = rq_queues[v]
                  /\ event'[v] = event[v] /\ armed'[v] = armed[v]
  <1> USE DEF WGoto, dispatch, hardware
  <1>1. UNCHANGED <<assigned_queues, sch_ctx, wakeup_cq_num, scheds, host>>
    BY DEF Worker, Dispatched, Enter, FirstLoad, StoreFree, SpinOnStatus, FetchQueues, AcquireOk, AcquireFail,
       BatchEnd, ArmCq, StoreOff, RescheduleThread
  <1> DEFINE OthersUntouched ==
        \A v \in Threads \ {w} :
            /\ status'[v] = status[v] /\ wpc'[v] = wpc[v] /\ rq_queues'[v] = rq_queues[v]
            /\ event'[v] = event[v] /\ armed'[v] = armed[v]
  <1>2. ASSUME Enter(w) PROVE WakeupTypeOK' /\ OthersUntouched
    <2>1. WakeupTypeOK'
      BY <1>1, <1>2 DEF Enter, WakeupTypeOK, WorkerPC, scheds, host, options, threads_num
    <2>2. OthersUntouched
      BY <1>2 DEF Enter, WakeupTypeOK
    <2> QED
      BY <2>1, <2>2
  <1>3. ASSUME FirstLoad(w) PROVE WakeupTypeOK' /\ OthersUntouched
    <2>1. WakeupTypeOK'
      BY <1>1, <1>3 DEF FirstLoad, WakeupTypeOK, WorkerPC, scheds, host, options, threads_num
    <2>2. OthersUntouched
      BY <1>3 DEF FirstLoad, WakeupTypeOK
    <2> QED
      BY <2>1, <2>2
  <1>4. ASSUME StoreFree(w) PROVE WakeupTypeOK' /\ OthersUntouched
    <2>1. WakeupTypeOK'
      BY <1>1, <1>4 DEF StoreFree, WakeupTypeOK, WorkerPC, EuStatus, scheds, host, options, threads_num
    <2>2. OthersUntouched
      BY <1>4 DEF StoreFree, WakeupTypeOK
    <2> QED
      BY <2>1, <2>2
  <1>5. ASSUME SpinOnStatus(w) PROVE WakeupTypeOK' /\ OthersUntouched
    <2>1. WakeupTypeOK'
      BY <1>1, <1>5 DEF SpinOnStatus, WakeupTypeOK, WorkerPC, scheds, host, options, threads_num
    <2>2. OthersUntouched
      BY <1>5 DEF SpinOnStatus, WakeupTypeOK
    <2> QED
      BY <2>1, <2>2
  <1>6. ASSUME FetchQueues(w) PROVE WakeupTypeOK' /\ OthersUntouched
    <2>1. WakeupTypeOK'
      BY <1>1, <1>6 DEF FetchQueues, WakeupTypeOK, WorkerPC, scheds, host, options, threads_num
    <2>2. OthersUntouched
      BY <1>6 DEF FetchQueues, WakeupTypeOK
    <2> QED
      BY <2>1, <2>2
  <1>7. ASSUME AcquireOk(w) PROVE WakeupTypeOK' /\ OthersUntouched
    <2>1. WakeupTypeOK'
      BY <1>1, <1>7 DEF AcquireOk, WakeupTypeOK, WorkerPC, scheds, host, options, threads_num
    <2>2. OthersUntouched
      BY <1>7 DEF AcquireOk, WakeupTypeOK
    <2> QED
      BY <2>1, <2>2
  <1>8. ASSUME AcquireFail(w) PROVE WakeupTypeOK' /\ OthersUntouched
    <2>1. WakeupTypeOK'
      BY <1>1, <1>8 DEF AcquireFail, WakeupTypeOK, WorkerPC, scheds, host, options, threads_num
    <2>2. OthersUntouched
      BY <1>8 DEF AcquireFail, WakeupTypeOK
    <2> QED
      BY <2>1, <2>2
  <1>9. ASSUME BatchEnd(w) PROVE WakeupTypeOK' /\ OthersUntouched
    <2>1. WakeupTypeOK'
      BY <1>1, <1>9 DEF BatchEnd, WakeupTypeOK, WorkerPC, scheds, host, options, threads_num
    <2>2. OthersUntouched
      BY <1>9 DEF BatchEnd, WakeupTypeOK
    <2> QED
      BY <2>1, <2>2
  <1>10. ASSUME ArmCq(w) PROVE WakeupTypeOK' /\ OthersUntouched
    <2>1. WakeupTypeOK'
      BY <1>1, <1>10 DEF ArmCq, WakeupTypeOK, WorkerPC, scheds, host, options, threads_num
    <2>2. OthersUntouched
      BY <1>10 DEF ArmCq, WakeupTypeOK
    <2> QED
      BY <2>1, <2>2
  <1>11. ASSUME StoreOff(w) PROVE WakeupTypeOK' /\ OthersUntouched
    <2>1. WakeupTypeOK'
      BY <1>1, <1>11 DEF StoreOff, WakeupTypeOK, WorkerPC, EuStatus, scheds, host, options, threads_num
    <2>2. OthersUntouched
      BY <1>11 DEF StoreOff, WakeupTypeOK
    <2> QED
      BY <2>1, <2>2
  <1>12. ASSUME RescheduleThread(w) PROVE WakeupTypeOK' /\ OthersUntouched
    <2>1. WakeupTypeOK'
      BY <1>1, <1>12 DEF RescheduleThread, WakeupTypeOK, WorkerPC, NoQueues, scheds, host, options, threads_num
    <2>2. OthersUntouched
      BY <1>12 DEF RescheduleThread, WakeupTypeOK
    <2> QED
      BY <2>1, <2>2
  <1> QED
    BY <1>1, <1>2, <1>3, <1>4, <1>5, <1>6, <1>7, <1>8, <1>9, <1>10, <1>11, <1>12 DEF Worker, Dispatched

\* What the invariant says of worker w before a step of it.
LEMMA WorkerBefore ==
    ASSUME WakeupInv, NEW w \in Threads, Worker(w)
    PROVE  /\ WakeupTypeOK /\ WokenWithQueues(w) /\ WorkerInStep(w)
           /\ \A s \in Schedulers : thd_id(s) = w => SchedulerInStep(s, w)
           /\ \A s \in Schedulers : thd_id(s)' = thd_id(s)
           /\ UNCHANGED <<assigned_queues, scheds, host>>
  <1>1. WakeupTypeOK
    BY DEF WakeupInv
  <1>2. UNCHANGED <<assigned_queues, scheds, host>>
    BY <1>1, WorkerFrame
  <1> QED
    BY <1>2 DEF WakeupInv, thd_id, scheds, host, options

\* The hardware enters the handler of a sleeper that was woken.
LEMMA EnterInv ==
    ASSUME WakeupInv, NEW w \in Threads, Enter(w)
    PROVE  WakeupInv'
  <1>1. Worker(w)
    BY DEF Worker, Dispatched
  <1>2. /\ WakeupTypeOK /\ WokenWithQueues(w) /\ WorkerInStep(w)
        /\ UNCHANGED <<assigned_queues, scheds, host>>
    BY <1>1, WorkerBefore
  <1>3. \A s \in Schedulers : thd_id(s)' = thd_id(s)
    BY <1>1, WorkerBefore
  <1>4. \A s \in Schedulers : thd_id(s) = w => SchedulerInStep(s, w)
    BY <1>1, WorkerBefore
  <1> USE DEF Enter, WGoto, WakeupTypeOK, WokenWithQueues, dispatch, hardware, host, options
  <1>5. WokenWithQueues(w)'
    BY <1>2
  <1>6. WorkerInStep(w)'
    BY <1>2, <1>3, <1>4 DEF WorkerInStep, AtRest, SchedulerInStep, EuStatus, scheds
  <1>7. \A s \in Schedulers : thd_id(s) = w => SchedulerInStep(s, w)'
    BY <1>2, <1>4 DEF WorkerInStep, AtRest, SchedulerInStep, EuStatus, scheds
  <1> QED
    BY <1>1, <1>2, <1>5, <1>6, <1>7, WorkerStep, WorkerFrame

\* The first load of the status.
LEMMA FirstLoadInv ==
    ASSUME WakeupInv, NEW w \in Threads, FirstLoad(w)
    PROVE  WakeupInv'
  <1>1. Worker(w)
    BY DEF Worker, Dispatched
  <1>2. /\ WakeupTypeOK /\ WokenWithQueues(w) /\ WorkerInStep(w)
        /\ UNCHANGED <<assigned_queues, scheds, host>>
    BY <1>1, WorkerBefore
  <1>3. \A s \in Schedulers : thd_id(s)' = thd_id(s)
    BY <1>1, WorkerBefore
  <1>4. \A s \in Schedulers : thd_id(s) = w => SchedulerInStep(s, w)
    BY <1>1, WorkerBefore
  <1> USE DEF FirstLoad, WGoto, WakeupTypeOK, WokenWithQueues, dispatch, hardware, host, options
  <1>5. WokenWithQueues(w)'
    BY <1>2
  <1>6. WorkerInStep(w)'
    BY <1>2, <1>3, <1>4 DEF WorkerInStep, AtRest, SchedulerInStep, EuStatus, scheds
  <1>7. \A s \in Schedulers : thd_id(s) = w => SchedulerInStep(s, w)'
    BY <1>2, <1>4 DEF WorkerInStep, AtRest, SchedulerInStep, EuStatus, scheds
  <1> QED
    BY <1>1, <1>2, <1>5, <1>6, <1>7, WorkerStep, WorkerFrame

\* EU_FREE is stored, over whatever the scheduler has stored.
LEMMA StoreFreeInv ==
    ASSUME WakeupInv, NEW w \in Threads, StoreFree(w)
    PROVE  WakeupInv'
  <1>1. Worker(w)
    BY DEF Worker, Dispatched
  <1>2. /\ WakeupTypeOK /\ WokenWithQueues(w) /\ WorkerInStep(w)
        /\ UNCHANGED <<assigned_queues, scheds, host>>
    BY <1>1, WorkerBefore
  <1>3. \A s \in Schedulers : thd_id(s)' = thd_id(s)
    BY <1>1, WorkerBefore
  <1>4. \A s \in Schedulers : thd_id(s) = w => SchedulerInStep(s, w)
    BY <1>1, WorkerBefore
  <1> USE DEF StoreFree, WGoto, WakeupTypeOK, WokenWithQueues, dispatch, hardware, host, options
  <1>5. WokenWithQueues(w)'
    BY <1>2
  <1>6. WorkerInStep(w)'
    BY <1>2, <1>3, <1>4 DEF WorkerInStep, AtRest, SchedulerInStep, EuStatus, scheds
  <1>7. \A s \in Schedulers : thd_id(s) = w => SchedulerInStep(s, w)'
    BY <1>2, <1>4 DEF WorkerInStep, AtRest, SchedulerInStep, EuStatus, scheds
  <1> QED
    BY <1>1, <1>2, <1>5, <1>6, <1>7, WorkerStep, WorkerFrame

\* EU_HANG ends the wait.
LEMMA SpinOnStatusInv ==
    ASSUME WakeupInv, NEW w \in Threads, SpinOnStatus(w)
    PROVE  WakeupInv'
  <1>1. Worker(w)
    BY DEF Worker, Dispatched
  <1>2. /\ WakeupTypeOK /\ WokenWithQueues(w) /\ WorkerInStep(w)
        /\ UNCHANGED <<assigned_queues, scheds, host>>
    BY <1>1, WorkerBefore
  <1>3. \A s \in Schedulers : thd_id(s)' = thd_id(s)
    BY <1>1, WorkerBefore
  <1>4. \A s \in Schedulers : thd_id(s) = w => SchedulerInStep(s, w)
    BY <1>1, WorkerBefore
  <1> USE DEF SpinOnStatus, WGoto, WakeupTypeOK, WokenWithQueues, dispatch, hardware, host, options
  <1>5. WokenWithQueues(w)'
    BY <1>2
  <1>6. WorkerInStep(w)'
    BY <1>2, <1>3, <1>4 DEF WorkerInStep, AtRest, SchedulerInStep, EuStatus, scheds
  <1>7. \A s \in Schedulers : thd_id(s) = w => SchedulerInStep(s, w)'
    BY <1>2, <1>4 DEF WorkerInStep, AtRest, SchedulerInStep, EuStatus, scheds
  <1> QED
    BY <1>1, <1>2, <1>5, <1>6, <1>7, WorkerStep, WorkerFrame

\* The queues have been assigned when they are fetched.
LEMMA FetchQueuesInv ==
    ASSUME WakeupInv, NEW w \in Threads, FetchQueues(w)
    PROVE  WakeupInv'
  <1>1. Worker(w)
    BY DEF Worker, Dispatched
  <1>2. /\ WakeupTypeOK /\ WokenWithQueues(w) /\ WorkerInStep(w)
        /\ UNCHANGED <<assigned_queues, scheds, host>>
    BY <1>1, WorkerBefore
  <1>3. \A s \in Schedulers : thd_id(s)' = thd_id(s)
    BY <1>1, WorkerBefore
  <1>4. \A s \in Schedulers : thd_id(s) = w => SchedulerInStep(s, w)
    BY <1>1, WorkerBefore
  <1> USE DEF FetchQueues, WGoto, WakeupTypeOK, WokenWithQueues, dispatch, hardware, host, options
  <1>5. WokenWithQueues(w)'
    BY <1>2
  <1>6. WorkerInStep(w)'
    BY <1>2, <1>3, <1>4 DEF WorkerInStep, AtRest, SchedulerInStep, EuStatus, scheds
  <1>7. \A s \in Schedulers : thd_id(s) = w => SchedulerInStep(s, w)'
    BY <1>2, <1>4 DEF WorkerInStep, AtRest, SchedulerInStep, EuStatus, scheds
  <1> QED
    BY <1>1, <1>2, <1>5, <1>6, <1>7, WorkerStep, WorkerFrame

\* Mapping the buffers ...
LEMMA AcquireOkInv ==
    ASSUME WakeupInv, NEW w \in Threads, AcquireOk(w)
    PROVE  WakeupInv'
  <1>1. Worker(w)
    BY DEF Worker, Dispatched
  <1>2. /\ WakeupTypeOK /\ WokenWithQueues(w) /\ WorkerInStep(w)
        /\ UNCHANGED <<assigned_queues, scheds, host>>
    BY <1>1, WorkerBefore
  <1>3. \A s \in Schedulers : thd_id(s)' = thd_id(s)
    BY <1>1, WorkerBefore
  <1>4. \A s \in Schedulers : thd_id(s) = w => SchedulerInStep(s, w)
    BY <1>1, WorkerBefore
  <1> USE DEF AcquireOk, WGoto, WakeupTypeOK, WokenWithQueues, dispatch, hardware, host, options
  <1>5. WokenWithQueues(w)'
    BY <1>2
  <1>6. WorkerInStep(w)'
    BY <1>2, <1>3, <1>4 DEF WorkerInStep, AtRest, SchedulerInStep, EuStatus, scheds
  <1>7. \A s \in Schedulers : thd_id(s) = w => SchedulerInStep(s, w)'
    BY <1>2, <1>4 DEF WorkerInStep, AtRest, SchedulerInStep, EuStatus, scheds
  <1> QED
    BY <1>1, <1>2, <1>5, <1>6, <1>7, WorkerStep, WorkerFrame

\* ... may fail, and the worker goes to sleep at once.
LEMMA AcquireFailInv ==
    ASSUME WakeupInv, NEW w \in Threads, AcquireFail(w)
    PROVE  WakeupInv'
  <1>1. Worker(w)
    BY DEF Worker, Dispatched
  <1>2. /\ WakeupTypeOK /\ WokenWithQueues(w) /\ WorkerInStep(w)
        /\ UNCHANGED <<assigned_queues, scheds, host>>
    BY <1>1, WorkerBefore
  <1>3. \A s \in Schedulers : thd_id(s)' = thd_id(s)
    BY <1>1, WorkerBefore
  <1>4. \A s \in Schedulers : thd_id(s) = w => SchedulerInStep(s, w)
    BY <1>1, WorkerBefore
  <1> USE DEF AcquireFail, WGoto, WakeupTypeOK, WokenWithQueues, dispatch, hardware, host, options
  <1>5. WokenWithQueues(w)'
    BY <1>2
  <1>6. WorkerInStep(w)'
    BY <1>2, <1>3, <1>4 DEF WorkerInStep, AtRest, SchedulerInStep, EuStatus, scheds
  <1>7. \A s \in Schedulers : thd_id(s) = w => SchedulerInStep(s, w)'
    BY <1>2, <1>4 DEF WorkerInStep, AtRest, SchedulerInStep, EuStatus, scheds
  <1> QED
    BY <1>1, <1>2, <1>5, <1>6, <1>7, WorkerStep, WorkerFrame

\* A batch ends after the scheduler's store.
LEMMA BatchEndInv ==
    ASSUME WakeupInv, NEW w \in Threads, BatchEnd(w)
    PROVE  WakeupInv'
  <1>1. Worker(w)
    BY DEF Worker, Dispatched
  <1>2. /\ WakeupTypeOK /\ WokenWithQueues(w) /\ WorkerInStep(w)
        /\ UNCHANGED <<assigned_queues, scheds, host>>
    BY <1>1, WorkerBefore
  <1>3. \A s \in Schedulers : thd_id(s)' = thd_id(s)
    BY <1>1, WorkerBefore
  <1>4. \A s \in Schedulers : thd_id(s) = w => SchedulerInStep(s, w)
    BY <1>1, WorkerBefore
  <1> USE DEF BatchEnd, WGoto, WakeupTypeOK, WokenWithQueues, dispatch, hardware, host, options
  <1>5. WokenWithQueues(w)'
    BY <1>2
  <1>6. WorkerInStep(w)'
    BY <1>2, <1>3, <1>4 DEF WorkerInStep, AtRest, SchedulerInStep, EuStatus, scheds, BatchOutlastsStore
  <1>7. \A s \in Schedulers : thd_id(s) = w => SchedulerInStep(s, w)'
    BY <1>2, <1>4 DEF WorkerInStep, AtRest, SchedulerInStep, EuStatus, scheds, BatchOutlastsStore
  <1> QED
    BY <1>1, <1>2, <1>5, <1>6, <1>7, WorkerStep, WorkerFrame

\* The CQ is armed ...
LEMMA ArmCqInv ==
    ASSUME WakeupInv, NEW w \in Threads, ArmCq(w)
    PROVE  WakeupInv'
  <1>1. Worker(w)
    BY DEF Worker, Dispatched
  <1>2. /\ WakeupTypeOK /\ WokenWithQueues(w) /\ WorkerInStep(w)
        /\ UNCHANGED <<assigned_queues, scheds, host>>
    BY <1>1, WorkerBefore
  <1>3. \A s \in Schedulers : thd_id(s)' = thd_id(s)
    BY <1>1, WorkerBefore
  <1>4. \A s \in Schedulers : thd_id(s) = w => SchedulerInStep(s, w)
    BY <1>1, WorkerBefore
  <1> USE DEF ArmCq, WGoto, WakeupTypeOK, WokenWithQueues, dispatch, hardware, host, options
  <1>5. WokenWithQueues(w)'
    BY <1>2
  <1>6. WorkerInStep(w)'
    BY <1>2, <1>3, <1>4 DEF WorkerInStep, AtRest, SchedulerInStep, EuStatus, scheds
  <1>7. \A s \in Schedulers : thd_id(s) = w => SchedulerInStep(s, w)'
    BY <1>2, <1>4 DEF WorkerInStep, AtRest, SchedulerInStep, EuStatus, scheds
  <1> QED
    BY <1>1, <1>2, <1>5, <1>6, <1>7, WorkerStep, WorkerFrame

\* ... before the thread is on offer.
LEMMA StoreOffInv ==
    ASSUME WakeupInv, NEW w \in Threads, StoreOff(w)
    PROVE  WakeupInv'
  <1>1. Worker(w)
    BY DEF Worker, Dispatched
  <1>2. /\ WakeupTypeOK /\ WokenWithQueues(w) /\ WorkerInStep(w)
        /\ UNCHANGED <<assigned_queues, scheds, host>>
    BY <1>1, WorkerBefore
  <1>3. \A s \in Schedulers : thd_id(s)' = thd_id(s)
    BY <1>1, WorkerBefore
  <1>4. \A s \in Schedulers : thd_id(s) = w => SchedulerInStep(s, w)
    BY <1>1, WorkerBefore
  <1> USE DEF StoreOff, WGoto, WakeupTypeOK, WokenWithQueues, dispatch, hardware, host, options
  <1>5. WokenWithQueues(w)'
    BY <1>2
  <1>6. WorkerInStep(w)'
    BY <1>2, <1>3, <1>4 DEF WorkerInStep, AtRest, SchedulerInStep, EuStatus, scheds
  <1>7. \A s \in Schedulers : thd_id(s) = w => SchedulerInStep(s, w)'
    BY <1>2, <1>4 DEF WorkerInStep, AtRest, SchedulerInStep, EuStatus, scheds
  <1> QED
    BY <1>1, <1>2, <1>5, <1>6, <1>7, WorkerStep, WorkerFrame

\* The execution unit is left.
LEMMA RescheduleThreadInv ==
    ASSUME WakeupInv, NEW w \in Threads, RescheduleThread(w)
    PROVE  WakeupInv'
  <1>1. Worker(w)
    BY DEF Worker, Dispatched
  <1>2. /\ WakeupTypeOK /\ WokenWithQueues(w) /\ WorkerInStep(w)
        /\ UNCHANGED <<assigned_queues, scheds, host>>
    BY <1>1, WorkerBefore
  <1>3. \A s \in Schedulers : thd_id(s)' = thd_id(s)
    BY <1>1, WorkerBefore
  <1>4. \A s \in Schedulers : thd_id(s) = w => SchedulerInStep(s, w)
    BY <1>1, WorkerBefore
  <1> USE DEF RescheduleThread, WGoto, WakeupTypeOK, WokenWithQueues, dispatch, hardware, host, options
  <1>5. WokenWithQueues(w)'
    BY <1>2
  <1>6. WorkerInStep(w)'
    BY <1>2, <1>3, <1>4 DEF WorkerInStep, AtRest, SchedulerInStep, EuStatus, scheds
  <1>7. \A s \in Schedulers : thd_id(s) = w => SchedulerInStep(s, w)'
    BY <1>2, <1>4 DEF WorkerInStep, AtRest, SchedulerInStep, EuStatus, scheds
  <1> QED
    BY <1>1, <1>2, <1>5, <1>6, <1>7, WorkerStep, WorkerFrame

\* What the invariant says of scheduler s and of the worker it looks at, before a
\* step of it.
LEMMA SchedulerBefore ==
    ASSUME WakeupInv, NEW s \in Schedulers, spc[s] # "off"
    PROVE  /\ WakeupTypeOK /\ s \in Nat /\ s < scheduler_num /\ thd_id(s) \in Threads
           /\ spc[s] # "assign" => sch_not_first_run[s]
           /\ sw[s] \in 0..(threads_num_per_scheduler - 1)
           /\ WokenWithQueues(thd_id(s)) /\ WorkerInStep(thd_id(s))
           /\ SchedulerInStep(s, thd_id(s))
           /\ spc[s] # "assign" => assigned_queues[thd_id(s)] # NoQueues
           /\ \A t \in Schedulers : thd_id(t) = thd_id(s) => t = s
  <1>1. WakeupTypeOK /\ s < scheduler_num /\ s \in Nat /\ sw[s] \in 0..(threads_num_per_scheduler - 1)
    BY DispatchAssumption DEF WakeupInv, SchedulersStarted, Schedulers, WakeupTypeOK
  <1>2. thd_id(s) \in Threads /\ \A t \in Schedulers : thd_id(t) = thd_id(s) => t = s
    BY <1>1, OneSchedulerEach
  <1>3. spc[s] # "assign" => sch_not_first_run[s]
    BY DEF WakeupInv, SchedulersStarted
  <1>4. spc[s] # "assign" => assigned_queues[thd_id(s)] # NoQueues
    BY <1>1, <1>3 DEF WakeupInv, QueuesAssigned, thd_id
  <1>5. WokenWithQueues(thd_id(s)) /\ WorkerInStep(thd_id(s)) /\ SchedulerInStep(s, thd_id(s))
    BY <1>2 DEF WakeupInv
  <1> QED
    BY <1>1, <1>2, <1>3, <1>4, <1>5

\* Going on to the next worker, or to the end of the round, stays in the loop.
LEMMA NextWorkerInLoop ==
    ASSUME WakeupTypeOK, NEW s \in Schedulers, NextWorker(s)
    PROVE  \E pc \in {"round", "load"}, idx \in 0..(threads_num_per_scheduler - 1) :
               /\ spc' = [spc EXCEPT ![s] = pc]
               /\ sw' = [sw EXCEPT ![s] = idx]
  <1>1. threads_num_per_scheduler \in Nat \ {0} /\ sw[s] \in 0..(threads_num_per_scheduler - 1)
    BY Sizes DEF WakeupTypeOK
  <1> QED
    BY <1>1 DEF NextWorker, SchGoto, LastWorker

\* A completion starts the handler.
LEMMA ActivateInv ==
    ASSUME WakeupInv, NEW s \in Schedulers, Activate(s)
    PROVE  WakeupInv'
  <1>1. WakeupTypeOK /\ s < scheduler_num /\ spc[s] = "off"
    BY DEF WakeupInv, Activate
  <1>2. PICK w \in Threads : w = thd_id(s)
    BY <1>1, OneSchedulerEach
  <1>3. WokenWithQueues(w) /\ WorkerInStep(w) /\ \A t \in Schedulers : thd_id(t) = w => t = s
    BY <1>1, <1>2, OneSchedulerEach DEF WakeupInv
  <1>4. PICK pc \in {"load", "assign"}, idx \in 0..(threads_num_per_scheduler - 1) :
            /\ spc' = [spc EXCEPT ![s] = pc]
            /\ sw' = [sw EXCEPT ![s] = idx]
            /\ pc = "assign" => idx = 0
            /\ pc = "load" => sch_not_first_run[s]
    <2>1. 0 \in 0..(threads_num_per_scheduler - 1)
      BY <1>1, Sizes
    <2>2. sch_not_first_run[s] \in BOOLEAN
      BY <1>1 DEF WakeupTypeOK
    <2> QED
      BY <2>1, <2>2 DEF Activate, SchGoto
  <1>5. WakeupTypeOK'
    BY <1>1, <1>4 DEF Activate, WakeupTypeOK, SchPC, EuStatus, dispatch, threads, hardware, host, options, threads_num
  <1>6. UNCHANGED <<assigned_queues, wpc, rq_queues, options, sch_not_first_run>>
    BY DEF Activate, dispatch, threads, host
  <1>7. \A t \in Schedulers \ {s} :
            /\ spc'[t] = spc[t] /\ sw'[t] = sw[t] /\ current_status'[t] = current_status[t]
            /\ sch_not_first_run'[t] = sch_not_first_run[t]
    BY <1>1, <1>4, <1>6 DEF Activate, WakeupTypeOK
  <1>8. \A v \in Threads \ {w} :
            /\ status'[v] = status[v] /\ event'[v] = event[v] /\ armed'[v] = armed[v]
            /\ assigned_queues'[v] = assigned_queues[v]
    BY <1>1, <1>2, <1>6 DEF Activate, WakeupTypeOK, dispatch, hardware
  <1>9. spc'[s] = pc /\ sw'[s] = idx
    BY <1>1, <1>4 DEF WakeupTypeOK
  <1>10. SchedulersStarted'
    BY <1>1, <1>4, <1>6, <1>7, <1>9 DEF WakeupInv, SchedulersStarted, options
  <1>11. QueuesAssigned'
    BY <1>1, <1>4, <1>6, <1>7, <1>9 DEF WakeupInv, QueuesAssigned, options
  <1>12. WokenWithQueues(w)'
    BY <1>1, <1>2, <1>3, <1>6 DEF Activate, WokenWithQueues, WakeupTypeOK, dispatch, hardware, options
  <1>13. WorkerInStep(w)'
    BY <1>1, <1>2, <1>3, <1>6, <1>9 DEF Activate, WorkerInStep, AtRest, SchedulerInStep, WakeupTypeOK, dispatch, hardware, options
  <1>14. SchedulerInStep(s, thd_id(s))'
    BY <1>9 DEF SchedulerInStep
  <1> QED
    BY <1>1, <1>2, <1>5, <1>6, <1>7, <1>8, <1>10, <1>11, <1>12, <1>13, <1>14, SchedulerStep

\* The status loaded is the worker's: EU_OFF means that it is at rest.
LEMMA LoadStatusInv ==
    ASSUME WakeupInv, NEW s \in Schedulers, LoadStatus(s)
    PROVE  WakeupInv'
  <1>0. spc[s] # "off" /\ spc[s] # "assign"
    BY DEF LoadStatus
  <1>1. WakeupTypeOK /\ s < scheduler_num /\ sch_not_first_run[s]
    BY <1>0, SchedulerBefore
  <1>2. PICK w \in Threads : w = thd_id(s)
    BY <1>0, SchedulerBefore
  <1>3. /\ WokenWithQueues(w) /\ WorkerInStep(w) /\ SchedulerInStep(s, w)
        /\ assigned_queues[w] # NoQueues
        /\ \A t \in Schedulers : thd_id(t) = w => t = s
    BY <1>0, <1>2, SchedulerBefore
  <1>4. PICK pc \in {"cq_num"}, idx \in 0..(threads_num_per_scheduler - 1) :
            /\ spc' = [spc EXCEPT ![s] = pc]
            /\ sw' = [sw EXCEPT ![s] = idx]
            /\ idx = sw[s]
    BY <1>1 DEF LoadStatus, SchGoto, WakeupTypeOK
  <1>5. WakeupTypeOK'
    BY <1>1, <1>2, <1>4 DEF LoadStatus, WakeupTypeOK, SchPC, EuStatus, dispatch, threads, hardware, host, options, threads_num
  <1>6. UNCHANGED <<assigned_queues, wpc, rq_queues, options, sch_not_first_run>>
    BY DEF LoadStatus, dispatch, threads, host
  <1>7. \A t \in Schedulers \ {s} :
            /\ spc'[t] = spc[t] /\ sw'[t] = sw[t] /\ current_status'[t] = current_status[t]
            /\ sch_not_first_run'[t] = sch_not_first_run[t]
    BY <1>1, <1>4, <1>6 DEF LoadStatus, WakeupTypeOK
  <1>8. \A v \in Threads \ {w} :
            /\ status'[v] = status[v] /\ event'[v] = event[v] /\ armed'[v] = armed[v]
            /\ assigned_queues'[v] = assigned_queues[v]
    BY <1>1, <1>2, <1>6 DEF LoadStatus, WakeupTypeOK, dispatch, hardware
  <1>9. spc'[s] = pc /\ sw'[s] = idx
    BY <1>1, <1>4 DEF WakeupTypeOK
  <1>10. SchedulersStarted'
    BY <1>1, <1>6, <1>7, <1>9 DEF WakeupInv, SchedulersStarted, options
  <1>11. QueuesAssigned'
    BY <1>1, <1>6, <1>7, <1>9 DEF WakeupInv, QueuesAssigned, options
  <1>12. WokenWithQueues(w)'
    BY <1>1, <1>2, <1>3, <1>6 DEF LoadStatus, WokenWithQueues, WakeupTypeOK, dispatch, hardware, options
  <1>13. thd_id(s)' = w
    BY <1>2, <1>4, <1>6, <1>9 DEF thd_id, options
  <1>14. WorkerInStep(w)'
    BY <1>1, <1>2, <1>3, <1>6, <1>9, <1>13 DEF LoadStatus, WorkerInStep, AtRest, SchedulerInStep, WakeupTypeOK, dispatch, hardware, options
  <1>15. SchedulerInStep(s, thd_id(s))'
    BY <1>1, <1>2, <1>3, <1>4, <1>6, <1>9, <1>13 DEF LoadStatus, WorkerInStep, SchedulerInStep, AtRest, WakeupTypeOK, dispatch, hardware, options
  <1> QED
    BY <1>1, <1>2, <1>5, <1>6, <1>7, <1>8, <1>10, <1>11, <1>12, <1>14, <1>15, SchedulerStep

\* The branch on the status loaded.
LEMMA LookUpCqInv ==
    ASSUME WakeupInv, NEW s \in Schedulers, LookUpCq(s)
    PROVE  WakeupInv'
  <1>0. spc[s] # "off" /\ spc[s] # "assign"
    BY DEF LookUpCq
  <1>1. WakeupTypeOK /\ s < scheduler_num /\ sch_not_first_run[s]
    BY <1>0, SchedulerBefore
  <1>2. PICK w \in Threads : w = thd_id(s)
    BY <1>0, SchedulerBefore
  <1>3. /\ WokenWithQueues(w) /\ WorkerInStep(w) /\ SchedulerInStep(s, w)
        /\ assigned_queues[w] # NoQueues
        /\ \A t \in Schedulers : thd_id(t) = w => t = s
    BY <1>0, <1>2, SchedulerBefore
  <1>4. PICK pc \in {"send", "hang", "round", "load"}, idx \in 0..(threads_num_per_scheduler - 1) :
            /\ spc' = [spc EXCEPT ![s] = pc]
            /\ sw' = [sw EXCEPT ![s] = idx]
            /\ pc = "send" => current_status[s] = "EU_OFF" /\ idx = sw[s]
            /\ pc = "hang" => current_status[s] = "EU_FREE" /\ idx = sw[s]
    BY <1>1, NextWorkerInLoop DEF LookUpCq, SchGoto, WakeupTypeOK
  <1>5. WakeupTypeOK'
    BY <1>1, <1>4 DEF LookUpCq, WakeupTypeOK, SchPC, EuStatus, dispatch, threads, hardware, host, options, threads_num
  <1>6. UNCHANGED <<assigned_queues, wpc, rq_queues, options, sch_not_first_run>>
    BY DEF LookUpCq, dispatch, threads, host
  <1>7. \A t \in Schedulers \ {s} :
            /\ spc'[t] = spc[t] /\ sw'[t] = sw[t] /\ current_status'[t] = current_status[t]
            /\ sch_not_first_run'[t] = sch_not_first_run[t]
    BY <1>1, <1>4, <1>6 DEF LookUpCq, WakeupTypeOK
  <1>8. \A v \in Threads \ {w} :
            /\ status'[v] = status[v] /\ event'[v] = event[v] /\ armed'[v] = armed[v]
            /\ assigned_queues'[v] = assigned_queues[v]
    BY <1>1, <1>2, <1>6 DEF LookUpCq, WakeupTypeOK, dispatch, hardware
  <1>9. spc'[s] = pc /\ sw'[s] = idx
    BY <1>1, <1>4 DEF WakeupTypeOK
  <1>10. SchedulersStarted'
    BY <1>1, <1>6, <1>7, <1>9 DEF WakeupInv, SchedulersStarted, options
  <1>11. QueuesAssigned'
    BY <1>1, <1>6, <1>7, <1>9 DEF WakeupInv, QueuesAssigned, options
  <1>12. WokenWithQueues(w)'
    BY <1>1, <1>2, <1>3, <1>6 DEF LookUpCq, WokenWithQueues, WakeupTypeOK, dispatch, hardware, options
  <1>13. idx = sw[s] => thd_id(s)' = w
    BY <1>2, <1>6, <1>9 DEF thd_id, options
  <1>14. WorkerInStep(w)'
    BY <1>1, <1>2, <1>3, <1>6, <1>9, <1>13 DEF LookUpCq, WorkerInStep, AtRest, SchedulerInStep, WakeupTypeOK, dispatch, hardware, options
  <1>15. SchedulerInStep(s, thd_id(s))'
    BY <1>1, <1>2, <1>3, <1>4, <1>6, <1>9, <1>13 DEF LookUpCq, WorkerInStep, SchedulerInStep, AtRest, WakeupTypeOK, dispatch, hardware, options
  <1> QED
    BY <1>1, <1>2, <1>5, <1>6, <1>7, <1>8, <1>10, <1>11, <1>12, <1>14, <1>15, SchedulerStep

\* The MSI-X finds the CQ armed.
LEMMA SendMsixInv ==
    ASSUME WakeupInv, NEW s \in Schedulers, SendMsix(s)
    PROVE  WakeupInv'
  <1>0. spc[s] # "off" /\ spc[s] # "assign"
    BY DEF SendMsix
  <1>1. WakeupTypeOK /\ s < scheduler_num /\ sch_not_first_run[s]
    BY <1>0, SchedulerBefore
  <1>2. PICK w \in Threads : w = thd_id(s)
    BY <1>0, SchedulerBefore
  <1>3. /\ WokenWithQueues(w) /\ WorkerInStep(w) /\ SchedulerInStep(s, w)
        /\ assigned_queues[w] # NoQueues
        /\ \A t \in Schedulers : thd_id(t) = w => t = s
    BY <1>0, <1>2, SchedulerBefore
  <1>4. PICK pc \in {"hang"}, idx \in 0..(threads_num_per_scheduler - 1) :
            /\ spc' = [spc EXCEPT ![s] = pc]
            /\ sw' = [sw EXCEPT ![s] = idx]
            /\ idx = sw[s]
    BY <1>1 DEF SendMsix, SchGoto, WakeupTypeOK
  <1>5. WakeupTypeOK'
    BY <1>1, <1>4 DEF SendMsix, WakeupTypeOK, SchPC, EuStatus, dispatch, threads, hardware, host, options, threads_num
  <1>6. UNCHANGED <<assigned_queues, wpc, rq_queues, options, sch_not_first_run>>
    BY DEF SendMsix, dispatch, threads, host
  <1>7. \A t \in Schedulers \ {s} :
            /\ spc'[t] = spc[t] /\ sw'[t] = sw[t] /\ current_status'[t] = current_status[t]
            /\ sch_not_first_run'[t] = sch_not_first_run[t]
    BY <1>1, <1>4, <1>6 DEF SendMsix, WakeupTypeOK
  <1>8. \A v \in Threads \ {w} :
            /\ status'[v] = status[v] /\ event'[v] = event[v] /\ armed'[v] = armed[v]
            /\ assigned_queues'[v] = assigned_queues[v]
    BY <1>1, <1>2, <1>6 DEF SendMsix, WakeupTypeOK, dispatch, hardware
  <1>9. spc'[s] = pc /\ sw'[s] = idx
    BY <1>1, <1>4 DEF WakeupTypeOK
  <1>10. SchedulersStarted'
    BY <1>1, <1>6, <1>7, <1>9 DEF WakeupInv, SchedulersStarted, options
  <1>11. QueuesAssigned'
    BY <1>1, <1>6, <1>7, <1>9 DEF WakeupInv, QueuesAssigned, options
  <1>12. WokenWithQueues(w)'
    BY <1>1, <1>2, <1>3, <1>6 DEF SendMsix, WokenWithQueues, WakeupTypeOK, dispatch, hardware, options
  <1>13. thd_id(s)' = w
    BY <1>2, <1>4, <1>6, <1>9 DEF thd_id, options
  <1>14. WorkerInStep(w)'
    BY <1>1, <1>2, <1>3, <1>6, <1>9, <1>13 DEF SendMsix, WorkerInStep, AtRest, SchedulerInStep, WakeupTypeOK, dispatch, hardware, options
  <1>15. SchedulerInStep(s, thd_id(s))'
    BY <1>1, <1>2, <1>3, <1>4, <1>6, <1>9, <1>13 DEF SendMsix, WorkerInStep, SchedulerInStep, AtRest, WakeupTypeOK, dispatch, hardware, options
  <1> QED
    BY <1>1, <1>2, <1>5, <1>6, <1>7, <1>8, <1>10, <1>11, <1>12, <1>14, <1>15, SchedulerStep

\* EU_HANG is stored for a worker that is awake, unless its buffers are in host
\* memory.
LEMMA StoreHangInv ==
    ASSUME WakeupInv, NEW s \in Schedulers, StoreHang(s)
    PROVE  WakeupInv'
  <1>0. spc[s] # "off" /\ spc[s] # "assign"
    BY DEF StoreHang
  <1>1. WakeupTypeOK /\ s < scheduler_num /\ sch_not_first_run[s]
    BY <1>0, SchedulerBefore
  <1>2. PICK w \in Threads : w = thd_id(s)
    BY <1>0, SchedulerBefore
  <1>3. /\ WokenWithQueues(w) /\ WorkerInStep(w) /\ SchedulerInStep(s, w)
        /\ assigned_queues[w] # NoQueues
        /\ \A t \in Schedulers : thd_id(t) = w => t = s
    BY <1>0, <1>2, SchedulerBefore
  <1>4. PICK pc \in {"round", "load"}, idx \in 0..(threads_num_per_scheduler - 1) :
            /\ spc' = [spc EXCEPT ![s] = pc]
            /\ sw' = [sw EXCEPT ![s] = idx]
    BY <1>1, NextWorkerInLoop DEF StoreHang
  <1>5. WakeupTypeOK'
    BY <1>1, <1>4 DEF StoreHang, WakeupTypeOK, SchPC, EuStatus, dispatch, threads, hardware, host, options, threads_num
  <1>6. UNCHANGED <<assigned_queues, wpc, rq_queues, options, sch_not_first_run>>
    BY DEF StoreHang, dispatch, threads, host
  <1>7. \A t \in Schedulers \ {s} :
            /\ spc'[t] = spc[t] /\ sw'[t] = sw[t] /\ current_status'[t] = current_status[t]
            /\ sch_not_first_run'[t] = sch_not_first_run[t]
    BY <1>1, <1>4, <1>6 DEF StoreHang, WakeupTypeOK
  <1>8. \A v \in Threads \ {w} :
            /\ status'[v] = status[v] /\ event'[v] = event[v] /\ armed'[v] = armed[v]
            /\ assigned_queues'[v] = assigned_queues[v]
    BY <1>1, <1>2, <1>6 DEF StoreHang, WakeupTypeOK, dispatch, hardware
  <1>9. spc'[s] = pc /\ sw'[s] = idx
    BY <1>1, <1>4 DEF WakeupTypeOK
  <1>10. SchedulersStarted'
    BY <1>1, <1>6, <1>7, <1>9 DEF WakeupInv, SchedulersStarted, options
  <1>11. QueuesAssigned'
    BY <1>1, <1>6, <1>7, <1>9 DEF WakeupInv, QueuesAssigned, options
  <1>12. WokenWithQueues(w)'
    BY <1>1, <1>2, <1>3, <1>6 DEF StoreHang, WokenWithQueues, WakeupTypeOK, dispatch, hardware, options
  <1>13. WorkerInStep(w)'
    BY <1>1, <1>2, <1>3, <1>6, <1>9 DEF StoreHang, WorkerInStep, AtRest, SchedulerInStep, WakeupTypeOK, dispatch, hardware, options
  <1>14. SchedulerInStep(s, thd_id(s))'
    BY <1>9 DEF SchedulerInStep
  <1> QED
    BY <1>1, <1>2, <1>5, <1>6, <1>7, <1>8, <1>10, <1>11, <1>12, <1>13, <1>14, SchedulerStep

\* The rest of the round.
LEMMA NextRoundInv ==
    ASSUME WakeupInv, NEW s \in Schedulers, NextRound(s)
    PROVE  WakeupInv'
  <1>0. spc[s] # "off" /\ spc[s] # "assign"
    BY DEF NextRound
  <1>1. WakeupTypeOK /\ s < scheduler_num /\ sch_not_first_run[s]
    BY <1>0, SchedulerBefore
  <1>2. PICK w \in Threads : w = thd_id(s)
    BY <1>0, SchedulerBefore
  <1>3. /\ WokenWithQueues(w) /\ WorkerInStep(w) /\ SchedulerInStep(s, w)
        /\ assigned_queues[w] # NoQueues
        /\ \A t \in Schedulers : thd_id(t) = w => t = s
    BY <1>0, <1>2, SchedulerBefore
  <1>4. PICK pc \in {"load", "off"}, idx \in 0..(threads_num_per_scheduler - 1) :
            /\ spc' = [spc EXCEPT ![s] = pc]
            /\ sw' = [sw EXCEPT ![s] = idx]
    BY <1>1, Sizes DEF NextRound, SchGoto
  <1>5. WakeupTypeOK'
    BY <1>1, <1>4 DEF NextRound, WakeupTypeOK, SchPC, EuStatus, dispatch, threads, hardware, host, options, threads_num
  <1>6. UNCHANGED <<assigned_queues, wpc, rq_queues, options, sch_not_first_run>>
    BY DEF NextRound, dispatch, threads, host
  <1>7. \A t \in Schedulers \ {s} :
            /\ spc'[t] = spc[t] /\ sw'[t] = sw[t] /\ current_status'[t] = current_status[t]
            /\ sch_not_first_run'[t] = sch_not_first_run[t]
    BY <1>1, <1>4, <1>6 DEF NextRound, WakeupTypeOK
  <1>8. \A v \in Threads \ {w} :
            /\ status'[v] = status[v] /\ event'[v] = event[v] /\ armed'[v] = armed[v]
            /\ assigned_queues'[v] = assigned_queues[v]
    BY <1>1, <1>2, <1>6 DEF NextRound, WakeupTypeOK, dispatch, hardware
  <1>9. spc'[s] = pc /\ sw'[s] = idx
    BY <1>1, <1>4 DEF WakeupTypeOK
  <1>10. SchedulersStarted'
    BY <1>1, <1>6, <1>7, <1>9 DEF WakeupInv, SchedulersStarted, options
  <1>11. QueuesAssigned'
    BY <1>1, <1>6, <1>7, <1>9 DEF WakeupInv, QueuesAssigned, options
  <1>12. WokenWithQueues(w)'
    BY <1>1, <1>2, <1>3, <1>6 DEF NextRound, WokenWithQueues, WakeupTypeOK, dispatch, hardware, options
  <1>13. WorkerInStep(w)'
    BY <1>1, <1>2, <1>3, <1>6, <1>9 DEF NextRound, WorkerInStep, AtRest, SchedulerInStep, WakeupTypeOK, dispatch, hardware, options
  <1>14. SchedulerInStep(s, thd_id(s))'
    BY <1>9 DEF SchedulerInStep
  <1> QED
    BY <1>1, <1>2, <1>5, <1>6, <1>7, <1>8, <1>10, <1>11, <1>12, <1>13, <1>14, SchedulerStep

\* One pass of sch_assign_workers: the worker gets its own two queues, which are
\* the ones it already has if it has any.
LEMMA AssignWorkerInv ==
    ASSUME WakeupInv, NEW s \in Schedulers, AssignWorker(s)
    PROVE  WakeupInv'
  <1>0. spc[s] = "assign"
    BY DEF AssignWorker
  <1>1. /\ WakeupTypeOK /\ s \in Nat /\ s < scheduler_num
        /\ sw[s] \in 0..(threads_num_per_scheduler - 1)
        /\ scheduler_num \in Nat /\ threads_num_per_scheduler \in Nat \ {0}
    BY <1>0, SchedulerBefore, Sizes
  <1>2. PICK w \in Threads, n \in 0..(threads_num_per_scheduler - 1) :
            n = sw[s] /\ w = thd_id(s) /\ w = s * threads_num_per_scheduler + n
    BY <1>0, SchedulerBefore DEF thd_id
  <1>3. /\ WokenWithQueues(w) /\ WorkerInStep(w)
        /\ \A t \in Schedulers : thd_id(t) = w => t = s
    BY <1>0, <1>2, SchedulerBefore
  <1>4. assigned_queues' = [assigned_queues EXCEPT ![w] = QueuesFor(s, n)]
    BY <1>2 DEF AssignWorker, QueuesFor, base_queue_idx
  <1>5. PICK pc \in {"load", "assign"}, idx \in 0..(threads_num_per_scheduler - 1) :
            /\ spc' = [spc EXCEPT ![s] = pc]
            /\ sw' = [sw EXCEPT ![s] = idx]
            /\ pc = "assign" =>
                   idx = n + 1 /\ UNCHANGED sch_not_first_run
            /\ pc = "load" =>
                   /\ n + 1 = threads_num_per_scheduler
                   /\ sch_not_first_run' = [sch_not_first_run EXCEPT ![s] = TRUE]
    <2>1. CASE LastWorker(s)
      BY <1>1, <1>2, <2>1 DEF AssignWorker, SchGoto, LastWorker
    <2>2. CASE ~LastWorker(s)
      BY <1>1, <1>2, <2>2 DEF AssignWorker, SchGoto, LastWorker
    <2> QED
      BY <2>1, <2>2
  <1>6. \A t \in Schedulers \ {s} :
            /\ spc'[t] = spc[t] /\ sw'[t] = sw[t] /\ current_status'[t] = current_status[t]
            /\ sch_not_first_run'[t] = sch_not_first_run[t]
    BY <1>1, <1>5 DEF AssignWorker, WakeupTypeOK
  <1>7. spc'[s] = pc /\ sw'[s] = idx
    BY <1>1, <1>5 DEF WakeupTypeOK
  <1>8. /\ UNCHANGED <<wpc, rq_queues, options, status, event, armed>>
        /\ \A v \in Threads \ {w} : assigned_queues'[v] = assigned_queues[v]
        /\ assigned_queues'[w] = QueuesFor(s, n)
    BY <1>1, <1>4 DEF AssignWorker, threads, hardware, host, WakeupTypeOK
  <1>9. WakeupTypeOK'
    <2>1. assigned_queues' \in [Threads -> [Slots -> Queues \cup {NULL}]]
      <3>1. \A q \in Slots : QueuesFor(s, n)[q] \in Queues
        BY <1>1, QueuesForExist
      <3>2. QueuesFor(s, n) \in [Slots -> Queues \cup {NULL}]
        BY <3>1 DEF QueuesFor
      <3> QED
        BY <1>1, <1>4, <3>2 DEF WakeupTypeOK
    <2>2. sch_ctx' \in [Threads -> Schedulers \cup {NULL}] /\ wakeup_cq_num' \in [Threads -> {0, 1}]
      BY <1>1, <1>2 DEF AssignWorker, WakeupTypeOK
    <2>3. spc' \in [Schedulers -> SchPC] /\ sw' \in [Schedulers -> 0..(threads_num_per_scheduler - 1)]
      BY <1>1, <1>5 DEF WakeupTypeOK, SchPC
    <2>4. sch_not_first_run' \in [Schedulers -> BOOLEAN]
      BY <1>1, <1>5 DEF WakeupTypeOK
    <2> QED
      BY <1>1, <2>1, <2>2, <2>3, <2>4 DEF AssignWorker, WakeupTypeOK, threads, hardware, host, options, threads_num
  <1>10. SchedulersStarted'
    <2>1. pc = "load" => sch_not_first_run'[s]
      BY <1>1, <1>5 DEF WakeupTypeOK
    <2> QED
      BY <1>1, <1>6, <1>7, <1>8, <2>1 DEF WakeupInv, SchedulersStarted, options
  <1>11. \A i \in 0..(threads_num_per_scheduler - 1) :
             s * threads_num_per_scheduler + i \in Threads
             /\ (s * threads_num_per_scheduler + i = w => i = n)
    BY <1>1, <1>2, NumberInTable, NumberUnique
  <1>12. QueuesFor(s, n) # NoQueues
    BY <1>1, AssignedOrNot
  <1>13. QueuesAssigned'
    <2>1. ASSUME NEW v \in Threads
          PROVE  \/ assigned_queues'[v] = NoQueues
                 \/ \E t \in 0..(scheduler_num - 1), i \in 0..(threads_num_per_scheduler - 1) :
                        /\ v = t * threads_num_per_scheduler + i
                        /\ assigned_queues'[v] = QueuesFor(t, i)
      <3>1. CASE v = w
        <4>1. s \in 0..(scheduler_num - 1)
          BY <1>1
        <4> QED
          BY <1>2, <1>8, <3>1, <4>1
      <3>2. CASE v # w
        BY <1>8, <3>2 DEF WakeupInv, QueuesAssigned
      <3> QED
        BY <3>1, <3>2
    <2>2. ASSUME NEW t \in Schedulers, NEW i \in 0..(threads_num_per_scheduler - 1),
                 sch_not_first_run'[t] \/ (spc'[t] = "assign" /\ i < sw'[t])
          PROVE  assigned_queues'[t * threads_num_per_scheduler + i] # NoQueues
      <3>1. CASE t = s
        <4>1. CASE i = n
          BY <1>2, <1>8, <1>12, <3>1, <4>1
        <4>2. CASE i # n
          <5>1. sch_not_first_run[s] \/ i < sw[s]
            <6>1. CASE pc = "load"
              <7>1. i < n
                BY <1>1, <1>5, <4>2, <6>1
              <7> QED
                BY <1>2, <7>1
            <6>2. CASE pc = "assign"
              BY <1>1, <1>2, <1>5, <1>7, <2>2, <3>1, <4>2, <6>2
            <6> QED
              BY <6>1, <6>2
          <5>2. assigned_queues[s * threads_num_per_scheduler + i] # NoQueues
            BY <1>0, <5>1 DEF WakeupInv, QueuesAssigned
          <5> QED
            BY <1>8, <1>11, <3>1, <4>2, <5>2
        <4> QED
          BY <4>1, <4>2
      <3>2. CASE t # s
        <4>1. sch_not_first_run[t] \/ (spc[t] = "assign" /\ i < sw[t])
          BY <1>6, <2>2, <3>2
        <4>2. t \in Nat /\ t < scheduler_num
          BY <4>1, DispatchAssumption DEF WakeupInv, SchedulersStarted, Schedulers
        <4>3. t * threads_num_per_scheduler + i \in Threads
          BY <1>1, <4>2, NumberInTable
        <4>4. t * threads_num_per_scheduler + i # w
          BY <1>1, <1>2, <3>2, <4>2, NumberUnique
        <4>5. assigned_queues[t * threads_num_per_scheduler + i] # NoQueues
          BY <4>1 DEF WakeupInv, QueuesAssigned
        <4> QED
          BY <1>8, <4>3, <4>4, <4>5
      <3> QED
        BY <3>1, <3>2
    <2> QED
      BY <1>8, <2>1, <2>2 DEF QueuesAssigned, options
  <1>14. WokenWithQueues(w)'
    <2>1. assigned_queues[w] # NoQueues => assigned_queues[w] = QueuesFor(s, n)
      <3> SUFFICES ASSUME assigned_queues[w] # NoQueues PROVE assigned_queues[w] = QueuesFor(s, n)
        OBVIOUS
      <3>1. PICK t \in 0..(scheduler_num - 1), i \in 0..(threads_num_per_scheduler - 1) :
                /\ w = t * threads_num_per_scheduler + i
                /\ assigned_queues[w] = QueuesFor(t, i)
        BY DEF WakeupInv, QueuesAssigned
      <3>2. t = s /\ i = n
        <4>1. t \in Nat
          BY <1>1
        <4> QED
          BY <1>1, <1>2, <3>1, <4>1, NumberUnique
      <3> QED
        BY <3>1, <3>2
    <2> QED
      BY <1>3, <1>8, <1>12, <2>1 DEF WokenWithQueues, options
  <1>15. WorkerInStep(w)'
    BY <1>0, <1>2, <1>3, <1>8 DEF WorkerInStep, AtRest, options
  <1>16. SchedulerInStep(s, thd_id(s))'
    BY <1>7 DEF SchedulerInStep
  <1> QED
    BY <1>1, <1>2, <1>6, <1>8, <1>9, <1>10, <1>13, <1>14, <1>15, <1>16, SchedulerStep

\* The host starts the workers one after the other, whether or not the RPC that
\* initialises one has failed.
LEMMA HostInv ==
    ASSUME WakeupInv, Host \/ UNCHANGED vars
    PROVE  WakeupInv'
  <1>1. UNCHANGED <<dispatch, threads, hardware, scheds, options>>
    BY DEF Host, InitThread, InitThreadFails, RunThread, vars, host
  <1>2. WakeupTypeOK'
    <2>1. WakeupTypeOK /\ threads_num \in Nat /\ threads_num' = threads_num
      BY <1>1, Sizes DEF WakeupInv, options, threads_num
    <2>2. hi \in 0..threads_num /\ hi' \in 0..threads_num
      BY <2>1 DEF WakeupTypeOK, Host, InitThread, InitThreadFails, RunThread, vars, host
    <2>3. /\ cq_number' \in [Threads -> {0, 1}] /\ running' \in [Threads -> BOOLEAN]
          /\ hpc' \in {"init", "run"}
      BY <2>1 DEF WakeupTypeOK, Host, InitThread, InitThreadFails, RunThread, vars, host
    <2> QED
      BY <1>1, <2>1, <2>2, <2>3 DEF WakeupTypeOK, dispatch, threads, hardware, scheds, options
  <1>3. SchedulersStarted' /\ QueuesAssigned'
    BY <1>1 DEF WakeupInv, SchedulersStarted, QueuesAssigned, dispatch, scheds, options
  <1>4. \A s \in Schedulers : thd_id(s)' = thd_id(s)
    BY <1>1 DEF thd_id, scheds, options
  <1>5. ASSUME NEW w \in Threads PROVE WokenWithQueues(w)' /\ WorkerInStep(w)'
    <2>1. WokenWithQueues(w)'
      BY <1>1 DEF WakeupInv, WokenWithQueues, dispatch, threads, hardware, options
    <2>2. WorkerInStep(w)'
      BY <1>1, <1>4 DEF WakeupInv, WorkerInStep, AtRest, dispatch, threads, hardware, scheds, options
    <2> QED
      BY <2>1, <2>2
  <1>6. ASSUME NEW s \in Schedulers PROVE SchedulerInStep(s, thd_id(s))'
    BY <1>1, <1>4 DEF WakeupInv, SchedulerInStep, AtRest, dispatch, threads, hardware, scheds, options
  <1> QED
    BY <1>2, <1>3, <1>5, <1>6 DEF WakeupInv

\* Every step of the host, of a scheduler and of a worker keeps the invariant.
LEMMA NextWakeupInv == WakeupInv /\ [Next]_vars => WakeupInv'
  <1> SUFFICES ASSUME WakeupInv, [Next]_vars PROVE WakeupInv'
    OBVIOUS
  <1>1. CASE Host \/ UNCHANGED vars
    BY <1>1, HostInv
  <1>2. ASSUME NEW s \in Schedulers, Scheduler(s) PROVE WakeupInv'
    BY <1>2, ActivateInv, AssignWorkerInv, LoadStatusInv, LookUpCqInv, SendMsixInv, StoreHangInv, NextRoundInv
       DEF Scheduler, CheckWorkers
  <1>3. ASSUME NEW w \in Threads, Worker(w) PROVE WakeupInv'
    BY <1>3, EnterInv, FirstLoadInv, StoreFreeInv, SpinOnStatusInv, FetchQueuesInv, AcquireOkInv,
       AcquireFailInv, BatchEndInv, ArmCqInv, StoreOffInv, RescheduleThreadInv
       DEF Worker, Dispatched
  <1> QED
    BY <1>1, <1>2, <1>3 DEF Next

\* The invariant of the dispatch, for every command line that the tables have
\* room for.
LEMMA WakeupInvariant == Spec => []WakeupInv
  BY InitWakeupInv, NextWakeupInv, PTL DEF Spec

-----------------------------------------------------------------------------
(* What the dispatch promises                                              *)

\* The handshake's state stays in its type; no scheduler leaves the tables of
\* its own workers and queues.
THEOREM WakeupTypeCorrect == Spec => []WakeupTypeOK
  <1>1. WakeupInv => WakeupTypeOK
    BY DEF WakeupInv
  <1> QED
    BY <1>1, WakeupInvariant, PTL

\* No worker polls a queue pointer that sch_assign_workers has not stored, and
\* no queue is polled by two workers (flexio_pp_dev_32), whatever the number of
\* schedulers and workers.
THEOREM QueuesExclusive == Spec => []QueueExclusive
  <1>1. WakeupInv => QueueExclusive
    <2> SUFFICES ASSUME WakeupInv PROVE QueueExclusive
      OBVIOUS
    <2>1. ASSUME NEW w \in Threads, wpc[w] = "poll"
          PROVE  \E s \in 0..(scheduler_num - 1), i \in 0..(threads_num_per_scheduler - 1) :
                     /\ w = s * threads_num_per_scheduler + i
                     /\ rq_queues[w] = QueuesFor(s, i)
      BY <2>1 DEF WakeupInv, QueuesAssigned, WokenWithQueues
    <2>2. ASSUME NEW w \in Threads, wpc[w] = "poll", NEW q \in Slots,
                 NEW v \in Threads, Polls(v, rq_queues[w][q])
          PROVE  v = w
      <3>1. PICK s \in 0..(scheduler_num - 1), i \in 0..(threads_num_per_scheduler - 1) :
                /\ w = s * threads_num_per_scheduler + i
                /\ rq_queues[w] = QueuesFor(s, i)
        BY <2>1, <2>2
      <3>2. PICK t \in 0..(scheduler_num - 1), j \in 0..(threads_num_per_scheduler - 1) :
                /\ v = t * threads_num_per_scheduler + j
                /\ rq_queues[v] = QueuesFor(t, j)
        BY <2>1, <2>2 DEF Polls
      <3>3. PICK r \in Slots : QueuesFor(t, j)[r] = QueuesFor(s, i)[q]
        BY <2>2, <3>1, <3>2 DEF Polls
      <3>4. <<t, j * 2 + r>> = <<s, i * 2 + q>>
        BY <3>3 DEF QueuesFor, WORKER_QUEUES_PER_THREAD
      <3>5. t = s /\ j = i
        BY <3>4, Sizes DEF WakeupInv, Slots, WORKER_QUEUES_PER_THREAD
      <3> QED
        BY <3>1, <3>2, <3>5
    <2>3. ASSUME NEW w \in Threads, wpc[w] = "poll", NEW q \in Slots
          PROVE  rq_queues[w][q] \in QueuesInUse
      BY <2>1, <2>3, QueuesForExist DEF WakeupInv
    <2> QED
      BY <2>2, <2>3 DEF QueueExclusive
  <1> QED
    BY <1>1, WakeupInvariant, PTL

\* With buffers on the DPA heap a sleeping worker is about to be entered, or is
\* on offer with its wakeup CQ armed: worker_sleep loses no wakeup.
THEOREM SleepersCanBeWoken == Spec => []SleeperCanBeWoken
  <1>1. WakeupInv => SleeperCanBeWoken
    BY DEF WakeupInv, WakeupTypeOK, WorkerInStep, AtRest, SleeperCanBeWoken
  <1> QED
    BY <1>1, WakeupInvariant, PTL

\* sch_check_workers raises no event for a worker that is at work, although it
\* decides on a status it loaded some steps before.
THEOREM OnlySleepersWoken == Spec => []WakeOnlySleeper
  <1>1. WakeupInv => WakeOnlySleeper
    BY DEF WakeupInv, WakeupTypeOK, WorkerInStep, WakeOnlySleeper
  <1> QED
    BY <1>1, WakeupInvariant, PTL
=============================================================================
