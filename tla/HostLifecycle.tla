--------------------------- MODULE HostLifecycle ----------------------------
(***************************************************************************)
(* The host program: it creates what the device needs in a fixed order,    *)
(* starts the scheduler and worker handlers, waits for a key, and releases *)
(* everything in another fixed order.  Any creation may fail; depending on *)
(* the place the failure ends the program, starts the clean-up with or     *)
(* without an error status, or goes unnoticed.  The clean-up runs over     *)
(* whatever has been created by then, guided by the pointers and flags of  *)
(* app_context, thread_context and flexio_queues.                          *)
(*                                                                         *)
(* Each C function is given as the sequence of its steps (what it makes,   *)
(* copies or sets, in the order of the code) and its clean-up counterpart  *)
(* as the sequence of its releases; the actions carry them out.  One       *)
(* action is one call from main, cut short where a step fails.             *)
(***************************************************************************)
EXTENDS Integers, Sequences, FiniteSets, SequencesExt

CONSTANTS
    Options,                 \* what the command line (and use_copy) may say
    MAX_SCHEDULER_QUEUES,    \* 64
    EUS_PER_CORE,            \* 16
    MAC_LOW,                 \* 2^16, range of dmac_15_0
    DMAC,                    \* first destination address
    Q_DATA_BSIZE, SPEED_RESULT_SIZE, NVME_QUEUE_MEMORY_SIZE, CACHELINE,
    MaxIgnored               \* bound on failures that main does not look at

\* worker_given: argc > 6; without it begin_worker is 16 and buffer_location 0.
\* use_copy is a global of main that is set in the source.
OptionRecords ==
    [scheduler_num : Nat \ {0}, threads_num_per_scheduler : Nat \ {0},
     begin_schedr : Nat, begin_worker : Nat, worker_given : BOOLEAN,
     buffer_location : {0, 1}, use_copy : {0, 1}]

ASSUME HostAssumption ==
    /\ Options \subseteq OptionRecords
    /\ \A o \in Options : ~o.worker_given => o.begin_worker = EUS_PER_CORE /\ o.buffer_location = 0
    /\ MAX_SCHEDULER_QUEUES \in Nat /\ MaxIgnored \in Nat /\ DMAC \in Nat
    /\ {EUS_PER_CORE, MAC_LOW, Q_DATA_BSIZE, SPEED_RESULT_SIZE,
        NVME_QUEUE_MEMORY_SIZE, CACHELINE} \subseteq Nat \ {0}

WORKER_QUEUES_PER_THREAD == 2

-----------------------------------------------------------------------------
(***************************************************************************)
(* Contexts, their fields, and what a resource is built on.  A field is    *)
(* <<kind, index, queue, name>>; a resource bears the name of the field it *)
(* was created for, also when another field points to it later.            *)
(***************************************************************************)
NULL == <<"NULL", 0, 0, "NULL">>

App(name) == <<"app", 0, 0, name>>
Of(c, name) == <<c[1], c[2], 0, name>>
OfQueue(c, j, name) == <<c[1], c[2], j, name>>
Matcher(dir, name) == <<dir, 0, 0, name>>

Owner(f) == <<f[1], f[2]>>
Name(f) == f[4]

threads_num(o) == o.threads_num_per_scheduler * o.scheduler_num
scheduler_queue_count(o) == o.threads_num_per_scheduler * WORKER_QUEUES_PER_THREAD

\* sch_ctx[] and thd_ctx[].
SchCtx(o) == [i \in 1..o.scheduler_num |-> <<"sch", i - 1>>]
ThdCtx(o) == [i \in 1..threads_num(o) |-> <<"thd", i - 1>>]

num_queues(o, c) == IF c[1] = "sch" THEN scheduler_queue_count(o) ELSE 1

\* Fields of the same queue that the attributes of a resource name.
QueueParts(name) ==
    CASE name \in {"flexio_rq_cq_ptr"} -> {"rq_cq_dbr_daddr", "rq_cq_ring_daddr"}
      [] name \in {"flexio_sq_cq_ptr"} -> {"sq_cq_dbr_daddr", "sq_cq_ring_daddr"}
      [] name = "rqd_mkey" -> {"rq_wqd_daddr"}
      [] name = "sqd_mkey" -> {"sq_wqd_daddr"}
      [] name = "flexio_rq_ptr" -> {"flexio_rq_cq_ptr", "rq_wq_ring_daddr",
                                    "rq_wq_dbr_daddr", "rqd_mkey"}
      [] name = "flexio_sq_ptr" -> {"flexio_sq_cq_ptr", "sq_wq_ring_daddr"}
      [] name = "rx_action" -> {"flexio_rq_ptr"}     \* the TIR of the RQ
      [] name = "rx_rule" -> {"rx_action"}
      [] name = "tx_rule" -> {"tx_action"}
      [] name = "tx_rule2" -> {"tx_action2"}
      [] OTHER -> {}

\* The SDK's reference system: what must outlive resource r.
BuiltOn(r) ==
    {OfQueue(Owner(r), r[3], n) : n \in QueueParts(Name(r))}
    \cup CASE Name(r) \in {"process_pd", "flexio_process", "dr_domain"} -> {App("ibv_ctx")}
           [] Name(r) = "flexio_window" -> {App("flexio_process"), App("process_pd")}
           [] Name(r) = "mr" -> {App("process_pd"), Of(Owner(r), "host_alloc_base")}
           [] Name(r) \in {"ibv_ctx", "host_alloc_base"} -> {}
           [] Name(r) \in {"dr_table_root", "dr_table_sws"} -> {Matcher(r[1], "dr_domain")}
           [] Name(r) = "dr_matcher_root" -> {Matcher(r[1], "dr_table_root")}
           [] Name(r) = "dr_matcher_sws" -> {Matcher(r[1], "dr_table_sws")}
           [] Name(r) = "rx_rule" -> {Matcher("rx", "dr_matcher_root")}
           [] Name(r) = "tx_rule" -> {Matcher("tx", "dr_matcher_root")}
           [] Name(r) = "tx_rule2" -> {Matcher("tx", "dr_matcher_sws")}
           [] Name(r) = "tx_action" -> {Matcher("tx", "dr_table_sws")}
           [] Name(r) = "tx_action2" -> {Matcher("tx", "dr_domain")}
           [] Name(r) = "rx_action" -> {}
           [] Name(r) = "flexio_rq_cq_ptr" ->
                 {App("flexio_process"), Of(Owner(r), "event_handler")}
           [] Name(r) \in {"rqd_mkey", "sqd_mkey", "flexio_rq_ptr", "flexio_sq_ptr"} ->
                 {App("flexio_process"), App("process_pd")}
           [] OTHER -> {App("flexio_process")}

-----------------------------------------------------------------------------
(***************************************************************************)
(* Steps of the creating functions.                                        *)
(***************************************************************************)
Make(f) == [do |-> "make", field |-> f, from |-> NULL, deref |-> NULL]
\* A step that may fail and makes nothing (copy, query, RPC).
Attempt == [do |-> "attempt", field |-> NULL, from |-> NULL, deref |-> NULL]
\* An assignment f = g, and setting a flag.
Point(f, g) == [do |-> "point", field |-> f, from |-> g, deref |-> NULL]
Flag(f) == [do |-> "flag", field |-> f, from |-> NULL, deref |-> NULL]
Run(c) == [do |-> "run", field |-> Of(c, "event_handler"), from |-> NULL, deref |-> NULL]
\* A creation that reads through the pointer p.
MakeThrough(p, f) == [Make(f) EXCEPT !.deref = p]

\* A call from main: what a failure of it leads to, whether it takes back what
\* it has made by then, and its steps.
Call(onfail, steps) == [onfail |-> onfail, undo |-> FALSE, steps |-> steps]
RuleCall(steps) == [onfail |-> "ignore", undo |-> TRUE, steps |-> steps]

\* The sequence op(0) \o ... \o op(n - 1).
Loop(n, op(_)) == FlattenSeq([i \in 1..n |-> op(i - 1)])

\* The memory stays mapped when its registration fails.
alloc_context_host_memory(o, c) ==
    LET queue(j) ==
            <<Point(OfQueue(c, j, "host_rq_buffer"), Of(c, "host_alloc_base")),
              Point(OfQueue(c, j, "host_sq_buffer"),
                    IF o.use_copy = 0 THEN OfQueue(c, j, "host_rq_buffer")
                                      ELSE Of(c, "host_alloc_base"))>>
    IN <<Make(Of(c, "host_alloc_base")), Make(Of(c, "mr"))>>
       \o (IF o.buffer_location = 1 THEN Loop(num_queues(o, c), queue) ELSE <<>>)

app_open_ibv_ctx == <<Make(App("ibv_ctx"))>>

create_dpa_mkey(c, j, name) == <<Make(OfQueue(c, j, name))>>

cq_mem_alloc(c, j, cq) ==
    CASE cq = "rq" -> <<Make(OfQueue(c, j, "rq_cq_dbr_daddr")), Make(OfQueue(c, j, "rq_cq_ring_daddr"))>>
      [] cq = "sq" -> <<Make(OfQueue(c, j, "sq_cq_dbr_daddr")), Make(OfQueue(c, j, "sq_cq_ring_daddr"))>>

rq_mem_alloc(o, c, j) ==
    (IF o.buffer_location = 0
     THEN <<Make(OfQueue(c, j, "rq_wqd_daddr"))>> \o create_dpa_mkey(c, j, "rqd_mkey") \o <<Attempt>>
     ELSE <<Point(OfQueue(c, j, "rq_wqd_daddr"), OfQueue(c, j, "host_rq_buffer")),
            Flag(OfQueue(c, j, "rq_data_on_host"))>>)
    \o <<Make(OfQueue(c, j, "rq_wq_ring_daddr")), Make(OfQueue(c, j, "rq_wq_dbr_daddr"))>>

sq_mem_alloc(o, c, j) ==
    (CASE o.use_copy = 0 ->
            <<Flag(OfQueue(c, j, "sq_data_reuses_rq")),
              Point(OfQueue(c, j, "sq_wqd_daddr"), OfQueue(c, j, "rq_wqd_daddr")),
              Point(OfQueue(c, j, "sqd_mkey"), OfQueue(c, j, "rqd_mkey"))>>
            \o IF o.buffer_location = 1 THEN <<Flag(OfQueue(c, j, "sq_data_on_host"))>> ELSE <<>>
       [] o.use_copy # 0 /\ o.buffer_location = 0 ->
            <<Make(OfQueue(c, j, "sq_wqd_daddr"))>> \o create_dpa_mkey(c, j, "sqd_mkey")
       [] o.use_copy # 0 /\ o.buffer_location # 0 ->
            <<Point(OfQueue(c, j, "sq_wqd_daddr"), OfQueue(c, j, "host_sq_buffer")),
              Flag(OfQueue(c, j, "sq_data_on_host"))>>)
    \o <<Make(OfQueue(c, j, "sq_wq_ring_daddr"))>>

\* Mutant: i <= num_queues.
CreateAppRqOneMore(o, c) ==
    Loop(num_queues(o, c) + 1, LAMBDA j : cq_mem_alloc(c, j, "rq") \o rq_mem_alloc(o, c, j))

\* init_dpa_rq_ring and init_rq_dbr fill what exists; either may fail.
create_app_rq(o, c) ==
    LET queue(j) == cq_mem_alloc(c, j, "rq") \o <<Make(OfQueue(c, j, "flexio_rq_cq_ptr"))>>
                    \o rq_mem_alloc(o, c, j)
                    \o <<Attempt, Make(OfQueue(c, j, "flexio_rq_ptr")), Attempt>>
    IN Loop(num_queues(o, c), queue)

create_app_sq(o, c) ==
    LET queue(j) == cq_mem_alloc(c, j, "sq") \o <<Make(OfQueue(c, j, "flexio_sq_cq_ptr"))>>
                    \o sq_mem_alloc(o, c, j) \o <<Make(OfQueue(c, j, "flexio_sq_ptr"))>>
    IN Loop(num_queues(o, c), queue)

copy_sch_data_to_dpa(c) == <<Make(Of(c, "app_data_daddr"))>>
copy_thd_data_to_dpa(c) == <<Make(Of(c, "app_data_daddr"))>>

\* The pointer to a matcher is returned once all its parts exist; the parts made
\* before a failure are not released.
create_flow_matcher_sw_steer_rx ==
    <<Make(Matcher("rx", "dr_domain")), Make(Matcher("rx", "dr_table_root")),
      Make(Matcher("rx", "dr_matcher_root"))>>

create_flow_matcher_sw_steer_tx ==
    <<Make(Matcher("tx", "dr_domain")), Make(Matcher("tx", "dr_table_root")),
      Make(Matcher("tx", "dr_matcher_root")), Make(Matcher("tx", "dr_table_sws")),
      Make(Matcher("tx", "dr_matcher_sws"))>>

create_matcher_rx == create_flow_matcher_sw_steer_rx \o <<Flag(App("rx_matcher"))>>
create_matcher_tx == create_flow_matcher_sw_steer_tx \o <<Flag(App("tx_matcher"))>>

create_flow_rule_rx(c, j) ==
    <<Make(OfQueue(c, j, "rx_action")),
      MakeThrough(App("rx_matcher"), OfQueue(c, j, "rx_rule"))>>

create_flow_rule_tx_table(c, j) ==
    <<MakeThrough(App("tx_matcher"), OfQueue(c, j, "tx_action")),
      MakeThrough(App("tx_matcher"), OfQueue(c, j, "tx_rule"))>>

create_flow_rule_tx(c, j) ==
    <<MakeThrough(App("tx_matcher"), OfQueue(c, j, "tx_action2")),
      MakeThrough(App("tx_matcher"), OfQueue(c, j, "tx_rule2"))>>

create_rule_rx_mac_match(c, j) ==
    create_flow_rule_rx(c, j) \o <<Flag(OfQueue(c, j, "rx_flow_rule"))>>

create_rule_tx_fwd_to_sws_table(c, j) ==
    create_flow_rule_tx_table(c, j) \o <<Flag(OfQueue(c, j, "tx_flow_rule"))>>

create_rule_tx_fwd_to_vport(c, j) ==
    create_flow_rule_tx(c, j) \o <<Flag(OfQueue(c, j, "tx_flow_rule2"))>>

\* Mutant: the rules of a queue are created together, or not at all.
SteerQueuesAtOnce(o, c) ==
    Loop(num_queues(o, c),
         LAMBDA j : <<RuleCall(create_rule_rx_mac_match(c, j)
                               \o create_rule_tx_fwd_to_sws_table(c, j)
                               \o create_rule_tx_fwd_to_vport(c, j))>>)

\* flexio_rq_get_tir and the three rules of every queue of a scheduler.
SteerQueues(o, c) ==
    LET queue(j) == <<Call("silent", <<Attempt>>),
                      RuleCall(create_rule_rx_mac_match(c, j)),
                      RuleCall(create_rule_tx_fwd_to_sws_table(c, j)),
                      RuleCall(create_rule_tx_fwd_to_vport(c, j))>>
    IN Loop(num_queues(o, c), queue)

\* Mutant: err is not set when create_app_sq fails.
CreateContextForgetsErr(o, c) ==
    <<Call("silent", <<Make(Of(c, "event_handler"))>>),
      Call("err", alloc_context_host_memory(o, c)),
      Call("err", create_app_rq(o, c)),
      Call("silent", create_app_sq(o, c))>>

CreateContext(o, c) ==
    <<Call("silent", <<Make(Of(c, "event_handler"))>>),
      Call("err", alloc_context_host_memory(o, c)),
      Call("err", create_app_rq(o, c)),
      Call("err", create_app_sq(o, c))>>

StartScheduler(c) == <<Call("err", copy_sch_data_to_dpa(c)), Call("err", <<Run(c)>>)>>

\* Mutant: the handler is run before its data is there.
RunBeforeCopy(c) == <<Call("err", <<Run(c)>>), Call("err", copy_thd_data_to_dpa(c))>>

\* The thd_ctx_init RPC, whose result main does not look at, comes in between.
StartWorker(c) ==
    <<Call("err", copy_thd_data_to_dpa(c)), Call("ignore", <<Attempt>>), Call("err", <<Run(c)>>)>>

\* The body of main from app_open_ibv_ctx to the wait for a key.
StartUp(o) ==
    LET scheduler(i) == CreateContext(o, SchCtx(o)[i + 1]) \o SteerQueues(o, SchCtx(o)[i + 1])
                        \o StartScheduler(SchCtx(o)[i + 1])
        worker(i) == CreateContext(o, ThdCtx(o)[i + 1]) \o StartWorker(ThdCtx(o)[i + 1])
    IN <<Call("quit", app_open_ibv_ctx),
         Call("err", <<Make(App("process_pd"))>>),
         Call("err", <<Make(App("flexio_process"))>>),
         Call("err", <<Make(App("flexio_window"))>>),
         Call("err", <<Make(App("stream"))>>),
         Call("ignore", create_matcher_rx),
         Call("ignore", create_matcher_tx)>>
       \o Loop(o.scheduler_num, scheduler) \o Loop(threads_num(o), worker)

-----------------------------------------------------------------------------
(***************************************************************************)
(* Releases of the clean-up.  A release is made when the pointer it goes   *)
(* through is set and none of its flags is; those of one destroy function  *)
(* end at the first that is refused.                                       *)
(***************************************************************************)
Free(f) == [field |-> f, via |-> f, unless |-> {}, after |-> {}]
FreeUnless(f, flags) == [Free(f) EXCEPT !.unless = flags]
FreeThrough(p, f, after) == [field |-> f, via |-> p, unless |-> {}, after |-> after]

destroy_rule(c, j, p, rule, action) ==
    <<FreeThrough(OfQueue(c, j, p), OfQueue(c, j, rule), {}),
      FreeThrough(OfQueue(c, j, p), OfQueue(c, j, action), {OfQueue(c, j, rule)})>>

destroy_rules(c, j) ==
    destroy_rule(c, j, "rx_flow_rule", "rx_rule", "rx_action")
    \o destroy_rule(c, j, "tx_flow_rule", "tx_rule", "tx_action")
    \o destroy_rule(c, j, "tx_flow_rule2", "tx_rule2", "tx_action2")

\* Mutant: the domain first, which ends the function.
DestroyDomainFirst(p, dir) ==
    <<FreeThrough(App(p), Matcher(dir, "dr_domain"), {})>>

destroy_matcher(p, dir) ==
    LET parts == <<"dr_matcher_root", "dr_table_root", "dr_matcher_sws", "dr_table_sws", "dr_domain">>
    IN [k \in 1..Len(parts) |->
          FreeThrough(App(p), Matcher(dir, parts[k]), {Matcher(dir, parts[l]) : l \in 1..(k - 1)})]

clean_up_app_rq(o, c) ==
    LET queue(j) ==
            <<Free(OfQueue(c, j, "flexio_rq_ptr")), Free(OfQueue(c, j, "rqd_mkey")),
              Free(OfQueue(c, j, "rq_wq_dbr_daddr")), Free(OfQueue(c, j, "rq_wq_ring_daddr")),
              FreeUnless(OfQueue(c, j, "rq_wqd_daddr"), {OfQueue(c, j, "rq_data_on_host")}),
              Free(OfQueue(c, j, "flexio_rq_cq_ptr")),
              Free(OfQueue(c, j, "rq_cq_ring_daddr")), Free(OfQueue(c, j, "rq_cq_dbr_daddr"))>>
    IN Loop(num_queues(o, c), queue)

\* Mutant: the send side always owns its data.
CleanUpSqOwnsData(o, c) ==
    LET queue(j) ==
            <<Free(OfQueue(c, j, "flexio_sq_ptr")), Free(OfQueue(c, j, "sqd_mkey")),
              Free(OfQueue(c, j, "sq_wq_ring_daddr")),
              FreeUnless(OfQueue(c, j, "sq_wqd_daddr"), {OfQueue(c, j, "sq_data_on_host")}),
              Free(OfQueue(c, j, "flexio_sq_cq_ptr")),
              Free(OfQueue(c, j, "sq_cq_ring_daddr")), Free(OfQueue(c, j, "sq_cq_dbr_daddr"))>>
    IN Loop(num_queues(o, c), queue)

clean_up_app_sq(o, c) ==
    LET queue(j) ==
            <<Free(OfQueue(c, j, "flexio_sq_ptr")),
              FreeUnless(OfQueue(c, j, "sqd_mkey"), {OfQueue(c, j, "sq_data_reuses_rq")}),
              Free(OfQueue(c, j, "sq_wq_ring_daddr")),
              FreeUnless(OfQueue(c, j, "sq_wqd_daddr"),
                         {OfQueue(c, j, "sq_data_on_host"), OfQueue(c, j, "sq_data_reuses_rq")}),
              Free(OfQueue(c, j, "flexio_sq_cq_ptr")),
              Free(OfQueue(c, j, "sq_cq_ring_daddr")), Free(OfQueue(c, j, "sq_cq_dbr_daddr"))>>
    IN Loop(num_queues(o, c), queue)

\* The part of main after the label cleanup.
CleanUp(o) ==
    LET data(cs) == [i \in 1..Len(cs) |-> Free(Of(cs[i], "app_data_daddr"))]
        rules(c) == Loop(num_queues(o, c), LAMBDA j : destroy_rules(c, j))
        queues(c) == clean_up_app_sq(o, c) \o clean_up_app_rq(o, c)
                     \o <<Free(Of(c, "event_handler"))>>
        each(cs, op(_)) == FlattenSeq([i \in 1..Len(cs) |-> op(cs[i])])
    IN data(ThdCtx(o)) \o data(SchCtx(o))
       \o each(SchCtx(o), rules) \o each(ThdCtx(o), rules)
       \o destroy_matcher("rx_matcher", "rx") \o destroy_matcher("tx_matcher", "tx")
       \o each(ThdCtx(o), queues) \o each(SchCtx(o), queues)
       \o <<Free(App("stream")), Free(App("flexio_window")), Free(App("flexio_process")),
            Free(App("ibv_ctx"))>>

\* Computed once for every choice of options.
StartUps == [o \in Options |-> StartUp(o)]
CleanUps == [o \in Options |-> CleanUp(o)]

-----------------------------------------------------------------------------
(***************************************************************************)
(* Numbers the calls pass on: layout of a context's host memory, address   *)
(* each queue is steered by, execution unit each handler is bound to.      *)
(***************************************************************************)
align_to_cacheline(size) == ((size + CACHELINE - 1) \div CACHELINE) * CACHELINE

extra_host_buffer_size(c) == IF c[1] = "thd" THEN NVME_QUEUE_MEMORY_SIZE ELSE 0

\* Data buffers of one queue in host memory.
buffers_per_queue(o) == IF o.use_copy = 1 THEN 2 ELSE 1

\* Mutant: room for the receive side only.
RoomForReceiveOnly(o, c) == IF o.buffer_location = 1 THEN num_queues(o, c) ELSE 0

queue_buffer_count(o, c) ==
    IF o.buffer_location = 1 THEN num_queues(o, c) * buffers_per_queue(o) ELSE 0

mmap_size(o, c) ==
    align_to_cacheline(queue_buffer_count(o, c) * Q_DATA_BSIZE
                       + SPEED_RESULT_SIZE + extra_host_buffer_size(c))

\* The cursor after the buffers of j queues.
cursor(o, j) == IF o.buffer_location = 1 THEN j * buffers_per_queue(o) * Q_DATA_BSIZE ELSE 0

Region(name, first, size) == [name |-> name, first |-> first, last |-> first + size - 1]

\* What the pointers of a context mark off in its host memory.
HostRegions(o, c) ==
    LET all == cursor(o, num_queues(o, c))
        queues == IF o.buffer_location = 1 THEN 0..(num_queues(o, c) - 1) ELSE {}
    IN {Region(<<"host_rq_buffer", j>>, cursor(o, j), Q_DATA_BSIZE) : j \in queues}
       \cup (IF o.use_copy = 1
             THEN {Region(<<"host_sq_buffer", j>>, cursor(o, j) + Q_DATA_BSIZE, Q_DATA_BSIZE) : j \in queues}
             ELSE {})
       \cup {Region(<<"result_buffer", 0>>, all, SPEED_RESULT_SIZE)}
       \cup (IF c[1] = "thd"
             THEN {Region(<<"host_buffer", 0>>, all + SPEED_RESULT_SIZE, NVME_QUEUE_MEMORY_SIZE)}
             ELSE {})

\* Mutant: consecutive schedulers, not consecutive blocks of queues.
DmacUnscaled(o, i, j) == DMAC + i + j

cur_dmac(o, i, j) == DMAC + i * scheduler_queue_count(o) + j

\* dmac_47_16 and dmac_15_0 of a rule's match value.
MatchValue(dmac) == <<dmac \div MAC_LOW, dmac % MAC_LOW>>

affinity_id(o, c) == IF c[1] = "sch" THEN o.begin_schedr + c[2] ELSE c[2] + o.begin_worker

-----------------------------------------------------------------------------
VARIABLES
    options,     \* the globals main reads from the command line
    phase,       \* "args", "build", "clean", "returned" or "crashed"
    at,          \* next call of the start-up, or next release of the clean-up
    live,        \* resources that exist
    ptr,         \* fields that are not 0, with the resource they point to
    running,     \* handlers that have been run
    err,         \* main's status
    ignored      \* failures main went on after

vars == <<options, phase, at, live, ptr, running, err, ignored>>

Init ==
    /\ options \in Options
    /\ phase = "args" /\ at = 1
    /\ live = {} /\ ptr = <<>> /\ running = {}
    /\ err = 0 /\ ignored = 0

IsSet(f) == f \in DOMAIN ptr

call == StartUps[options][at]
release == CleanUps[options][at]

\* The fields p with field f pointing to r.
Assign(p, f, r) == [g \in DOMAIN p \cup {f} |-> IF g = f THEN r ELSE p[g]]

\* The effect of a step that succeeds.
Do(st, s) ==
    CASE s.do = "make"    -> [st EXCEPT !.live = @ \cup {s.field}, !.ptr = Assign(@, s.field, s.field)]
      [] s.do = "attempt" -> st
      [] s.do = "point"   -> IF s.from \in DOMAIN st.ptr
                             THEN [st EXCEPT !.ptr = Assign(@, s.field, st.ptr[s.from])] ELSE st
      [] s.do = "flag"    -> [st EXCEPT !.ptr = Assign(@, s.field, s.field)]
      [] s.do = "run"     -> [st EXCEPT !.running = @ \cup {Owner(s.field)}]

\* What there is after the first k steps of the call.
AfterSteps(k) ==
    LET after[i \in 0..k] == IF i = 0 THEN [live |-> live, ptr |-> ptr, running |-> running]
                             ELSE Do(after[i - 1], call.steps[i])
    IN after[k]

Become(st) == live' = st.live /\ ptr' = st.ptr /\ running' = st.running

\* Steps that read through a pointer that is 0.
BadSteps == {k \in DOMAIN call.steps :
                call.steps[k].deref # NULL /\ ~IsSet(call.steps[k].deref)}

\* A failure at step k of the call: the steps before it have been taken, unless
\* the function takes them back.
FailAt(k) ==
    /\ call.steps[k].do \in {"make", "attempt", "run"}
    /\ \A b \in BadSteps : k < b
    /\ Become(AfterSteps(IF call.undo THEN 0 ELSE k - 1))

-----------------------------------------------------------------------------
\* Mutant: rounded down to a whole core.
ArgumentsRoundedDown(o) ==
    /\ scheduler_queue_count(o) <= MAX_SCHEDULER_QUEUES
    /\ o.worker_given => o.begin_worker >= (o.scheduler_num \div EUS_PER_CORE) * EUS_PER_CORE

ArgumentsOk(o) ==
    /\ scheduler_queue_count(o) <= MAX_SCHEDULER_QUEUES
    /\ o.worker_given =>
         o.begin_worker >= ((o.scheduler_num + EUS_PER_CORE - 1) \div EUS_PER_CORE) * EUS_PER_CORE

\* The arguments are refused, a calloc fails, or the user is not root.
Refuse ==
    /\ phase = "args"
    /\ phase' = "returned" /\ err' = -1
    /\ UNCHANGED <<options, at, live, ptr, running, ignored>>

Accept ==
    /\ phase = "args" /\ ArgumentsOk(options)
    /\ phase' = "build"
    /\ UNCHANGED <<options, at, live, ptr, running, err, ignored>>

Building == phase = "build" /\ at <= Len(StartUps[options])

CallSucceeds ==
    /\ Building /\ BadSteps = {}
    /\ Become(AfterSteps(Len(call.steps)))
    /\ at' = at + 1
    /\ UNCHANGED <<options, phase, err, ignored>>

\* app_open_ibv_ctx: return -1.
FailAndQuit ==
    /\ Building /\ call.onfail = "quit"
    /\ \E k \in DOMAIN call.steps : FailAt(k)
    /\ phase' = "returned" /\ err' = -1
    /\ UNCHANGED <<options, at, ignored>>

\* err = -1; goto cleanup.
FailWithError ==
    /\ Building /\ call.onfail = "err"
    /\ \E k \in DOMAIN call.steps : FailAt(k)
    /\ phase' = "clean" /\ at' = 1 /\ err' = -1
    /\ UNCHANGED <<options, ignored>>

\* goto cleanup, err still 0.
FailSilently ==
    /\ Building /\ call.onfail = "silent"
    /\ \E k \in DOMAIN call.steps : FailAt(k)
    /\ phase' = "clean" /\ at' = 1
    /\ UNCHANGED <<options, err, ignored>>

\* main goes on.
FailIgnored ==
    /\ Building /\ call.onfail = "ignore"
    /\ ignored < MaxIgnored
    /\ \E k \in DOMAIN call.steps : FailAt(k)
    /\ at' = at + 1 /\ ignored' = ignored + 1
    /\ UNCHANGED <<options, phase, err>>

\* The functions that make matchers and rules assert that their callocs succeed.
Asserts == call.onfail = "ignore" /\ call.steps # <<Attempt>>

\* A null pointer is read, or an assertion fails; the program is killed.
Crash ==
    /\ Building
    /\ BadSteps # {} \/ Asserts
    /\ phase' = "crashed"
    /\ UNCHANGED <<options, at, live, ptr, running, err, ignored>>

KeyPressed ==
    /\ phase = "build" /\ at > Len(StartUps[options])
    /\ phase' = "clean" /\ at' = 1
    /\ UNCHANGED <<options, live, ptr, running, err, ignored>>

-----------------------------------------------------------------------------
Cleaning == phase = "clean" /\ at <= Len(CleanUps[options])

\* Whether the code asks for the next release at all.
Due ==
    /\ IsSet(release.via) /\ IsSet(release.field)
    /\ \A f \in release.unless : ~IsSet(f)
    /\ release.after \cap live = {}

Users(r) == {u \in live : r \in BuiltOn(u)}

\* Closing the device does not ask for references, every other release does.
Refused(r) == Name(r) # "ibv_ctx" /\ Users(r) # {}

Release ==
    /\ Cleaning
    /\ live' = IF Due /\ ~Refused(ptr[release.field]) THEN live \ {ptr[release.field]} ELSE live
    /\ running' = {c \in running : Of(c, "event_handler") \in live'}
    /\ at' = at + 1
    /\ UNCHANGED <<options, phase, ptr, err, ignored>>

Return ==
    /\ phase = "clean" /\ at > Len(CleanUps[options])
    /\ phase' = "returned"
    /\ UNCHANGED <<options, at, live, ptr, running, err, ignored>>

Next ==
    \/ Refuse \/ Accept \/ CallSucceeds
    \/ FailAndQuit \/ FailWithError \/ FailSilently \/ FailIgnored \/ Crash
    \/ KeyPressed \/ Release \/ Return

Spec == Init /\ [][Next]_vars

-----------------------------------------------------------------------------
(***************************************************************************)
(* Properties.                                                             *)
(***************************************************************************)
Contexts == Range(SchCtx(options)) \cup Range(ThdCtx(options))

InRange(f) ==
    \/ f[1] \in {"app", "rx", "tx"}
    \/ /\ f[2] < IF f[1] = "sch" THEN options.scheduler_num ELSE threads_num(options)
       /\ f[3] < num_queues(options, Owner(f))

\* Every resource and every field belongs to a context and a queue that main has
\* allocated, and fields point to resources that were created: no loop of the
\* start-up runs past its array.
HostTypeOK ==
    /\ options \in Options
    /\ phase \in {"args", "build", "clean", "returned", "crashed"}
    /\ at \in Nat \ {0} /\ err \in {0, -1} /\ ignored \in 0..MaxIgnored
    /\ running \subseteq Contexts
    /\ live \subseteq DOMAIN ptr
    /\ phase = "build" => \A f \in DOMAIN ptr : InRange(f) /\ (ptr[f] = f \/ ptr[f] \in live)

\* What main never releases: protection domain, memory regions and the mapped
\* memory, and the parts of a matcher whose creation failed half-way.
Kept(r) ==
    \/ Name(r) \in {"process_pd", "mr", "host_alloc_base"}
    \/ r[1] = "rx" /\ ~IsSet(App("rx_matcher"))
    \/ r[1] = "tx" /\ ~IsSet(App("tx_matcher"))

\* Wherever the start-up failed, the clean-up of main, clean_up_app_sq,
\* clean_up_app_rq, destroy_rule and destroy_matcher releases only what exists
\* (nothing twice, though fields of a queue can share a buffer and a key), never
\* hands host memory to flexio_buf_dev_free, and releases nothing that another
\* resource is still built on.
ReleasesAreSafe ==
    Cleaning /\ Due =>
        LET r == ptr[release.field] IN
        /\ r \in live
        /\ Name(r) # "host_alloc_base"
        /\ \A u \in Users(r) : Kept(u)

\* When main returns, everything it ever created has been released, but for the
\* protection domain, the memory regions with their memory, and the parts of a
\* matcher that could not be completed.
OnlyKeptRemain == phase = "returned" => \A r \in live : Kept(r)

TransferFields == {"rq_cq_dbr_daddr", "rq_cq_ring_daddr", "rq_wqd_daddr", "rq_wq_ring_daddr",
                   "rq_wq_dbr_daddr", "flexio_rq_ptr", "sq_cq_dbr_daddr", "sq_cq_ring_daddr",
                   "sq_wqd_daddr", "sq_wq_ring_daddr", "flexio_sq_ptr"}

\* A handler runs only once all the rings, buffers and queues its data names
\* exist and the data has been copied, and a worker only once all schedulers run.
HandlersStartComplete ==
    phase = "build" =>
        \A c \in running :
            /\ Of(c, "app_data_daddr") \in live
            /\ \A j \in 0..(num_queues(options, c) - 1), n \in TransferFields :
                  IsSet(OfQueue(c, j, n)) /\ ptr[OfQueue(c, j, n)] \in live
            /\ c[1] = "thd" => Range(SchCtx(options)) \subseteq running

\* main returns 0 only if no context was given up in the middle: a context whose
\* data never reached the device is one whose handler could not be created, or a
\* scheduler with all its queues that lacked a TIR (the failures for which main
\* jumps to the clean-up without setting err).
ZeroMeansNothingAbandoned ==
    phase = "returned" /\ err = 0 =>
        \A c \in Contexts :
            \/ IsSet(Of(c, "app_data_daddr"))
            \/ ~IsSet(Of(c, "event_handler"))
            \/ /\ c[1] = "sch"
               /\ \A j \in 0..(num_queues(options, c) - 1) : IsSet(OfQueue(c, j, "flexio_sq_ptr"))

MissingRules ==
    {OfQueue(c, j, n) : c \in {d \in running : d[1] = "sch"},
                        j \in 0..(scheduler_queue_count(options) - 1),
                        n \in {"rx_flow_rule", "tx_flow_rule", "tx_flow_rule2"}} \ DOMAIN ptr

\* main looks neither at its matchers nor at its rules.  Still, a scheduler that
\* runs lacks at most one rule for every failure that was passed over: a missing
\* matcher never leaves all queues without steering unnoticed.
OneFaultOneRule == Cardinality(MissingRules) <= ignored

\* Two queues, of one scheduler or of two, are never steered by the same address,
\* once it has been split into the two parts a rule matches.
SteeringOneToOne ==
    \A r1, r2 \in {r \in live : Name(r) = "rx_rule"} :
        MatchValue(cur_dmac(options, r1[2], r1[3])) = MatchValue(cur_dmac(options, r2[2], r2[3]))
            => r1 = r2

\* If main was told where the workers begin, and the schedulers begin at 0, no two
\* handlers are bound to the same execution unit.
UnitsDisjoint ==
    options.worker_given /\ options.begin_schedr = 0 =>
        \A h1, h2 \in {r \in live : Name(r) = "event_handler"} :
            affinity_id(options, Owner(h1)) = affinity_id(options, Owner(h2)) => h1 = h2

\* The buffers that alloc_context_host_memory marks off in a context's mapped
\* memory lie inside it and do not overlap, wherever the data is and whether or not
\* receive and send side share a buffer.
HostBuffersDisjoint ==
    \A r \in {r \in live : Name(r) = "mr"} :
        LET regions == HostRegions(options, Owner(r)) IN
        /\ \A a \in regions : a.last < mmap_size(options, Owner(r))
        /\ \A a, b \in regions : a # b => a.last < b.first \/ b.last < a.first
=============================================================================
