----------------------------- MODULE PacketRing -----------------------------
(***************************************************************************)
(* One receive queue with its completion queue and send queue, worked by   *)
(* one thread (pp_queue and its variants) against the NIC.  A packet is    *)
(* processed where it was received and sent from there: the send entry     *)
(* points to the receive buffer, which is posted again at once.            *)
(*                                                                         *)
(* The NIC is external.  It receives into the buffers in ring order as     *)
(* long as one is posted, writes a completion with its ownership bit, and  *)
(* reads send entries and their buffers some time after the doorbell.      *)
(* Packets are numbered in the order of arrival.  A completion carries its *)
(* number in 16 bits (CounterMod); the 32-bit indices are not wrapped: each*)
(* is used only modulo a ring size that divides 2^32.                      *)
(***************************************************************************)
EXTENDS Integers, Sequences

CONSTANTS
    DEPTH,         \* Q_DEPTH, the number of entries of every ring
    CounterMod,    \* 2^16, the range of wqe_counter
    MaxPackets,    \* bound on the packets received
    SendsInTime    \* the NIC is never behind with sending by as many packets as
                   \* it has receive buffers left when it receives one

ASSUME RingAssumption ==
    /\ DEPTH \in Nat \ {0}
    /\ CounterMod \in Nat \ {0} /\ CounterMod % DEPTH = 0
    /\ MaxPackets \in Nat
    /\ SendsInTime \in BOOLEAN

SQE_NUM_SEGS == 4   \* segments of one send entry

Slots == 0..(DEPTH - 1)
Packets == 0..(MaxPackets - 1)

VARIABLES
    \* memory shared with the NIC
    data,            \* receive buffers: a packet, its MAC addresses swapped or not
    cq_ring,         \* completions: ownership bit and wqe_counter
    sq_ring,         \* send entries: the buffer each points to
    rq_dbr, cq_dbr,  \* doorbell records
    sq_db,           \* the producer index last rung
    \* the thread
    pc, rq_wqe_idx,
    cq_idx, cq_hw_owner_bit,        \* rq_cq_ctx
    sq_wqe_seg_idx, sq_pi,          \* sq_ctx
    \* the NIC: packets received, entries sent, and what went out
    received, sq_ci, sent

nicMemory == <<data, cq_ring>>
thread == <<pc, rq_wqe_idx, cq_idx, cq_hw_owner_bit, sq_wqe_seg_idx, sq_pi>>
doorbells == <<rq_dbr, cq_dbr, sq_db>>
nic == <<received, sq_ci, sent>>

vars == <<nicMemory, sq_ring, doorbells, thread, nic>>

NoPacket == [pkt |-> -1, swapped |-> FALSE]
NoBuffer == -1

\* The host: every completion entry is owned by the NIC ...
InitCq ==
    /\ cq_ring = [i \in Slots |-> [owner |-> 1, wqe_counter |-> 0]]
    /\ cq_dbr = 0

\* Mutant: one entry more than there are is posted.
InitRqOneMore ==
    /\ data = [b \in Slots |-> NoPacket]
    /\ rq_dbr = DEPTH + 1

\* ... and every receive entry is posted, entry i with buffer i.
InitRq ==
    /\ data = [b \in Slots |-> NoPacket]
    /\ rq_dbr = DEPTH

\* The queue's context on the device.
InitThread ==
    /\ pc = "poll"
    /\ rq_wqe_idx = 0
    /\ cq_idx = 0
    /\ cq_hw_owner_bit = 1
    /\ sq_wqe_seg_idx = 0
    /\ sq_pi = 0

Init ==
    /\ InitCq
    /\ InitRq
    /\ InitThread
    /\ sq_ring = [i \in Slots |-> NoBuffer]
    /\ sq_db = 0
    /\ received = 0
    /\ sq_ci = 0
    /\ sent = <<>>

-----------------------------------------------------------------------------
(***************************************************************************)
(* The NIC.                                                                *)
(***************************************************************************)
NicReceive ==
    /\ received < MaxPackets
    /\ received < rq_dbr
    /\ SendsInTime => sq_db - sq_ci < rq_dbr - received
    /\ data' = [data EXCEPT ![received % DEPTH] = [pkt |-> received, swapped |-> FALSE]]
    /\ cq_ring' = [cq_ring EXCEPT
           ![received % DEPTH] = [owner |-> (received \div DEPTH) % 2, wqe_counter |-> received % CounterMod]]
    /\ received' = received + 1
    /\ UNCHANGED <<sq_ring, doorbells, thread, sq_ci, sent>>

NicSend ==
    /\ sq_ci < sq_db
    /\ LET buffer == sq_ring[sq_ci % DEPTH]
       IN  sent' = Append(sent, IF buffer = NoBuffer THEN NoPacket ELSE data[buffer])
    /\ sq_ci' = sq_ci + 1
    /\ UNCHANGED <<nicMemory, sq_ring, doorbells, thread, received>>

-----------------------------------------------------------------------------
(***************************************************************************)
(* The thread.                                                             *)
(***************************************************************************)
CurrentCqe == cq_ring[cq_idx % DEPTH]

HasCompletion == CurrentCqe.owner # cq_hw_owner_bit

\* Mutant: the completion's counter is used as an index without RQ_IDX_MASK.
TakeUnmasked ==
    /\ pc = "poll"
    /\ HasCompletion
    /\ rq_wqe_idx' = CurrentCqe.wqe_counter
    /\ pc' = "work"
    /\ UNCHANGED <<nicMemory, sq_ring, doorbells, cq_idx, cq_hw_owner_bit, sq_wqe_seg_idx, sq_pi, nic>>

\* The completion is read: which receive entry, and so which buffer.
TakeCompletion ==
    /\ pc = "poll"
    /\ HasCompletion
    /\ rq_wqe_idx' = CurrentCqe.wqe_counter % DEPTH
    /\ pc' = "work"
    /\ UNCHANGED <<nicMemory, sq_ring, doorbells, cq_idx, cq_hw_owner_bit, sq_wqe_seg_idx, sq_pi, nic>>

\* pp_swap_mac_fast, in place; what else the workload does stays in the
\* thread or goes to a buffer of its own.
Workload ==
    /\ pc = "work"
    /\ data' = [data EXCEPT ![rq_wqe_idx].swapped = ~@]
    /\ pc' = "write_sqe"
    /\ UNCHANGED <<cq_ring, sq_ring, doorbells, rq_wqe_idx, cq_idx, cq_hw_owner_bit, sq_wqe_seg_idx,
                   sq_pi, nic>>

\* Mutant: the segment index is masked as if it counted entries (CQ_IDX_MASK).
SqeOfEntryMask(seg_idx) == (seg_idx % DEPTH) \div SQE_NUM_SEGS

\* The entry that holds the segment with a given index.
SqeOf(seg_idx) == (seg_idx % (SQE_NUM_SEGS * DEPTH)) \div SQE_NUM_SEGS

\* The data segment, third of its entry, is pointed to the receive buffer.
WriteSqe ==
    /\ pc = "write_sqe"
    /\ sq_ring' = [sq_ring EXCEPT ![SqeOf(sq_wqe_seg_idx + 2)] = rq_wqe_idx]
    /\ sq_wqe_seg_idx' = sq_wqe_seg_idx + 4
    /\ pc' = "ring_sq"
    /\ UNCHANGED <<nicMemory, doorbells, rq_wqe_idx, cq_idx, cq_hw_owner_bit, sq_pi, nic>>

\* Mutant: the doorbell is rung with the index before its increment.
RingSqPostIncrement ==
    /\ pc = "ring_sq"
    /\ sq_pi' = sq_pi + 1
    /\ sq_db' = sq_pi
    /\ pc' = "repost"
    /\ UNCHANGED <<nicMemory, sq_ring, rq_dbr, cq_dbr, rq_wqe_idx, cq_idx, cq_hw_owner_bit,
                   sq_wqe_seg_idx, nic>>

\* The doorbell is rung with ++sq_pi.
RingSq ==
    /\ pc = "ring_sq"
    /\ sq_pi' = sq_pi + 1
    /\ sq_db' = sq_pi + 1
    /\ pc' = "repost"
    /\ UNCHANGED <<nicMemory, sq_ring, rq_dbr, cq_dbr, rq_wqe_idx, cq_idx, cq_hw_owner_bit,
                   sq_wqe_seg_idx, nic>>

\* flexio_dev_dbr_rq_inc_pi
Repost ==
    /\ pc = "repost"
    /\ rq_dbr' = rq_dbr + 1
    /\ pc' = "step_cq"
    /\ UNCHANGED <<nicMemory, sq_ring, cq_dbr, sq_db, rq_wqe_idx, cq_idx, cq_hw_owner_bit,
                   sq_wqe_seg_idx, sq_pi, nic>>

\* Mutant: the wrap-around is tested before the index is advanced.
StepCqLateWrap ==
    /\ pc = "step_cq"
    /\ cq_idx' = cq_idx + 1
    /\ cq_hw_owner_bit' = IF cq_idx % DEPTH = 0 THEN 1 - cq_hw_owner_bit ELSE cq_hw_owner_bit
    /\ cq_dbr' = cq_idx'
    /\ pc' = "poll"
    /\ rq_wqe_idx' = 0
    /\ UNCHANGED <<nicMemory, sq_ring, rq_dbr, sq_db, sq_wqe_seg_idx, sq_pi, nic>>

\* com_step_cq
StepCq ==
    /\ pc = "step_cq"
    /\ cq_idx' = cq_idx + 1
    /\ cq_hw_owner_bit' = IF cq_idx' % DEPTH = 0 THEN 1 - cq_hw_owner_bit ELSE cq_hw_owner_bit
    /\ cq_dbr' = cq_idx'
    /\ pc' = "poll"
    /\ rq_wqe_idx' = 0
    /\ UNCHANGED <<nicMemory, sq_ring, rq_dbr, sq_db, sq_wqe_seg_idx, sq_pi, nic>>

-----------------------------------------------------------------------------
Thread == TakeCompletion \/ Workload \/ WriteSqe \/ RingSq \/ Repost \/ StepCq

Next == NicReceive \/ NicSend \/ Thread

Spec == Init /\ [][Next]_vars

\* The NIC sends what has been rung; the thread, when its tenant is not
\* restricted, comes back to the queue.
FairSpec == Spec /\ WF_vars(Thread) /\ WF_vars(NicSend)

-----------------------------------------------------------------------------
\* Every index stays inside its ring: the completion names a receive entry, the
\* send entries point to receive buffers, and the NIC has not received more
\* packets than it may.
RingTypeOK ==
    /\ data \in [Slots -> [pkt : Packets \cup {-1}, swapped : BOOLEAN]]
    /\ cq_ring \in [Slots -> [owner : {0, 1}, wqe_counter : 0..(CounterMod - 1)]]
    /\ sq_ring \in [Slots -> Slots \cup {NoBuffer}]
    /\ rq_dbr \in Nat /\ cq_dbr \in Nat /\ sq_db \in Nat
    /\ pc \in {"poll", "work", "write_sqe", "ring_sq", "repost", "step_cq"}
    /\ rq_wqe_idx \in Slots
    /\ cq_idx \in Nat /\ cq_hw_owner_bit \in {0, 1}
    /\ sq_wqe_seg_idx \in Nat /\ sq_pi \in Nat
    /\ received \in 0..MaxPackets /\ sq_ci \in Nat
    /\ sent \in Seq([pkt : Packets \cup {-1}, swapped : BOOLEAN])

\* The ownership bit tells the truth: a thread that polls sees a completion
\* exactly when there is one it has not taken, across every wrap of the ring,
\* and it is the one of the next packet.
OwnerBitTruthful ==
    pc = "poll" =>
        /\ HasCompletion <=> cq_idx < received
        /\ HasCompletion => CurrentCqe.wqe_counter = cq_idx % CounterMod

\* Every packet that goes out is the next one that came in, with its MAC
\* addresses swapped, and nothing else is sent.
ReturnedIntact ==
    \A i \in 1..Len(sent) : sent[i] = [pkt |-> i - 1, swapped |-> TRUE]

\* The NIC never writes over a completion that the thread has still to read.
\* Because the buffer is posted again before the entry is released, it may be
\* one completion ahead of the ring in between, but only over the entry that
\* the thread is about to leave.
CompletionReadInTime == received - cq_idx <= DEPTH + (IF pc = "step_cq" THEN 1 ELSE 0)

Queue == INSTANCE Reflector WITH
    Capacity <- DEPTH,
    arrived  <- received,
    returned <- sent

\* Rings, ownership bits, doorbells and the reuse of receive buffers for
\* sending together are a queue of DEPTH places that returns every packet
\* once, in order, swapped, and sooner or later does return it.
Reflects == Queue!RFairSpec

-----------------------------------------------------------------------------
(***************************************************************************)
(* What makes the invariants above inductive (proved in RingProofs).       *)
(***************************************************************************)
\* How many packets the thread has got past the steps before the given places.
Past(places) == cq_idx + (IF pc \in places THEN 1 ELSE 0)

Swapped == Past({"write_sqe", "ring_sq", "repost", "step_cq"})
Written == Past({"ring_sq", "repost", "step_cq"})
Rung == Past({"repost", "step_cq"})
Reposted == Past({"step_cq"})

IndicesInStep ==
    /\ sq_wqe_seg_idx = SQE_NUM_SEGS * Written
    /\ sq_pi = Rung /\ sq_db = Rung
    /\ rq_dbr = DEPTH + Reposted
    /\ cq_hw_owner_bit = 1 - ((cq_idx \div DEPTH) % 2)
    /\ pc # "poll" => rq_wqe_idx = cq_idx % DEPTH /\ cq_idx < received
    /\ cq_idx <= received /\ received <= rq_dbr
    /\ sq_ci <= sq_db
    /\ Len(sent) = sq_ci

\* Packets whose entries in the rings the NIC has not used again.
LastLap == {k \in 0..(received - 1) : received <= k + DEPTH}

CompletionsInPlace ==
    /\ \A k \in LastLap :
           cq_ring[k % DEPTH] = [owner |-> (k \div DEPTH) % 2, wqe_counter |-> k % CounterMod]
    /\ \A i \in Slots : received <= i => cq_ring[i].owner = 1

BuffersInPlace == \A k \in LastLap : data[k % DEPTH] = [pkt |-> k, swapped |-> k < Swapped]

EntriesInPlace == \A k \in 0..(Written - 1) : sq_ring[k % DEPTH] = k % DEPTH

NotOverrun == SendsInTime => received <= sq_ci + DEPTH /\ ReturnedIntact

RingInv ==
    RingTypeOK /\ IndicesInStep /\ CompletionsInPlace /\ BuffersInPlace /\ EntriesInPlace /\ NotOverrun
=============================================================================
