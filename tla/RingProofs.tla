----------------------------- MODULE RingProofs -----------------------------
(***************************************************************************)
(* Proofs about PacketRing, for rings of any depth and any number of       *)
(* packets: the ownership bit, the reuse of receive buffers for sending,   *)
(* and that the queue is a Reflector.                                      *)
(***************************************************************************)
EXTENDS PacketRing, TLAPS

-----------------------------------------------------------------------------
(* Indices into rings                                                      *)

\* Quotient and remainder of an index that is never negative.
LEMMA DivMod ==
    ASSUME NEW a \in Nat, NEW d \in Nat \ {0}
    PROVE  /\ a \div d \in Nat
           /\ a % d \in 0..(d - 1)
           /\ a = d * (a \div d) + (a % d)
  OBVIOUS

\* Every index is some laps and the rest of a lap.
LEMMA LapsAndRest ==
    ASSUME NEW a \in Nat, NEW d \in Nat \ {0}
    PROVE  \E q \in Nat, r \in 0..(d - 1) : a = d * q + r
  BY DivMod

\* A product that is not zero is at least as large as its factor.
LEMMA ProductAtLeast ==
    ASSUME NEW d \in Nat \ {0}, NEW k \in Nat \ {0}
    PROVE  d * k \in Nat /\ d <= d * k
  OBVIOUS

\* Quotient and remainder are unique.
LEMMA DivModUnique ==
    ASSUME NEW d \in Nat \ {0}, NEW q1 \in Nat, NEW q2 \in Nat,
           NEW r1 \in 0..(d - 1), NEW r2 \in 0..(d - 1),
           d * q1 + r1 = d * q2 + r2
    PROVE  q1 = q2 /\ r1 = r2
  <1>1. CASE q1 < q2
    <2>1. d <= d * (q2 - q1)
      BY <1>1, ProductAtLeast
    <2>2. d * (q2 - q1) = d * q2 - d * q1
      OBVIOUS
    <2>3. d * q1 \in Nat /\ d * q2 \in Nat
      OBVIOUS
    <2> QED
      BY <2>1, <2>2, <2>3
  <1>2. CASE q2 < q1
    <2>1. d <= d * (q1 - q2)
      BY <1>2, ProductAtLeast
    <2>2. d * (q1 - q2) = d * q1 - d * q2
      OBVIOUS
    <2>3. d * q1 \in Nat /\ d * q2 \in Nat
      OBVIOUS
    <2> QED
      BY <2>1, <2>2, <2>3
  <1>3. CASE q1 = q2
    <2>1. d * q1 \in Nat
      OBVIOUS
    <2> QED
      BY <1>3, <2>1
  <1> QED
    BY <1>1, <1>2, <1>3

\* Hence they can be read off any such sum.
LEMMA DivModIs ==
    ASSUME NEW d \in Nat \ {0}, NEW q \in Nat, NEW r \in 0..(d - 1), NEW a \in Nat, a = d * q + r
    PROVE  a \div d = q /\ a % d = r
  <1>1. /\ a \div d \in Nat
        /\ a % d \in 0..(d - 1)
        /\ a = d * (a \div d) + (a % d)
    BY DivMod
  <1>2. d * (a \div d) + (a % d) = d * q + r
    BY <1>1
  <1> QED
    BY <1>1, <1>2, DivModUnique

\* The entry after the last one of a ring is the first one, one lap later.
LEMMA NextIndex ==
    ASSUME NEW k \in Nat, NEW d \in Nat \ {0}
    PROVE  IF (k + 1) % d = 0 THEN (k + 1) \div d = (k \div d) + 1
                              ELSE (k + 1) \div d = k \div d
  <1>1. PICK q \in Nat, r \in 0..(d - 1) : k = d * q + r
    BY LapsAndRest
  <1>2. k \div d = q
    BY <1>1, DivModIs
  <1>3. d * q \in Nat /\ d * (q + 1) = d * q + d
    OBVIOUS
  <1>4. CASE r = d - 1
    <2>1. PICK p \in Nat, z \in 0..(d - 1) : p = q + 1 /\ z = 0 /\ k + 1 = d * p + z
      BY <1>1, <1>3, <1>4
    <2>2. k + 1 = d * p + z
      BY <2>1
    <2>3. (k + 1) \div d = p /\ (k + 1) % d = z
      BY <2>2, DivModIs
    <2> QED
      BY <1>2, <2>1, <2>3
  <1>5. CASE r # d - 1
    <2>1. r + 1 \in 0..(d - 1) /\ r + 1 # 0
      BY <1>5
    <2>2. k + 1 = d * q + (r + 1)
      BY <1>1, <1>3
    <2>3. (k + 1) \div d = q /\ (k + 1) % d = r + 1
      BY <2>1, <2>2, DivModIs
    <2> QED
      BY <1>2, <2>1, <2>3
  <1> QED
    BY <1>4, <1>5

\* Indices less than a lap apart belong to different entries.
LEMMA LapApart ==
    ASSUME NEW d \in Nat \ {0}, NEW j \in Nat, NEW k \in Nat, j < k, k < j + d
    PROVE  j % d # k % d
  <1> SUFFICES ASSUME j % d = k % d PROVE FALSE
    OBVIOUS
  <1>1. /\ j \div d \in Nat /\ j % d \in 0..(d - 1) /\ j = d * (j \div d) + (j % d)
        /\ k \div d \in Nat /\ k = d * (k \div d) + (k % d)
    BY DivMod
  <1>2. d * (j \div d) \in Nat /\ d * (k \div d) \in Nat
    BY <1>1
  <1>3. k - j = d * (k \div d) - d * (j \div d)
    BY <1>1, <1>2
  <1>4. d * (k \div d) - d * (j \div d) = d * ((k \div d) - (j \div d))
    BY <1>1
  <1>5. CASE k \div d > j \div d
    <2>1. d <= d * ((k \div d) - (j \div d))
      BY <1>1, <1>5, ProductAtLeast
    <2> QED
      BY <1>3, <1>4, <2>1
  <1>6. CASE k \div d <= j \div d
    <2>1. CASE k \div d = j \div d
      BY <1>2, <1>3, <2>1
    <2>2. CASE k \div d < j \div d
      <3>1. d <= d * ((j \div d) - (k \div d))
        BY <1>1, <2>2, ProductAtLeast
      <3>2. d * ((j \div d) - (k \div d)) = d * (j \div d) - d * (k \div d)
        BY <1>1
      <3> QED
        BY <1>2, <1>3, <3>1, <3>2
    <2> QED
      BY <1>1, <1>6, <2>1, <2>2
  <1> QED
    BY <1>1, <1>5, <1>6

\* An index a whole lap later belongs to the same entry.
LEMMA LapLater ==
    ASSUME NEW d \in Nat \ {0}, NEW k \in Nat
    PROVE  (k + d) % d = k % d /\ (k + d) \div d = (k \div d) + 1
  <1>1. PICK q \in Nat, r \in 0..(d - 1) : k = d * q + r
    BY LapsAndRest
  <1>2. k \div d = q /\ k % d = r
    BY <1>1, DivModIs
  <1>3. d * q \in Nat /\ d * (q + 1) = d * q + d
    OBVIOUS
  <1>4. k + d = d * (q + 1) + r
    BY <1>1, <1>3
  <1>5. (k + d) \div d = q + 1 /\ (k + d) % d = r
    BY <1>4, DivModIs
  <1> QED
    BY <1>2, <1>5

\* In the first lap the index is the entry.
LEMMA FirstLap ==
    ASSUME NEW d \in Nat \ {0}, NEW k \in 0..(d - 1)
    PROVE  k % d = k /\ k \div d = 0
  <1>1. PICK z \in Nat : z = 0 /\ k = d * z + k
    OBVIOUS
  <1> QED
    BY <1>1, DivModIs

\* Every index names an entry.
LEMMA InRing ==
    ASSUME NEW k \in Nat
    PROVE  k % DEPTH \in Slots
  BY DivMod, RingAssumption DEF Slots

\* wqe_counter names the right entry although it is cut to 16 bits.
LEMMA CounterNamesEntry ==
    ASSUME NEW k \in Nat
    PROVE  /\ k % CounterMod \in 0..(CounterMod - 1)
           /\ (k % CounterMod) % DEPTH = k % DEPTH
  <1>1. PICK q \in Nat, x \in 0..(CounterMod - 1) : k = CounterMod * q + x
    BY LapsAndRest, RingAssumption
  <1>2. k % CounterMod = x
    BY <1>1, DivModIs, RingAssumption
  <1>3. PICK m \in Nat : CounterMod = DEPTH * m
    <2>1. PICK m \in Nat, z \in 0..(DEPTH - 1) : CounterMod = DEPTH * m + z
      BY LapsAndRest, RingAssumption
    <2>2. z = 0
      BY <2>1, DivModIs, RingAssumption
    <2> QED
      BY <2>1, <2>2, RingAssumption
  <1>4. PICK p \in Nat, r \in 0..(DEPTH - 1) : x = DEPTH * p + r
    <2>1. x \in Nat
      BY RingAssumption
    <2> QED
      BY <2>1, LapsAndRest, RingAssumption
  <1>5. x % DEPTH = r
    BY <1>4, DivModIs, RingAssumption
  <1>6. k = DEPTH * (m * q + p) + r /\ m * q + p \in Nat
    <2>1. CounterMod * q = DEPTH * (m * q)
      BY <1>3, RingAssumption
    <2>2. m * q \in Nat
      OBVIOUS
    <2>3. DEPTH * (m * q + p) = DEPTH * (m * q) + DEPTH * p
      BY <2>2, RingAssumption
    <2>4. DEPTH * (m * q) \in Nat /\ DEPTH * p \in Nat
      BY <2>2, RingAssumption
    <2> QED
      BY <1>1, <1>4, <2>1, <2>2, <2>3, <2>4
  <1>7. k % DEPTH = r
    BY <1>6, DivModIs, RingAssumption
  <1> QED
    BY <1>2, <1>5, <1>7

\* The third of the four segments of packet k's send entry lies in entry
\* k % DEPTH.
LEMMA SegmentNamesEntry ==
    ASSUME NEW k \in Nat
    PROVE  SqeOf(SQE_NUM_SEGS * k + 2) = k % DEPTH
  <1>1. PICK q \in Nat, r \in 0..(DEPTH - 1) : k = DEPTH * q + r
    BY LapsAndRest, RingAssumption
  <1>2. k % DEPTH = r
    BY <1>1, DivModIs, RingAssumption
  <1>3. PICK d \in Nat \ {0}, x \in Nat, a \in Nat :
            /\ d = 4 * DEPTH /\ x = 4 * r + 2 /\ a = 4 * k + 2
            /\ x \in 0..(d - 1) /\ a = d * q + x
    <2>1. DEPTH * q \in Nat /\ (4 * DEPTH) * q = 4 * (DEPTH * q)
      BY RingAssumption
    <2>2. 4 * DEPTH \in Nat \ {0} /\ 4 * r + 2 \in 0..((4 * DEPTH) - 1)
      BY RingAssumption
    <2> QED
      BY <1>1, <2>1, <2>2, RingAssumption
  <1>4. a % d = x
    <2>1. x \in 0..(d - 1) /\ a = d * q + x
      BY <1>3
    <2> QED
      BY <2>1, DivModIs
  <1>5. (4 * r + 2) \div 4 = r
    OBVIOUS
  <1> QED
    BY <1>2, <1>3, <1>4, <1>5 DEF SqeOf, SQE_NUM_SEGS

-----------------------------------------------------------------------------
(* The inductive invariant                                                 *)

\* The host's rings and the device's context establish the invariant.
LEMMA InitRingInv == Init => RingInv
  <1> SUFFICES ASSUME Init PROVE RingInv
    OBVIOUS
  <1> USE RingAssumption DEF Init, InitCq, InitRq, InitThread
  <1>1. RingTypeOK
    BY DEF RingTypeOK, Slots, Packets, NoPacket, NoBuffer
  <1>2. IndicesInStep
    <2>1. 0 \div DEPTH = 0
      BY FirstLap
    <2> QED
      BY <2>1 DEF IndicesInStep, Past, Written, Rung, Reposted, SQE_NUM_SEGS
  <1>3. CompletionsInPlace /\ BuffersInPlace /\ EntriesInPlace
    BY DEF CompletionsInPlace, BuffersInPlace, EntriesInPlace, LastLap, Past, Written, Slots
  <1>4. NotOverrun
    BY DEF NotOverrun, ReturnedIntact
  <1> QED
    BY <1>1, <1>2, <1>3, <1>4 DEF RingInv

\* The thread is never more than one packet past its completion index.
LEMMA PastFacts ==
    ASSUME RingTypeOK, IndicesInStep
    PROVE  /\ Swapped \in Nat /\ Written \in Nat /\ Rung \in Nat /\ Reposted \in Nat
           /\ cq_idx <= Swapped /\ Swapped <= cq_idx + 1 /\ Swapped <= received
           /\ Written <= Swapped /\ Rung <= Written /\ Reposted <= Rung
           /\ rq_dbr = DEPTH + Reposted /\ sq_db = Rung
  BY RingAssumption DEF RingTypeOK, IndicesInStep, Past, Swapped, Written, Rung, Reposted

\* The NIC receives a packet into a buffer and an entry that nobody uses.
LEMMA NicReceiveInv ==
    ASSUME RingInv, NicReceive
    PROVE  RingInv'
  <1> DEFINE slot == received % DEPTH
             cqe == [owner |-> (received \div DEPTH) % 2, wqe_counter |-> received % CounterMod]
             pkt == [pkt |-> received, swapped |-> FALSE]
  <1> USE RingAssumption DEF RingInv
  <1>1. /\ received \in Nat /\ received < MaxPackets /\ received < rq_dbr /\ received' = received + 1
        /\ SendsInTime => sq_db - sq_ci < rq_dbr - received
        /\ data' = [data EXCEPT ![slot] = pkt]
        /\ cq_ring' = [cq_ring EXCEPT ![slot] = cqe]
        /\ UNCHANGED <<sq_ring, doorbells, thread, sq_ci, sent>>
    BY DEF NicReceive, RingTypeOK
  <1>2. slot \in Slots /\ cqe \in [owner : {0, 1}, wqe_counter : 0..(CounterMod - 1)]
    <2>1. received \div DEPTH \in Nat
      BY <1>1, DivMod
    <2>2. (received \div DEPTH) % 2 \in {0, 1}
      BY <2>1
    <2> QED
      BY <1>1, <2>2, InRing, CounterNamesEntry
  <1>3. pkt \in [pkt : Packets \cup {-1}, swapped : BOOLEAN]
    BY <1>1 DEF Packets
  <1>4. UNCHANGED <<Swapped, Written, Rung, Reposted>>
    BY <1>1 DEF thread, Past, Swapped, Written, Rung, Reposted
  <1>5. \A k \in LastLap' : k = received \/ (k \in LastLap /\ k % DEPTH # slot)
    <2>0. LastLap' = {k \in 0..received : received + 1 <= k + DEPTH}
      BY <1>1 DEF LastLap
    <2> SUFFICES ASSUME NEW k \in 0..received, received + 1 <= k + DEPTH, k # received
                 PROVE  k \in LastLap /\ k % DEPTH # slot
      BY <2>0
    <2>1. k \in Nat /\ k < received /\ received < k + DEPTH
      BY <1>1
    <2>2. k % DEPTH # slot
      BY <1>1, <2>1, LapApart
    <2> QED
      BY <1>1, <2>1, <2>2 DEF LastLap
  <1>6. \A k \in LastLap : k % DEPTH \in Slots
    BY <1>1, InRing DEF LastLap
  <1> HIDE DEF slot, cqe, pkt
  <1>7. RingTypeOK'
    BY <1>1, <1>2, <1>3 DEF RingTypeOK, thread, doorbells
  <1>8. IndicesInStep'
    BY <1>1, <1>4 DEF IndicesInStep, thread, doorbells, RingTypeOK
  <1>9. CompletionsInPlace'
    <2>1. \A k \in LastLap' :
              cq_ring'[k % DEPTH] = [owner |-> (k \div DEPTH) % 2, wqe_counter |-> k % CounterMod]
      BY <1>1, <1>2, <1>5, <1>6 DEF CompletionsInPlace, RingTypeOK, cqe, slot
    <2>2. \A i \in Slots : received' <= i => cq_ring'[i].owner = 1
      <3> SUFFICES ASSUME NEW i \in Slots, received + 1 <= i PROVE cq_ring'[i].owner = 1
        BY <1>1
      <3>1. slot = received
        BY <1>1, FirstLap DEF slot, Slots
      <3> QED
        BY <1>1, <3>1 DEF CompletionsInPlace, RingTypeOK, Slots
    <2> QED
      BY <2>1, <2>2 DEF CompletionsInPlace
  <1>10. BuffersInPlace'
    <2> SUFFICES ASSUME NEW k \in LastLap'
                 PROVE  data'[k % DEPTH] = [pkt |-> k, swapped |-> k < Swapped]
      BY <1>4 DEF BuffersInPlace
    <2>1. CASE k = received
      <3>1. (k < Swapped) = FALSE
        BY <1>1, <2>1, PastFacts
      <3>2. data'[k % DEPTH] = pkt
        BY <1>1, <1>2, <2>1 DEF RingTypeOK, slot
      <3> QED
        BY <2>1, <3>1, <3>2, Zenon DEF pkt
    <2>2. CASE k \in LastLap /\ k % DEPTH # slot
      <3>1. data'[k % DEPTH] = data[k % DEPTH]
        BY <1>1, <1>6, <2>2 DEF RingTypeOK
      <3> QED
        BY <2>2, <3>1, Zenon DEF BuffersInPlace
    <2> QED
      BY <1>5, <2>1, <2>2
  <1>11. EntriesInPlace'
    BY <1>1, <1>4 DEF EntriesInPlace
  <1>12. NotOverrun'
    <2>1. ReturnedIntact' <=> ReturnedIntact
      BY <1>1 DEF ReturnedIntact
    <2>2. sq_db - sq_ci < rq_dbr - received => received' <= sq_ci + DEPTH
      BY <1>1, PastFacts DEF RingTypeOK
    <2> QED
      BY <1>1, <2>1, <2>2 DEF NotOverrun
  <1> QED
    BY <1>7, <1>8, <1>9, <1>10, <1>11, <1>12

\* What one more packet means for what has been sent.
LEMMA SentAppend ==
    ASSUME NEW T, NEW s \in Seq(T), NEW e \in T
    PROVE  /\ Append(s, e) \in Seq(T)
           /\ Len(Append(s, e)) = Len(s) + 1
           /\ \A i \in 1..Len(s) : Append(s, e)[i] = s[i]
           /\ Append(s, e)[Len(s) + 1] = e
  OBVIOUS

\* The entry that the NIC sends next has been rung, so its packet has been
\* received, swapped and pointed to.
LEMMA NextSentIsReady ==
    ASSUME RingInv, NicSend
    PROVE  /\ sq_ci \in Nat /\ received \in Nat
           /\ sq_ci < Rung /\ sq_ci < Written /\ sq_ci < Swapped /\ sq_ci < received
           /\ sq_ci % DEPTH \in Slots
           /\ Len(sent) = sq_ci
           /\ sent' = Append(sent, data[sq_ci % DEPTH])
  <1> USE RingAssumption DEF RingInv
  <1>1. /\ sq_ci \in Nat /\ received \in Nat
        /\ sq_ci < Rung /\ sq_ci < Written /\ sq_ci < Swapped /\ sq_ci < received
    <2>1. sq_ci \in Nat /\ received \in Nat
      BY DEF RingTypeOK
    <2>2. /\ Swapped \in Nat /\ Written \in Nat /\ Rung \in Nat
          /\ Swapped <= received /\ Written <= Swapped /\ Rung <= Written /\ sq_db = Rung
      BY PastFacts, Zenon
    <2>3. sq_ci < sq_db
      BY Zenon DEF NicSend
    <2> HIDE DEF RingInv
    <2> QED
      BY <2>1, <2>2, <2>3, SMT
  <1>2. sq_ci % DEPTH \in Slots /\ sq_ring[sq_ci % DEPTH] = sq_ci % DEPTH
    BY <1>1, InRing, PastFacts DEF EntriesInPlace
  <1>3. sent' = Append(sent, data[sq_ci % DEPTH])
    BY <1>2 DEF NicSend, Slots, NoBuffer
  <1>4. Len(sent) = sq_ci
    BY DEF IndicesInStep
  <1> QED
    BY <1>1, <1>2, <1>3, <1>4

\* If the NIC is in time, the packet it sends next is still in its buffer.
LEMMA NextSentIsIntact ==
    ASSUME RingInv, NicSend
    PROVE  SendsInTime => data[sq_ci % DEPTH] = [pkt |-> sq_ci, swapped |-> TRUE]
  <1> SUFFICES ASSUME SendsInTime PROVE data[sq_ci % DEPTH] = [pkt |-> sq_ci, swapped |-> TRUE]
    OBVIOUS
  <1>1. received <= sq_ci + DEPTH
    BY Zenon DEF RingInv, NotOverrun
  <1>2. sq_ci \in Nat /\ received \in Nat /\ sq_ci < received /\ sq_ci < Swapped
    BY NextSentIsReady
  <1>3. sq_ci \in LastLap
    BY <1>1, <1>2 DEF LastLap
  <1>4. (sq_ci < Swapped) = TRUE
    BY <1>2
  <1> QED
    BY <1>3, <1>4, Zenon DEF RingInv, BuffersInPlace

\* The NIC sends the buffer of the oldest entry rung; if it is in time, the
\* packet is still there.
LEMMA NicSendInv ==
    ASSUME RingInv, NicSend
    PROVE  RingInv'
  <1> DEFINE T == [pkt : Packets \cup {-1}, swapped : BOOLEAN]
             e == data[sq_ci % DEPTH]
  <1> USE RingAssumption DEF RingInv
  <1>1. /\ sq_ci \in Nat /\ received \in Nat /\ sq_ci < sq_db /\ sq_ci' = sq_ci + 1
        /\ UNCHANGED <<nicMemory, sq_ring, doorbells, thread, received>>
    BY DEF NicSend, RingTypeOK
  <1>2. sq_ci % DEPTH \in Slots
    BY NextSentIsReady
  <1>3. sent' = Append(sent, e)
    BY NextSentIsReady
  <1>4. sent \in Seq(T) /\ e \in T /\ Len(sent) = sq_ci
    BY <1>2, NextSentIsReady DEF RingTypeOK
  <1>5. UNCHANGED <<Swapped, Written, Rung, Reposted, LastLap>>
    BY <1>1 DEF thread, Past, Swapped, Written, Rung, Reposted, LastLap
  <1>6. SendsInTime => e = [pkt |-> sq_ci, swapped |-> TRUE]
    BY NextSentIsIntact
  <1> HIDE DEF T, e
  <1>7. RingTypeOK'
    <2>1. sent' \in Seq(T)
      BY <1>3, <1>4, SentAppend
    <2> QED
      BY <1>1, <2>1 DEF RingTypeOK, nicMemory, thread, doorbells, T
  <1>8. IndicesInStep'
    <2>1. Len(sent') = sq_ci'
      BY <1>1, <1>3, <1>4, SentAppend
    <2> QED
      BY <1>1, <1>5, <2>1 DEF IndicesInStep, thread, doorbells, RingTypeOK
  <1>9. CompletionsInPlace' /\ BuffersInPlace' /\ EntriesInPlace'
    <2>1. CompletionsInPlace'
      BY <1>1, <1>5 DEF CompletionsInPlace, nicMemory
    <2>2. BuffersInPlace'
      BY <1>1, <1>5, Zenon DEF BuffersInPlace, nicMemory
    <2>3. EntriesInPlace'
      BY <1>1, <1>5 DEF EntriesInPlace
    <2> QED
      BY <2>1, <2>2, <2>3
  <1>10. NotOverrun'
    <2> SUFFICES ASSUME SendsInTime PROVE received' <= sq_ci' + DEPTH /\ ReturnedIntact'
      BY DEF NotOverrun
    <2>1. received' <= sq_ci' + DEPTH
      BY <1>1 DEF NotOverrun
    <2>2. /\ Len(sent') = sq_ci + 1
          /\ \A i \in 1..sq_ci : sent'[i] = sent[i]
          /\ sent'[sq_ci + 1] = e
      BY <1>3, <1>4, SentAppend
    <2>3. \A i \in 1..sq_ci : sent[i] = [pkt |-> i - 1, swapped |-> TRUE]
      BY <1>4 DEF NotOverrun, ReturnedIntact
    <2>4. e = [pkt |-> (sq_ci + 1) - 1, swapped |-> TRUE]
      BY <1>1, <1>6
    <2>5. ASSUME NEW i \in 1..Len(sent')
          PROVE  sent'[i] = [pkt |-> i - 1, swapped |-> TRUE]
      <3>1. i \in 1..sq_ci \/ i = sq_ci + 1
        BY <1>1, <2>2
      <3> QED
        BY <2>2, <2>3, <2>4, <3>1
    <2> QED
      BY <2>1, <2>5 DEF ReturnedIntact
  <1> QED
    BY <1>7, <1>8, <1>9, <1>10

\* The ownership bit of the entry the thread polls: it differs from the
\* thread's own bit exactly if a packet is there that it has not taken.
LEMMA BitTellsTruth ==
    ASSUME RingInv
    PROVE  OwnerBitTruthful
  <1> SUFFICES ASSUME pc = "poll"
               PROVE  /\ HasCompletion <=> cq_idx < received
                      /\ HasCompletion => CurrentCqe.wqe_counter = cq_idx % CounterMod
    BY DEF OwnerBitTruthful
  <1> USE RingAssumption DEF RingInv
  <1>1. /\ cq_idx \in Nat /\ received \in Nat /\ cq_idx <= received /\ received <= cq_idx + DEPTH
        /\ cq_hw_owner_bit = 1 - ((cq_idx \div DEPTH) % 2)
    BY DEF IndicesInStep, RingTypeOK, Past, Reposted
  <1>2. cq_idx \div DEPTH \in Nat /\ (cq_idx \div DEPTH) % 2 \in {0, 1}
    <2>1. cq_idx \div DEPTH \in Nat
      BY <1>1, DivMod
    <2> QED
      BY <2>1
  <1>3. CASE cq_idx < received
    <2>1. cq_idx \in LastLap
      BY <1>1, <1>3 DEF LastLap
    <2>2. CurrentCqe = [owner |-> (cq_idx \div DEPTH) % 2, wqe_counter |-> cq_idx % CounterMod]
      BY <2>1, Zenon DEF CompletionsInPlace, CurrentCqe
    <2> QED
      BY <1>1, <1>2, <1>3, <2>2 DEF HasCompletion
  <1>4. CASE cq_idx = received
    <2>1. CurrentCqe.owner = cq_hw_owner_bit
      <3>1. CASE received < DEPTH
        <4>1. cq_idx % DEPTH = cq_idx /\ cq_idx \div DEPTH = 0 /\ cq_idx \in Slots
          BY <1>1, <1>4, <3>1, FirstLap DEF Slots
        <4>2. CurrentCqe.owner = 1
          BY <1>1, <1>4, <4>1 DEF CompletionsInPlace, CurrentCqe
        <4>3. cq_hw_owner_bit = 1 - (0 % 2)
          BY <1>1, <4>1, Zenon
        <4> QED
          BY <4>2, <4>3
      <3>2. CASE DEPTH <= received
        <4>1. PICK k \in Nat : k + DEPTH = cq_idx
          BY <1>1, <1>4, <3>2
        <4>2. (k + DEPTH) % DEPTH = k % DEPTH /\ (k + DEPTH) \div DEPTH = (k \div DEPTH) + 1
          BY LapLater
        <4>3. k \in LastLap
          BY <1>1, <1>4, <4>1 DEF LastLap
        <4>4. CurrentCqe = [owner |-> (k \div DEPTH) % 2, wqe_counter |-> k % CounterMod]
          BY <4>1, <4>2, <4>3, Zenon DEF CompletionsInPlace, CurrentCqe
        <4>5. k \div DEPTH \in Nat
          BY DivMod
        <4>6. (k \div DEPTH) % 2 = 1 - (((k \div DEPTH) + 1) % 2)
          BY <4>5
        <4> QED
          BY <1>1, <4>1, <4>2, <4>4, <4>6
      <3> QED
        BY <1>1, <3>1, <3>2
    <2> QED
      BY <1>1, <1>4, <2>1 DEF HasCompletion
  <1> QED
    BY <1>1, <1>3, <1>4

\* A step of the thread that leaves the NIC's memory, its counters and what has
\* been sent alone, and does not get past the swap or the send entry.
LEMMA QuietStep ==
    ASSUME RingInv, UNCHANGED <<nicMemory, sq_ring, nic, Swapped, Written>>
    PROVE  CompletionsInPlace' /\ BuffersInPlace' /\ EntriesInPlace' /\ NotOverrun'
  <1> USE DEF RingInv
  <1>1. LastLap' = LastLap
    BY DEF LastLap, nic
  <1>2. CompletionsInPlace'
    BY <1>1 DEF CompletionsInPlace, nicMemory, nic
  <1>3. BuffersInPlace'
    BY <1>1, Zenon DEF BuffersInPlace, nicMemory
  <1>4. EntriesInPlace'
    BY DEF EntriesInPlace
  <1>5. ReturnedIntact' <=> ReturnedIntact
    BY DEF ReturnedIntact, nic
  <1>6. NotOverrun'
    BY <1>5 DEF NotOverrun, nic
  <1> QED
    BY <1>2, <1>3, <1>4, <1>6

\* The completion read is the one of the next packet, and names its buffer.
LEMMA TakeCompletionInv ==
    ASSUME RingInv, TakeCompletion
    PROVE  RingInv'
  <1> USE RingAssumption DEF RingInv
  <1>1. /\ pc = "poll" /\ HasCompletion /\ pc' = "work"
        /\ rq_wqe_idx' = CurrentCqe.wqe_counter % DEPTH
        /\ UNCHANGED <<nicMemory, sq_ring, doorbells, cq_idx, cq_hw_owner_bit, sq_wqe_seg_idx, sq_pi, nic>>
    BY DEF TakeCompletion
  <1>2. cq_idx \in Nat /\ cq_idx < received /\ CurrentCqe.wqe_counter = cq_idx % CounterMod
    BY <1>1, BitTellsTruth DEF OwnerBitTruthful, RingTypeOK
  <1>3. rq_wqe_idx' = cq_idx % DEPTH /\ rq_wqe_idx' \in Slots
    BY <1>1, <1>2, CounterNamesEntry, InRing
  <1>4. UNCHANGED <<Swapped, Written, Rung, Reposted>>
    BY <1>1 DEF Past, Swapped, Written, Rung, Reposted
  <1>5. RingTypeOK'
    BY <1>1, <1>3 DEF RingTypeOK, nicMemory, doorbells, nic
  <1>6. IndicesInStep'
    BY <1>1, <1>2, <1>3, <1>4 DEF IndicesInStep, doorbells, nic
  <1> QED
    BY <1>1, <1>4, <1>5, <1>6, QuietStep

\* The workload swaps the addresses of the packet at hand and of no other.
LEMMA WorkloadInv ==
    ASSUME RingInv, Workload
    PROVE  RingInv'
  <1> DEFINE slot == cq_idx % DEPTH
  <1> USE RingAssumption DEF RingInv
  <1>1. /\ pc = "work" /\ pc' = "write_sqe"
        /\ data' = [data EXCEPT ![rq_wqe_idx].swapped = ~@]
        /\ UNCHANGED <<cq_ring, sq_ring, doorbells, rq_wqe_idx, cq_idx, cq_hw_owner_bit, sq_wqe_seg_idx,
                       sq_pi, nic>>
    BY DEF Workload
  <1>2. /\ cq_idx \in Nat /\ received \in Nat /\ cq_idx < received /\ received <= cq_idx + DEPTH
        /\ rq_wqe_idx = slot /\ slot \in Slots
    BY <1>1, InRing DEF IndicesInStep, RingTypeOK, Past, Reposted
  <1>3. /\ UNCHANGED <<Written, Rung, Reposted>>
        /\ Swapped = cq_idx /\ Swapped' = cq_idx + 1
    BY <1>1, <1>2 DEF Past, Swapped, Written, Rung, Reposted
  <1>4. LastLap' = LastLap
    BY <1>1 DEF LastLap, nic
  <1> HIDE DEF slot
  <1>5. /\ data' = [data EXCEPT ![slot] = [data[slot] EXCEPT !.swapped = ~data[slot].swapped]]
        /\ data \in [Slots -> [pkt : Packets \cup {-1}, swapped : BOOLEAN]]
    BY <1>1, <1>2 DEF RingTypeOK
  <1>6. RingTypeOK'
    <2>1. data' \in [Slots -> [pkt : Packets \cup {-1}, swapped : BOOLEAN]]
      BY <1>2, <1>5, Zenon
    <2> QED
      BY <1>1, <2>1 DEF RingTypeOK, doorbells, nic
  <1>7. IndicesInStep'
    BY <1>1, <1>2, <1>3 DEF IndicesInStep, doorbells, nic, slot
  <1>8. CompletionsInPlace'
    BY <1>1, <1>4 DEF CompletionsInPlace, nic
  <1>9. BuffersInPlace'
    <2> SUFFICES ASSUME NEW k \in LastLap
                 PROVE  data'[k % DEPTH] = [pkt |-> k, swapped |-> k < Swapped']
      BY <1>4 DEF BuffersInPlace
    <2>1. k \in Nat /\ k < received /\ received <= k + DEPTH /\ k % DEPTH \in Slots
      BY <1>2, InRing DEF LastLap
    <2>2. data[k % DEPTH] = [pkt |-> k, swapped |-> k < Swapped]
      BY Zenon DEF BuffersInPlace
    <2>3. CASE k = cq_idx
      <3>1. (k < Swapped) = FALSE /\ (k < Swapped') = TRUE
        BY <1>2, <1>3, <2>3
      <3>2. data[slot] = [pkt |-> k, swapped |-> FALSE]
        BY <2>2, <2>3, <3>1, Zenon DEF slot
      <3>3. data'[slot] = [data[slot] EXCEPT !.swapped = ~data[slot].swapped]
        BY <1>2, <1>5, Zenon
      <3>4. data[slot].swapped = FALSE
        BY <3>2
      <3>5. data'[slot] = [[pkt |-> k, swapped |-> FALSE] EXCEPT !.swapped = TRUE]
        BY <3>2, <3>3, <3>4, Zenon
      <3>6. data'[slot] = [pkt |-> k, swapped |-> TRUE]
        BY <3>5
      <3> QED
        BY <2>3, <3>1, <3>6, Zenon DEF slot
    <2>4. CASE k # cq_idx
      <3>1. (k < Swapped') = (k < Swapped)
        BY <1>2, <1>3, <2>1, <2>4
      <3>2. k % DEPTH # slot
        <4>1. \/ k < cq_idx /\ cq_idx < k + DEPTH
              \/ cq_idx < k /\ k < cq_idx + DEPTH
          BY <1>2, <2>1, <2>4
        <4>2. CASE k < cq_idx /\ cq_idx < k + DEPTH
          BY <1>2, <2>1, <4>2, LapApart DEF slot
        <4>3. CASE cq_idx < k /\ k < cq_idx + DEPTH
          BY <1>2, <2>1, <4>3, LapApart DEF slot
        <4> QED
          BY <4>1, <4>2, <4>3
      <3>3. data'[k % DEPTH] = data[k % DEPTH]
        BY <1>5, <2>1, <3>2
      <3> QED
        BY <2>2, <3>1, <3>3, Zenon
    <2> QED
      BY <2>3, <2>4
  <1>10. EntriesInPlace'
    BY <1>1, <1>3 DEF EntriesInPlace
  <1>11. NotOverrun'
    <2>1. ReturnedIntact' <=> ReturnedIntact
      BY <1>1 DEF ReturnedIntact, nic
    <2> QED
      BY <1>1, <2>1 DEF NotOverrun, nic
  <1> QED
    BY <1>6, <1>7, <1>8, <1>9, <1>10, <1>11

\* The next send entry is pointed to the packet's buffer; the entries before it
\* in the ring keep theirs.
LEMMA WriteSqeInv ==
    ASSUME RingInv, WriteSqe
    PROVE  RingInv'
  <1> DEFINE slot == cq_idx % DEPTH
  <1> USE RingAssumption DEF RingInv
  <1>1. /\ pc = "write_sqe" /\ pc' = "ring_sq"
        /\ sq_ring' = [sq_ring EXCEPT ![SqeOf(sq_wqe_seg_idx + 2)] = rq_wqe_idx]
        /\ sq_wqe_seg_idx' = sq_wqe_seg_idx + 4
        /\ UNCHANGED <<nicMemory, doorbells, rq_wqe_idx, cq_idx, cq_hw_owner_bit, sq_pi, nic>>
    BY DEF WriteSqe
  <1>2. /\ cq_idx \in Nat /\ rq_wqe_idx = slot /\ slot \in Slots
        /\ Written = cq_idx /\ sq_wqe_seg_idx = SQE_NUM_SEGS * cq_idx
    BY <1>1, InRing DEF IndicesInStep, RingTypeOK, Past, Written
  <1>3. /\ UNCHANGED <<Swapped, Rung, Reposted>>
        /\ Written' = cq_idx + 1
    BY <1>1, <1>2 DEF Past, Swapped, Written, Rung, Reposted
  <1>4. SqeOf(sq_wqe_seg_idx + 2) = slot
    BY <1>2, SegmentNamesEntry
  <1> HIDE DEF slot
  <1>5. sq_ring' = [sq_ring EXCEPT ![slot] = slot]
    BY <1>1, <1>2, <1>4
  <1>6. RingTypeOK'
    <2>1. sq_ring' \in [Slots -> Slots \cup {NoBuffer}]
      BY <1>2, <1>5 DEF RingTypeOK
    <2>2. sq_wqe_seg_idx' \in Nat
      BY <1>1 DEF RingTypeOK
    <2> QED
      BY <1>1, <2>1, <2>2 DEF RingTypeOK, nicMemory, doorbells, nic
  <1>7. IndicesInStep'
    <2>1. sq_wqe_seg_idx' = SQE_NUM_SEGS * Written'
      BY <1>1, <1>2, <1>3 DEF SQE_NUM_SEGS
    <2> QED
      BY <1>1, <1>2, <1>3, <2>1 DEF IndicesInStep, doorbells, nic, slot
  <1>8. EntriesInPlace'
    <2> SUFFICES ASSUME NEW k \in 0..cq_idx
                 PROVE  sq_ring'[k % DEPTH] = k % DEPTH
      BY <1>2, <1>3 DEF EntriesInPlace
    <2>1. k \in Nat /\ k % DEPTH \in Slots
      BY <1>2, InRing
    <2>2. CASE k % DEPTH = slot
      BY <1>2, <1>5, <2>2 DEF RingTypeOK
    <2>3. CASE k % DEPTH # slot
      <3>1. k \in 0..(Written - 1)
        BY <1>2, <2>3 DEF slot
      <3> QED
        BY <1>2, <1>5, <2>1, <2>3, <3>1 DEF RingTypeOK, EntriesInPlace
    <2> QED
      BY <2>2, <2>3
  <1>9. LastLap' = LastLap
    BY <1>1 DEF LastLap, nic
  <1>10. CompletionsInPlace'
    BY <1>1, <1>9 DEF CompletionsInPlace, nicMemory, nic
  <1>11. BuffersInPlace'
    BY <1>1, <1>3, <1>9, Zenon DEF BuffersInPlace, nicMemory
  <1>12. NotOverrun'
    <2>1. ReturnedIntact' <=> ReturnedIntact
      BY <1>1 DEF ReturnedIntact, nic
    <2> QED
      BY <1>1, <2>1 DEF NotOverrun, nic
  <1> QED
    BY <1>6, <1>7, <1>8, <1>10, <1>11, <1>12

\* The doorbell and the repost move one index each.
LEMMA RingSqInv ==
    ASSUME RingInv, RingSq \/ Repost
    PROVE  RingInv'
  <1> USE RingAssumption DEF RingInv
  <1>1. UNCHANGED <<nicMemory, sq_ring, nic, Swapped, Written>>
    BY DEF RingSq, Repost, Past, Swapped, Written
  <1>2. sq_pi + 1 \in Nat /\ rq_dbr + 1 \in Nat
    BY DEF RingTypeOK
  <1>3. CASE RingSq
    <2>0. RingTypeOK'
      BY <1>2, <1>3 DEF RingSq, RingTypeOK, nicMemory, nic
    <2>1. UNCHANGED <<sq_wqe_seg_idx, rq_dbr, cq_hw_owner_bit, rq_wqe_idx, cq_idx, received, sq_ci, sent>>
      BY <1>3 DEF RingSq, nic
    <2>2. pc = "ring_sq" /\ pc' = "repost" /\ sq_pi' = sq_pi + 1 /\ sq_db' = sq_pi + 1
      BY <1>3 DEF RingSq
    <2>3. cq_idx \in Nat /\ Rung = cq_idx /\ Rung' = cq_idx + 1 /\ Reposted' = Reposted
      BY <2>1, <2>2 DEF RingTypeOK, Past, Rung, Reposted
    <2>4. IndicesInStep'
      BY <1>1, <2>1, <2>2, <2>3 DEF IndicesInStep, RingTypeOK
    <2> QED
      BY <1>1, <2>0, <2>4, QuietStep
  <1>4. CASE Repost
    <2>0. RingTypeOK'
      BY <1>2, <1>4 DEF Repost, RingTypeOK, nicMemory, nic
    <2>1. UNCHANGED <<sq_wqe_seg_idx, sq_pi, sq_db, cq_hw_owner_bit, rq_wqe_idx, cq_idx, received, sq_ci, sent>>
      BY <1>4 DEF Repost, nic
    <2>2. pc = "repost" /\ pc' = "step_cq" /\ rq_dbr' = rq_dbr + 1
      BY <1>4 DEF Repost
    <2>3. cq_idx \in Nat /\ Reposted = cq_idx /\ Reposted' = cq_idx + 1 /\ Rung' = Rung
      BY <2>1, <2>2 DEF RingTypeOK, Past, Rung, Reposted
    <2>4. IndicesInStep'
      BY <1>1, <2>1, <2>2, <2>3 DEF IndicesInStep, RingTypeOK
    <2> QED
      BY <1>1, <2>0, <2>4, QuietStep
  <1> QED
    BY <1>3, <1>4

\* com_step_cq turns the thread's ownership bit once per lap.
LEMMA StepCqInv ==
    ASSUME RingInv, StepCq
    PROVE  RingInv'
  <1> USE RingAssumption DEF RingInv
  <1>1. /\ pc = "step_cq" /\ pc' = "poll" /\ cq_idx' = cq_idx + 1 /\ cq_dbr' = cq_idx + 1
        /\ cq_hw_owner_bit' = IF (cq_idx + 1) % DEPTH = 0 THEN 1 - cq_hw_owner_bit ELSE cq_hw_owner_bit
        /\ rq_wqe_idx' = 0
        /\ UNCHANGED <<nicMemory, sq_ring, rq_dbr, sq_db, sq_wqe_seg_idx, sq_pi, nic>>
    BY DEF StepCq
  <1>2. cq_idx \in Nat /\ cq_idx < received /\ received \in Nat
    BY <1>1 DEF RingTypeOK, IndicesInStep
  <1>3. UNCHANGED <<Swapped, Written, Rung, Reposted>>
    BY <1>1, <1>2 DEF Past, Swapped, Written, Rung, Reposted
  <1>4. RingTypeOK'
    BY <1>1, <1>2 DEF RingTypeOK, Slots, nicMemory, nic
  <1>5. cq_hw_owner_bit' = 1 - ((cq_idx' \div DEPTH) % 2)
    <2>1. PICK q \in Nat : cq_idx \div DEPTH = q
      BY <1>2, DivMod
    <2>2. IF (cq_idx + 1) % DEPTH = 0 THEN (cq_idx + 1) \div DEPTH = q + 1
                                      ELSE (cq_idx + 1) \div DEPTH = q
      BY <1>2, <2>1, NextIndex
    <2>3. cq_hw_owner_bit = 1 - (q % 2)
      BY <2>1 DEF IndicesInStep
    <2>4. (q + 1) % 2 = 1 - (q % 2)
      OBVIOUS
    <2> QED
      BY <1>1, <2>2, <2>3, <2>4
  <1>6. IndicesInStep'
    BY <1>1, <1>2, <1>3, <1>5 DEF IndicesInStep, nic
  <1> QED
    BY <1>1, <1>3, <1>4, <1>6, QuietStep

\* Every step of the thread and of the NIC keeps the invariant.
LEMMA NextRingInv == RingInv /\ [Next]_vars => RingInv'
  <1> SUFFICES ASSUME RingInv, [Next]_vars PROVE RingInv'
    OBVIOUS
  <1>1. CASE NicReceive \/ NicSend
    BY <1>1, NicReceiveInv, NicSendInv
  <1>2. CASE Thread
    BY <1>2, TakeCompletionInv, WorkloadInv, WriteSqeInv, RingSqInv, StepCqInv DEF Thread
  <1>3. CASE UNCHANGED vars
    <2>1. UNCHANGED <<Swapped, Written, Rung, Reposted>>
      BY <1>3 DEF vars, thread, Past, Swapped, Written, Rung, Reposted
    <2>2. RingTypeOK' /\ IndicesInStep'
      BY <1>3, <2>1 DEF RingInv, RingTypeOK, IndicesInStep, vars, nicMemory, thread, doorbells, nic
    <2> QED
      BY <1>3, <2>1, <2>2, QuietStep DEF RingInv, vars
  <1> QED
    BY <1>1, <1>2, <1>3 DEF Next

\* The invariant of the queue, whether or not the NIC sends in time.
LEMMA RingInvariant == Spec => []RingInv
  BY InitRingInv, NextRingInv, PTL DEF Spec

-----------------------------------------------------------------------------
(* What the queue promises                                                 *)

\* Every index of the thread and of the NIC stays inside its ring, and every
\* send entry points to a receive buffer.
THEOREM RingTypeCorrect == Spec => []RingTypeOK
  <1>1. RingInv => RingTypeOK
    BY DEF RingInv
  <1> QED
    BY <1>1, RingInvariant, PTL

\* Over every wrap of a ring of any depth, a thread that polls (pp_queue, before
\* com_step_cq) sees a completion exactly when there is one it has not taken,
\* and it is the next one.
THEOREM OwnerBitNeverLies == Spec => []OwnerBitTruthful
  <1>1. RingInv => OwnerBitTruthful
    BY BitTellsTruth
  <1> QED
    BY <1>1, RingInvariant, PTL

\* The NIC never writes over a completion that is still to be read, although the
\* buffer is posted again (flexio_dev_dbr_rq_inc_pi) before the completion is
\* released; this needs no assumption on how fast the NIC sends.
THEOREM CompletionsNeverOverrun == Spec => []CompletionReadInTime
  <1>1. RingInv => CompletionReadInTime
    <2> SUFFICES ASSUME RingInv PROVE CompletionReadInTime
      OBVIOUS
    <2> QED
      BY RingAssumption DEF RingInv, RingTypeOK, IndicesInStep, Past, Reposted, CompletionReadInTime
  <1> QED
    BY <1>1, RingInvariant, PTL

\* If the NIC sends in time, every packet that goes out is the next one that
\* came in, swapped once, although its buffer was posted again before it was
\* sent.  Without the assumption this is false: see the run of MCRingTxLag.cfg.
THEOREM PacketsReturnedIntact ==
    ASSUME SendsInTime
    PROVE  Spec => []ReturnedIntact
  <1>1. RingInv => ReturnedIntact
    BY DEF RingInv, NotOverrun
  <1> QED
    BY <1>1, RingInvariant, PTL

\* What has been sent is what the NIC counts.
LEMMA NicCounts == RingInv => Len(sent) = sq_ci /\ sq_ci \in Nat /\ received \in Nat
  BY RingAssumption DEF RingInv, IndicesInStep, RingTypeOK

\* A step of the rings is a step of the queue they implement, or none.
LEMMA StepReflects ==
    ASSUME SendsInTime, RingInv, RingInv', [Next]_vars
    PROVE  [Queue!Arrive \/ Queue!Return]_(Queue!rvars)
  <1> USE RingAssumption
  <1>1. CASE NicReceive
    <2>1. received' = received + 1 /\ UNCHANGED <<sent, sq_ci>>
      BY <1>1 DEF NicReceive
    <2>2. Len(sent) = sq_ci /\ sq_ci \in Nat /\ received \in Nat
      BY NicCounts
    <2>3. received' <= sq_ci' + DEPTH
      BY Zenon DEF RingInv, NotOverrun
    <2>4. Queue!Arrive
      BY <2>1, <2>2, <2>3 DEF Queue!Arrive
    <2> QED
      BY <2>4
  <1>2. CASE NicSend
    <2>1. sent' = Append(sent, [pkt |-> Len(sent), swapped |-> TRUE]) /\ received' = received
      BY <1>2, NextSentIsReady, NextSentIsIntact DEF NicSend
    <2>2. Len(sent) < received
      BY <1>2, NextSentIsReady
    <2>3. Queue!Return
      BY <2>1, <2>2 DEF Queue!Return
    <2> QED
      BY <2>3
  <1>3. CASE Thread \/ UNCHANGED vars
    <2>1. UNCHANGED <<received, sent>>
      BY <1>3 DEF Thread, TakeCompletion, Workload, WriteSqe, RingSq, Repost, StepCq, vars, nic
    <2> QED
      BY <2>1 DEF Queue!rvars
  <1> QED
    BY <1>1, <1>2, <1>3 DEF Next

\* The safety part of Reflects: if the NIC sends in time, the rings, ownership
\* bits, doorbells and the double use of the receive buffers implement a queue
\* of DEPTH places that returns every packet once, in order, swapped.
THEOREM RingsImplementReflector ==
    ASSUME SendsInTime
    PROVE  Spec => Queue!RSpec
  <1>1. Init => Queue!RInit
    BY DEF Init, Queue!RInit
  <1>2. RingInv /\ RingInv' /\ [Next]_vars => [Queue!Arrive \/ Queue!Return]_(Queue!rvars)
    BY StepReflects
  <1> QED
    BY <1>1, <1>2, RingInvariant, PTL DEF Spec, Queue!RSpec

=============================================================================
