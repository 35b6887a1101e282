--------------------------- MODULE TrafficProofs ----------------------------
(***************************************************************************)
(* No cycle is lost on its way from a worker to the accounts, and tenants  *)
(* are restricted only for budgets they have used up: for any number of    *)
(* workers, as long as the counters do not wrap around (TrafficFits).  And *)
(* under traffic that never ends, debts shrink in every rollover.          *)
(***************************************************************************)
EXTENDS BudgetProofs, SteadyTraffic, WellFoundedInduction

-----------------------------------------------------------------------------
(* Sums over the workers                                                   *)

\* There is at least one worker.
LEMMA ThreadsNum == THREADS_NUM \in Nat \ {0}
  BY ParameterAssumption

\* Induction over the natural numbers, for a set.
LEMMA SetInduction ==
    ASSUME NEW S \in SUBSET Nat, 0 \in S, \A n \in S : n + 1 \in S
    PROVE  S = Nat
  <1> DEFINE T == Nat \ S
  <1> SUFFICES ASSUME T # {} PROVE FALSE
    OBVIOUS
  <1>1. PICK x \in T : \A y \in T : ~(<<y, x>> \in OpToRel(<, Nat))
    BY NatLessThanWellFounded, WFMin
  <1>2. x # 0 /\ x - 1 \in Nat
    OBVIOUS
  <1>3. x - 1 \in T
    BY <1>2
  <1>4. <<x - 1, x>> \in OpToRel(<, Nat)
    BY <1>2 DEF OpToRel
  <1> QED
    BY <1>1, <1>3, <1>4

\* g[n] is the sum of f over the workers below n.
IsSum(g, f, k) == g = [n \in 0..k |-> IF n = 0 THEN 0 ELSE g[n - 1] + f[n - 1]]

\* A table of partial sums exists for every number of workers,
LEMMA SumsExist ==
    ASSUME NEW f \in [Workers -> Nat]
    PROVE  \E g : IsSum(g, f, THREADS_NUM)
  <1> DEFINE S == {k \in Nat : k <= THREADS_NUM => \E g : IsSum(g, f, k)}
  <1>1. 0 \in S
    <2>1. IsSum([n \in 0..0 |-> 0], f, 0)
      BY DEF IsSum
    <2> QED
      BY <2>1
  <1>2. ASSUME NEW k \in S PROVE k + 1 \in S
    <2> SUFFICES ASSUME k + 1 <= THREADS_NUM PROVE \E g : IsSum(g, f, k + 1)
      OBVIOUS
    <2>0. k \in Nat /\ k <= THREADS_NUM
      BY ThreadsNum
    <2>1. PICK g : IsSum(g, f, k)
      BY <2>0
    <2> DEFINE h == [n \in 0..(k + 1) |-> IF n = k + 1 THEN g[k] + f[k] ELSE g[n]]
    <2>2. IsSum(h, f, k + 1)
      BY <2>1 DEF IsSum
    <2> QED
      BY <2>2
  <1>3. THREADS_NUM \in S
    <2> HIDE DEF S
    <2>1. S \in SUBSET Nat
      BY DEF S
    <2> QED
    BY <1>1, <1>2, <2>1, SetInduction, ThreadsNum
  <1> QED
    BY <1>3

\* so SumOverWorkers, which chooses one, reads its last entry.
LEMMA SumIs ==
    ASSUME NEW f \in [Workers -> Nat]
    PROVE  \E g : IsSum(g, f, THREADS_NUM) /\ SumOverWorkers(f) = g[THREADS_NUM]
  <1> DEFINE g == CHOOSE g : g = [n \in 0..THREADS_NUM |-> IF n = 0 THEN 0 ELSE g[n - 1] + f[n - 1]]
  <1>1. IsSum(g, f, THREADS_NUM)
    BY SumsExist DEF IsSum
  <1>2. SumOverWorkers(f) = g[THREADS_NUM]
    BY DEF SumOverWorkers
  <1> QED
    BY <1>1, <1>2

\* The entries of such a table.
LEMMA PartialSums ==
    ASSUME NEW f \in [Workers -> Nat], NEW g, IsSum(g, f, THREADS_NUM)
    PROVE  /\ g[0] = 0
           /\ \A n \in 1..THREADS_NUM : g[n] = g[n - 1] + f[n - 1]
           /\ \A n \in 0..THREADS_NUM : g[n] \in Nat
  <1>1. g[0] = 0
    BY ThreadsNum DEF IsSum
  <1>2. \A n \in 1..THREADS_NUM : g[n] = g[n - 1] + f[n - 1]
    BY ThreadsNum DEF IsSum
  <1> DEFINE S == {k \in Nat : k <= THREADS_NUM => g[k] \in Nat}
  <1>3. 0 \in S
    BY <1>1
  <1>4. ASSUME NEW k \in S PROVE k + 1 \in S
    <2> SUFFICES ASSUME k + 1 <= THREADS_NUM PROVE g[k + 1] \in Nat
      OBVIOUS
    <2>1. k \in 0..(THREADS_NUM - 1) /\ k + 1 \in 1..THREADS_NUM /\ g[k] \in Nat
      BY ThreadsNum
    <2>2. g[k + 1] = g[k] + f[k]
      BY <1>2, <2>1
    <2> QED
      BY <2>1, <2>2 DEF Workers
  <1>5. S = Nat
    <2> HIDE DEF S
    <2>1. S \in SUBSET Nat
      BY DEF S
    <2> QED
      BY <1>3, <1>4, <2>1, SetInduction
  <1> QED
    BY <1>1, <1>2, <1>5, ThreadsNum

\* A sum changes by as much as the one summand that changes.
LEMMA SumUpdate ==
    ASSUME NEW f \in [Workers -> Nat], NEW h \in [Workers -> Nat], NEW w \in Workers,
           \A v \in Workers : v # w => h[v] = f[v]
    PROVE  /\ SumOverWorkers(f) \in Nat
           /\ SumOverWorkers(h) \in Nat
           /\ SumOverWorkers(h) = SumOverWorkers(f) + (h[w] - f[w])
  <1>1. PICK g : IsSum(g, f, THREADS_NUM) /\ SumOverWorkers(f) = g[THREADS_NUM]
    BY SumIs
  <1>2. PICK e : IsSum(e, h, THREADS_NUM) /\ SumOverWorkers(h) = e[THREADS_NUM]
    BY SumIs
  <1>3. /\ g[0] = 0
        /\ \A n \in 1..THREADS_NUM : g[n] = g[n - 1] + f[n - 1]
        /\ \A n \in 0..THREADS_NUM : g[n] \in Nat
    BY <1>1, PartialSums
  <1>4. /\ e[0] = 0
        /\ \A n \in 1..THREADS_NUM : e[n] = e[n - 1] + h[n - 1]
        /\ \A n \in 0..THREADS_NUM : e[n] \in Nat
    BY <1>2, PartialSums
  <1> DEFINE S == {k \in Nat : k <= THREADS_NUM => e[k] = g[k] + (IF w < k THEN h[w] - f[w] ELSE 0)}
  <1>5. 0 \in S
    <2>1. ~(w < 0)
      BY ThreadsNum DEF Workers
    <2> QED
      BY <1>3, <1>4, <2>1
  <1>6. ASSUME NEW k \in S PROVE k + 1 \in S
    <2> SUFFICES ASSUME k + 1 <= THREADS_NUM
                 PROVE  e[k + 1] = g[k + 1] + (IF w < k + 1 THEN h[w] - f[w] ELSE 0)
      OBVIOUS
    <2>1. /\ k \in Workers /\ k \in 0..THREADS_NUM /\ k + 1 \in 1..THREADS_NUM
          /\ e[k] = g[k] + (IF w < k THEN h[w] - f[w] ELSE 0)
      BY ThreadsNum DEF Workers
    <2>2. g[k + 1] = g[k] + f[k] /\ e[k + 1] = e[k] + h[k]
      BY <1>3, <1>4, <2>1
    <2>3. g[k] \in Nat /\ e[k] \in Nat /\ f[k] \in Nat /\ h[k] \in Nat /\ w \in Int /\ k \in Int
      BY <1>3, <1>4, <2>1 DEF Workers
    <2>4. CASE k = w
      BY <2>1, <2>2, <2>3, <2>4
    <2>5. CASE k # w
      <3>1. h[k] = f[k]
        BY <2>1, <2>5
      <3>2. (w < k + 1) <=> (w < k)
        BY <2>3, <2>5
      <3>. QED
        BY <2>1, <2>2, <2>3, <3>1, <3>2
    <2> QED
      BY <2>4, <2>5
  <1>7. THREADS_NUM \in S
    <2> HIDE DEF S
    <2>1. S \in SUBSET Nat
      BY DEF S
    <2> QED
      BY <1>5, <1>6, <2>1, SetInduction, ThreadsNum
  <1>8. w < THREADS_NUM /\ THREADS_NUM \in 0..THREADS_NUM
    BY ThreadsNum DEF Workers
  <1> QED
    BY <1>1, <1>2, <1>3, <1>4, <1>7, <1>8

\* The sum of zeros.
LEMMA SumOfNothing ==
    ASSUME NEW f \in [Workers -> Nat], \A w \in Workers : f[w] = 0
    PROVE  SumOverWorkers(f) = 0
  <1>1. PICK g : IsSum(g, f, THREADS_NUM) /\ SumOverWorkers(f) = g[THREADS_NUM]
    BY SumIs
  <1>2. /\ g[0] = 0
        /\ \A n \in 1..THREADS_NUM : g[n] = g[n - 1] + f[n - 1]
    BY <1>1, PartialSums
  <1> DEFINE S == {k \in Nat : k <= THREADS_NUM => g[k] = 0}
  <1>3. 0 \in S
    BY <1>2
  <1>4. ASSUME NEW k \in S PROVE k + 1 \in S
    <2> SUFFICES ASSUME k + 1 <= THREADS_NUM PROVE g[k + 1] = 0
      OBVIOUS
    <2>1. k \in Workers /\ k + 1 \in 1..THREADS_NUM /\ g[k] = 0
      BY ThreadsNum DEF Workers
    <2> QED
      BY <1>2, <2>1
  <1>5. THREADS_NUM \in S
    <2> HIDE DEF S
    <2>1. S \in SUBSET Nat
      BY DEF S
    <2> QED
      BY <1>3, <1>4, <2>1, SetInduction, ThreadsNum
  <1> QED
    BY <1>1, <1>5, ThreadsNum

-----------------------------------------------------------------------------
(* Packets in flight                                                       *)

\* A step of worker v changes what is in flight by what v holds.
LEMMA InFlightStep ==
    ASSUME TypeOK, TypeOK', NEW v \in Workers, NEW t \in Tenants,
           \A w \in Workers : w # v => /\ wq'[w] = wq[w]
                                       /\ cycle_delta'[w] = cycle_delta[w]
                                       /\ packet_size'[w] = packet_size[w]
    PROVE  /\ InFlight(t) \in Nat /\ InFlight(t)' \in Nat
           /\ InFlight(t)' = InFlight(t) + (HeldBy(v, t, cycle_delta)' - HeldBy(v, t, cycle_delta))
           /\ BytesInFlight(t) \in Nat /\ BytesInFlight(t)' \in Nat
           /\ BytesInFlight(t)' = BytesInFlight(t)
                                  + (HeldBy(v, t, packet_size)' - HeldBy(v, t, packet_size))
  <1> DEFINE f == [w \in Workers |-> IF wq[w] = t THEN cycle_delta[w] ELSE 0]
             g == [w \in Workers |-> IF wq'[w] = t THEN cycle_delta'[w] ELSE 0]
             p == [w \in Workers |-> IF wq[w] = t THEN packet_size[w] ELSE 0]
             q == [w \in Workers |-> IF wq'[w] = t THEN packet_size'[w] ELSE 0]
  <1>1. /\ f \in [Workers -> Nat] /\ g \in [Workers -> Nat]
        /\ p \in [Workers -> Nat] /\ q \in [Workers -> Nat]
    BY ArithmeticAssumption DEF TypeOK
  <1>2. \A w \in Workers : w # v => g[w] = f[w] /\ q[w] = p[w]
    OBVIOUS
  <1>3. /\ f[v] = HeldBy(v, t, cycle_delta) /\ g[v] = HeldBy(v, t, cycle_delta)'
        /\ p[v] = HeldBy(v, t, packet_size) /\ q[v] = HeldBy(v, t, packet_size)'
    BY DEF HeldBy
  <1>4. /\ InFlight(t) = SumOverWorkers(f) /\ InFlight(t)' = SumOverWorkers(g)
        /\ BytesInFlight(t) = SumOverWorkers(p) /\ BytesInFlight(t)' = SumOverWorkers(q)
    BY DEF InFlight, BytesInFlight, HeldBy
  <1> HIDE DEF f, g, p, q
  <1>5. /\ SumOverWorkers(f) \in Nat /\ SumOverWorkers(g) \in Nat
        /\ SumOverWorkers(g) = SumOverWorkers(f) + (g[v] - f[v])
    BY <1>1, <1>2, SumUpdate
  <1>6. /\ SumOverWorkers(p) \in Nat /\ SumOverWorkers(q) \in Nat
        /\ SumOverWorkers(q) = SumOverWorkers(p) + (q[v] - p[v])
    BY <1>1, <1>2, SumUpdate
  <1> QED
    BY <1>3, <1>4, <1>5, <1>6

-----------------------------------------------------------------------------
(* What a worker's step does to the traffic                                *)

\* A worker writes nothing of the scheduler's and nothing of another worker's.
LEMMA WorkerFrame ==
    ASSUME TypeOK, NEW v \in Workers, Worker(v)
    PROVE  /\ UNCHANGED <<restrict_tenant, budgets, spc, st, schLocals>>
           /\ \A w \in Workers : w # v => /\ wpc'[w] = wpc[w]
                                          /\ wq'[w] = wq[w]
                                          /\ cycle_delta'[w] = cycle_delta[w]
                                          /\ packet_size'[w] = packet_size[w]
  <1>1. UNCHANGED <<restrict_tenant, budgets, spc, st, schLocals>>
    BY DEF Worker, PollSkip, PollHit, DrainStop, DrainPacket, ChargeCycles, ChargeBytes, BatchEnd,
           Wake
  <1>2. ASSUME NEW w \in Workers, w # v
        PROVE  /\ wpc'[w] = wpc[w] /\ wq'[w] = wq[w]
               /\ cycle_delta'[w] = cycle_delta[w] /\ packet_size'[w] = packet_size[w]
    BY <1>2
       DEF TypeOK, Worker, PollSkip, PollHit, DrainStop, NextQueue, DrainPacket, ChargeCycles,
           AddBytes, ChargeBytes, BatchEnd, Wake
  <1> QED
    BY <1>1, <1>2

\* The steps in which a worker looks for its next packet.
Looks(v) == PollSkip(v) \/ PollHit(v) \/ DrainStop(v) \/ Wake(v)

\* They move no packet.
LEMMA LooksFacts ==
    ASSUME TypeOK, NEW v \in Workers, Looks(v)
    PROVE  /\ UNCHANGED <<counters, supply, cycle_delta, packet_size>>
           /\ wpc[v] \in {"poll", "drain", "asleep"}
           /\ wpc'[v] \in {"poll", "drain", "asleep"}
  BY DEF TypeOK, Looks, PollSkip, PollHit, DrainStop, NextQueue, Wake

\* A packet is taken off a queue into the worker's locals.
LEMMA DrainFacts ==
    ASSUME TypeOK, NEW v \in Workers, NEW c \in PktCycles, NEW b \in PktBytes, DrainPacket(v, c, b)
    PROVE  /\ UNCHANGED <<counters, wq>>
           /\ c \in Nat /\ b \in Nat
           /\ wpc[v] = "drain" /\ wpc'[v] = "charge_cycles"
           /\ cycle_delta'[v] = c /\ packet_size'[v] = b
           /\ c <= supply[wq[v]] /\ supply'[wq[v]] = supply[wq[v]] - c
           /\ \A t \in Tenants : t # wq[v] => supply'[t] = supply[t]
  <1>1. c \in Nat /\ b \in Nat
    BY ParameterAssumption, ArithmeticAssumption
  <1> QED
    BY <1>1 DEF TypeOK, DrainPacket

\* The first charge.
LEMMA ChargeCyclesFacts ==
    ASSUME TypeOK, NEW v \in Workers, ChargeCycles(v)
    PROVE  /\ UNCHANGED <<tenant_bw_consumed, supply, wq, packet_size>>
           /\ wpc[v] = "charge_cycles" /\ wpc'[v] = "charge_bytes"
           /\ cycle_delta'[v] = 0
           /\ tenant_cycle_consumed'[wq[v]]
                  = SizeAdd(tenant_cycle_consumed[wq[v]], cycle_delta[v])
           /\ \A t \in Tenants : t # wq[v] => tenant_cycle_consumed'[t] = tenant_cycle_consumed[t]
  BY DEF TypeOK, ChargeCycles

\* The second charge.
LEMMA ChargeBytesFacts ==
    ASSUME TypeOK, NEW v \in Workers, ChargeBytes(v) \/ BatchEnd(v)
    PROVE  /\ UNCHANGED <<tenant_cycle_consumed, supply, cycle_delta>>
           /\ wpc[v] = "charge_bytes" /\ wpc'[v] \in {"drain", "asleep"}
           /\ packet_size'[v] = 0
           /\ tenant_bw_consumed'[wq[v]] = SizeAdd(tenant_bw_consumed[wq[v]], packet_size[v])
           /\ \A t \in Tenants : t # wq[v] => tenant_bw_consumed'[t] = tenant_bw_consumed[t]
  BY DEF TypeOK, ChargeBytes, BatchEnd, AddBytes

\* The cases of a worker's step.
LEMMA WorkerCases ==
    ASSUME NEW v \in Workers, Worker(v)
    PROVE  \/ Looks(v)
           \/ \E c \in PktCycles, b \in PktBytes : DrainPacket(v, c, b)
           \/ ChargeCycles(v)
           \/ ChargeBytes(v) \/ BatchEnd(v)
  BY DEF Worker, Looks

\* A worker's locals hold a packet exactly while it charges it.
LEMMA WorkerCharging ==
    ASSUME TypeOK, WorkersCharging, NEW v \in Workers, Worker(v)
    PROVE  WorkersCharging'
  <1> DEFINE Charging(w) ==
        /\ IF wpc'[w] = "charge_cycles" THEN cycle_delta'[w] \in PktCycles ELSE cycle_delta'[w] = 0
        /\ IF wpc'[w] \in {"charge_cycles", "charge_bytes"} THEN packet_size'[w] \in PktBytes
                                                            ELSE packet_size'[w] = 0
  <1>1. ASSUME NEW w \in Workers, w # v PROVE Charging(w)
    BY <1>1, WorkerFrame DEF WorkersCharging
  <1>2. Charging(v)
    <2>1. CASE Looks(v)
      BY <2>1, LooksFacts DEF WorkersCharging
    <2>2. ASSUME NEW c \in PktCycles, NEW b \in PktBytes, DrainPacket(v, c, b) PROVE Charging(v)
      BY <2>2, DrainFacts
    <2>3. CASE ChargeCycles(v)
      BY <2>3, ChargeCyclesFacts DEF WorkersCharging
    <2>4. CASE ChargeBytes(v) \/ BatchEnd(v)
      BY <2>4, ChargeBytesFacts DEF WorkersCharging
    <2> QED
      BY <2>1, <2>2, <2>3, <2>4, WorkerCases
  <1> QED
    BY <1>1, <1>2 DEF WorkersCharging

\* Whatever a worker does, the cycles of its packets stay on the books, and no
\* charge makes a counter wrap around.
LEMMA WorkerCycles ==
    ASSUME BudgetInv, WorkersCharging, CyclesFit, \A u \in Tenants : Traffic[u] <= SIZE_MAX,
           NEW v \in Workers, Worker(v), NEW t \in Tenants
    PROVE  /\ Outstanding(t)' = Outstanding(t)
           /\ tenant_cycle_consumed[t] <= tenant_cycle_consumed'[t]
  <1>1. TypeOK /\ TypeOK'
    BY WorkerInv DEF BudgetInv
  <1>2. PICK held : held = HeldBy(v, t, cycle_delta)
    OBVIOUS
  <1>3. PICK holds : holds = HeldBy(v, t, cycle_delta)'
    OBVIOUS
  <1>4. /\ InFlight(t) \in Nat /\ InFlight(t)' \in Nat
        /\ InFlight(t)' = InFlight(t) + (holds - held)
    BY <1>1, <1>2, <1>3, WorkerFrame, InFlightStep
  <1>5. held = (IF wq[v] = t THEN cycle_delta[v] ELSE 0)
        /\ holds = (IF wq'[v] = t THEN cycle_delta'[v] ELSE 0)
    BY <1>2, <1>3 DEF HeldBy
  <1>6. /\ wq[v] \in Tenants /\ cycle_delta[v] \in Nat
        /\ supply[t] \in Nat /\ tenant_cycle_consumed[t] \in 0..SIZE_MAX
        /\ cycle_used \in Nat /\ tenant_cycle_debt[t] \in Nat
    BY <1>1, ArithmeticAssumption DEF TypeOK
  <1>7. Taken(t)' = Taken(t) /\ Taken(t) \in Nat
    BY <1>1, <1>6, WorkerFrame DEF Taken, At, schLocals
  <1>8. supply[t] + InFlight(t) + tenant_cycle_consumed[t] + Taken(t) + tenant_cycle_debt[t]
            <= Traffic[t] /\ Traffic[t] \in Nat /\ Traffic[t] <= SIZE_MAX /\ SIZE_MAX \in Nat
    BY ParameterAssumption, ArithmeticAssumption DEF CyclesFit, Outstanding
  <1>9. SUFFICES /\ supply'[t] + InFlight(t)' + tenant_cycle_consumed'[t]
                        = supply[t] + InFlight(t) + tenant_cycle_consumed[t]
                 /\ tenant_cycle_consumed[t] <= tenant_cycle_consumed'[t]
                 /\ supply'[t] \in Nat /\ tenant_cycle_consumed'[t] \in Nat
    BY <1>4, <1>6, <1>7 DEF Outstanding
  <1>10. supply'[t] \in Nat /\ tenant_cycle_consumed'[t] \in Nat
    BY <1>1, ArithmeticAssumption DEF TypeOK
  <1>11. CASE Looks(v)
    <2>1. cycle_delta[v] = 0 /\ cycle_delta'[v] = 0
      BY <1>1, <1>11, LooksFacts DEF WorkersCharging
    <2> QED
      BY <1>1, <1>4, <1>5, <1>6, <1>10, <1>11, <2>1, LooksFacts DEF counters
  <1>12. ASSUME NEW c \in PktCycles, NEW b \in PktBytes, DrainPacket(v, c, b)
         PROVE  /\ supply'[t] + InFlight(t)' + tenant_cycle_consumed'[t]
                       = supply[t] + InFlight(t) + tenant_cycle_consumed[t]
                /\ tenant_cycle_consumed[t] <= tenant_cycle_consumed'[t]
    <2>1. /\ c \in Nat /\ wq'[v] = wq[v] /\ wpc[v] = "drain"
          /\ cycle_delta'[v] = c /\ tenant_cycle_consumed'[t] = tenant_cycle_consumed[t]
          /\ supply'[t] = IF wq[v] = t THEN supply[t] - c ELSE supply[t]
      BY <1>1, <1>12, DrainFacts DEF counters
    <2>2. cycle_delta[v] = 0
      BY <2>1 DEF WorkersCharging
    <2> QED
      BY <1>4, <1>5, <1>6, <2>1, <2>2
  <1>13. CASE ChargeCycles(v)
    <2>1. /\ wq'[v] = wq[v] /\ supply'[t] = supply[t] /\ cycle_delta'[v] = 0
          /\ tenant_cycle_consumed'[t] = IF wq[v] = t
                                         THEN SizeAdd(tenant_cycle_consumed[t], cycle_delta[v])
                                         ELSE tenant_cycle_consumed[t]
      BY <1>1, <1>13, ChargeCyclesFacts
    <2>2. wq[v] = t => tenant_cycle_consumed[t] + cycle_delta[v] <= SIZE_MAX
      BY <1>4, <1>5, <1>6, <1>7, <1>8, <2>1
    <2>3. wq[v] = t => SizeAdd(tenant_cycle_consumed[t], cycle_delta[v])
                           = tenant_cycle_consumed[t] + cycle_delta[v]
      BY <1>6, <1>8, <2>2 DEF SizeAdd
    <2> QED
      BY <1>4, <1>5, <1>6, <1>10, <2>1, <2>3
  <1>14. CASE ChargeBytes(v) \/ BatchEnd(v)
    <2>1. cycle_delta[v] = 0 /\ cycle_delta'[v] = 0
      BY <1>1, <1>14, ChargeBytesFacts DEF WorkersCharging
    <2> QED
      BY <1>1, <1>4, <1>5, <1>6, <1>10, <1>14, <2>1, ChargeBytesFacts
  <1> QED
    BY <1>10, <1>11, <1>12, <1>13, <1>14, WorkerCases

\* Taking a packet of c cycles and b bytes leaves room for its bytes.
LEMMA RoomForBytes ==
    ASSUME NEW r \in Nat, NEW s \in Nat, NEW c \in Nat, NEW b \in Nat, c <= s, b <= r * c
    PROVE  (s - c) * r \in Nat /\ s * r \in Nat /\ (s - c) * r + b <= s * r
  <1>1. s * r \in Nat /\ (s - c) * r \in Nat /\ r * c \in Nat
    BY ProductIsNat
  <1>2. (s - c) * r = s * r - r * c
    OBVIOUS
  <1> QED
    BY <1>1, <1>2

\* The same for bytes, r of which at most come with a cycle.
LEMMA WorkerBytes ==
    ASSUME BudgetInv, WorkersCharging, NEW r \in 1..SIZE_MAX, FitsAt(r), BytesFit(r),
           NEW v \in Workers, Worker(v), NEW t \in Tenants
    PROVE  /\ supply'[t] * r + BytesInFlight(t)' + tenant_bw_consumed'[t] <= Traffic[t] * r
           /\ tenant_bw_consumed[t] <= tenant_bw_consumed'[t]
  <1>1. TypeOK /\ TypeOK'
    BY WorkerInv DEF BudgetInv
  <1>2. PICK held : held = HeldBy(v, t, packet_size)
    OBVIOUS
  <1>3. PICK holds : holds = HeldBy(v, t, packet_size)'
    OBVIOUS
  <1>4. /\ BytesInFlight(t) \in Nat /\ BytesInFlight(t)' \in Nat
        /\ BytesInFlight(t)' = BytesInFlight(t) + (holds - held)
    BY <1>1, <1>2, <1>3, WorkerFrame, InFlightStep
  <1>5. held = (IF wq[v] = t THEN packet_size[v] ELSE 0)
        /\ holds = (IF wq'[v] = t THEN packet_size'[v] ELSE 0)
    BY <1>2, <1>3 DEF HeldBy
  <1>6. /\ wq[v] \in Tenants /\ packet_size[v] \in Nat /\ r \in Nat
        /\ supply[t] \in Nat /\ tenant_bw_consumed[t] \in 0..SIZE_MAX
        /\ supply'[t] \in Nat /\ tenant_bw_consumed'[t] \in Nat
    BY <1>1, ArithmeticAssumption DEF TypeOK
  <1>7. PICK most : most = Traffic[t] * r
    OBVIOUS
  <1>8. PICK room : room = supply[t] * r
    OBVIOUS
  <1>9. PICK rest : rest = supply'[t] * r
    OBVIOUS
  <1>10. most \in Nat /\ room \in Nat /\ rest \in Nat
    BY <1>6, <1>7, <1>8, <1>9, ParameterAssumption, ProductIsNat
  <1>11. room + BytesInFlight(t) + tenant_bw_consumed[t] <= most /\ most <= SIZE_MAX
    BY <1>7, <1>8 DEF BytesFit, FitsAt
  <1>12. SUFFICES /\ rest + BytesInFlight(t)' + tenant_bw_consumed'[t] <= most
                  /\ tenant_bw_consumed[t] <= tenant_bw_consumed'[t]
    BY <1>7, <1>9
  <1>13. CASE Looks(v)
    <2>1. packet_size[v] = 0 /\ packet_size'[v] = 0
      BY <1>1, <1>13, LooksFacts DEF WorkersCharging
    <2>2. supply'[t] = supply[t] /\ tenant_bw_consumed'[t] = tenant_bw_consumed[t]
      BY <1>1, <1>13, LooksFacts DEF counters
    <2>3. rest = room
      BY <1>8, <1>9, <2>2
    <2> QED
      BY <1>4, <1>5, <1>6, <1>10, <1>11, <2>1, <2>2, <2>3
  <1>14. ASSUME NEW c \in PktCycles, NEW b \in PktBytes, DrainPacket(v, c, b)
         PROVE  /\ rest + BytesInFlight(t)' + tenant_bw_consumed'[t] <= most
                /\ tenant_bw_consumed[t] <= tenant_bw_consumed'[t]
    <2>1. /\ c \in Nat /\ b \in Nat /\ wq'[v] = wq[v] /\ wpc[v] = "drain"
          /\ packet_size'[v] = b /\ tenant_bw_consumed'[t] = tenant_bw_consumed[t]
          /\ wq[v] = t => c <= supply[t]
          /\ supply'[t] = IF wq[v] = t THEN supply[t] - c ELSE supply[t]
      BY <1>1, <1>14, DrainFacts DEF counters
    <2>2. packet_size[v] = 0
      BY <2>1 DEF WorkersCharging
    <2>3. b <= r * c
      BY DEF FitsAt, AtMostPerCycle
    <2>4. CASE wq[v] = t
      <3>1. rest + b <= room
        BY <1>6, <1>8, <1>9, <2>1, <2>3, <2>4, RoomForBytes
      <3> QED
        BY <1>4, <1>5, <1>6, <1>10, <1>11, <2>1, <2>2, <2>4, <3>1
    <2>5. CASE wq[v] # t
      <3>1. rest = room
        BY <1>8, <1>9, <2>1, <2>5
      <3> QED
        BY <1>4, <1>5, <1>6, <1>10, <1>11, <2>1, <2>2, <2>5, <3>1
    <2> QED
      BY <2>4, <2>5
  <1>15. CASE ChargeCycles(v)
    <2>1. /\ wq'[v] = wq[v] /\ supply'[t] = supply[t] /\ packet_size'[v] = packet_size[v]
          /\ tenant_bw_consumed'[t] = tenant_bw_consumed[t]
      BY <1>1, <1>15, ChargeCyclesFacts
    <2>2. rest = room
      BY <1>8, <1>9, <2>1
    <2> QED
      BY <1>4, <1>5, <1>6, <1>10, <1>11, <2>1, <2>2
  <1>16. CASE ChargeBytes(v) \/ BatchEnd(v)
    <2>1. /\ supply'[t] = supply[t] /\ packet_size'[v] = 0
          /\ tenant_bw_consumed'[t] = IF wq[v] = t THEN SizeAdd(tenant_bw_consumed[t], packet_size[v])
                                                   ELSE tenant_bw_consumed[t]
      BY <1>1, <1>16, ChargeBytesFacts
    <2>2. rest = room
      BY <1>8, <1>9, <2>1
    <2>3. wq[v] = t => tenant_bw_consumed[t] + packet_size[v] <= SIZE_MAX
      BY <1>4, <1>5, <1>6, <1>10, <1>11, <2>1, ArithmeticAssumption
    <2>4. wq[v] = t => SizeAdd(tenant_bw_consumed[t], packet_size[v])
                           = tenant_bw_consumed[t] + packet_size[v]
      BY <1>6, <2>3, ArithmeticAssumption DEF SizeAdd
    <2> QED
      BY <1>4, <1>5, <1>6, <1>10, <1>11, <2>1, <2>2, <2>4
  <1> QED
    BY <1>13, <1>14, <1>15, <1>16, WorkerCases

-----------------------------------------------------------------------------
(* What a step of the scheduler does to it                                 *)

\* The scheduler's steps that neither take nor settle a tenant's usage.
Bystands ==
    \/ StartCheck \/ Reschedule \/ Activate \/ CheckBudget \/ StartRollover \/ SkipRollover
    \/ Release \/ Redistribute \/ ApplyDebt \/ Report \/ SkipReport

\* The scheduler leaves packets where they are.
LEMMA SchedulerFrame ==
    ASSUME TypeOK, Scheduler
    PROVE  /\ UNCHANGED <<wpc, wq, cycle_delta, packet_size, supply>>
           /\ \A t \in Tenants : InFlight(t)' = InFlight(t) /\ BytesInFlight(t)' = BytesInFlight(t)
           /\ WorkersCharging => WorkersCharging'
  <1>1. UNCHANGED <<wpc, wq, cycle_delta, packet_size, supply>>
    BY DEF workers, Scheduler, StartCheck, Reschedule, Activate, CheckBudget, CheckSkip,
           CheckLoadCycles, CheckLoadBytes, CheckStore, CheckDone, StartRollover, SkipRollover,
           Rollover, TakeCycles, Settle, Release, Redistribute, OffDone, BucketDone, Receive,
           ReceiveDone, DrfIdle, DrfSingle, DrfShare, DrfClear, DrfClearDone, ApplyDebt, Report,
           SkipReport
  <1>2. \A t \in Tenants : InFlight(t)' = InFlight(t) /\ BytesInFlight(t)' = BytesInFlight(t)
    BY <1>1 DEF InFlight, BytesInFlight, HeldBy
  <1>3. WorkersCharging => WorkersCharging'
    BY <1>1 DEF WorkersCharging
  <1> QED
    BY <1>1, <1>2, <1>3

\* Steps that neither take nor settle leave the counters alone and add no debt.
LEMMA BystandsFacts ==
    ASSUME BudgetInv, Bystands
    PROVE  /\ UNCHANGED counters
           /\ spc # "settle" /\ spc' # "settle"
           /\ \A t \in Tenants : tenant_cycle_debt'[t] <= tenant_cycle_debt[t]
  <1>1. CASE ApplyDebt
    <2>1. ASSUME NEW t \in Tenants PROVE tenant_cycle_debt'[t] <= tenant_cycle_debt[t]
      <3>1. tenant_cycle_budget[t] \in Nat /\ tenant_cycle_debt[t] \in 0..SIZE_MAX
        BY DEF BudgetInv, TypeOK
      <3>2. PaidOff(t).debt <= tenant_cycle_debt[t]
        BY <3>1, ApplyDebtFacts, ArithmeticAssumption DEF PaidOff
      <3>3. tenant_cycle_debt'[t] = IF t \in Accounted THEN PaidOff(t).debt ELSE tenant_cycle_debt[t]
        BY <1>1 DEF ApplyDebt
      <3> QED
        BY <3>1, <3>2, <3>3, ArithmeticAssumption
    <2>2. UNCHANGED counters /\ spc # "settle" /\ spc' # "settle"
      BY <1>1 DEF ApplyDebt, At, Goto
    <2> QED
      BY <2>1, <2>2
  <1>2. CASE ~ApplyDebt
    <2>1. UNCHANGED counters /\ UNCHANGED tenant_cycle_debt
      BY <1>2
         DEF Bystands, budgets, StartCheck, Reschedule, Activate, CheckBudget, CheckSkip,
             CheckLoadCycles, CheckLoadBytes, CheckStore, CheckDone, StartRollover, SkipRollover,
             Release, Redistribute, OffDone, BucketDone, Receive, ReceiveDone, DrfIdle, DrfSingle,
             DrfShare, DrfClear, DrfClearDone, Report, SkipReport
    <2>2. spc # "settle" /\ spc' # "settle"
      BY <1>2
         DEF Bystands, At, Goto, SettleDone, StartCheck, Reschedule, Activate, CheckBudget,
             CheckSkip, CheckLoadCycles, CheckLoadBytes, CheckStore, CheckDone, StartRollover,
             SkipRollover, Release, Redistribute, OffDone, BucketDone, Receive, ReceiveDone,
             DrfIdle, DrfSingle, DrfShare, DrfClear, DrfClearDone, Report, SkipReport
    <2> QED
      BY <2>1, <2>2, ArithmeticAssumption DEF BudgetInv, TypeOK
  <1> QED
    BY <1>1, <1>2

\* The cases of a step of the scheduler.
LEMMA SchedulerCases ==
    ASSUME Scheduler
    PROVE  Bystands \/ TakeCycles \/ Settle
  BY DEF Scheduler, Rollover, Bystands

\* A settlement turns the usage it has taken into debt at most.
LEMMA SettledDebt ==
    ASSUME BudgetInv, Settle
    PROVE  /\ st \in Tenants
           /\ tenant_cycle_debt'[st] <= tenant_cycle_debt[st] + cycle_used
           /\ \A t \in Tenants : t # st => tenant_cycle_debt'[t] = tenant_cycle_debt[t]
  <1>1. st \in Accounted /\ st \in Tenants
    BY TenantsNum DEF BudgetInv, IndexOK, Settle, At
  <1>2. /\ tenant_cycle_debt[st] \in 0..SIZE_MAX /\ cycle_used \in 0..SIZE_MAX
        /\ tenant_cycle_budget[st] \in Nat
    BY <1>1 DEF BudgetInv, TypeOK
  <1>3. sch_cycle_record_debt(tenant_cycle_budget[st], cycle_used, tenant_cycle_debt[st])
            <= tenant_cycle_debt[st] + cycle_used
    <2> DEFINE d == sch_cycle_record_debt(tenant_cycle_budget[st], cycle_used, tenant_cycle_debt[st])
               excess == IF cycle_used > tenant_cycle_budget[st]
                         THEN cycle_used - tenant_cycle_budget[st] ELSE 0
    <2>1. d = IF tenant_cycle_debt[st] + excess > SIZE_MAX THEN SIZE_MAX
                                                           ELSE tenant_cycle_debt[st] + excess
      BY <1>2, RecordDebtFacts
    <2> HIDE DEF d
    <2>2. d <= tenant_cycle_debt[st] + cycle_used
      BY <1>2, <2>1, ArithmeticAssumption
    <2> QED
      BY <2>2 DEF d
  <1> QED
    BY <1>1, <1>3 DEF Settle, BudgetInv, TypeOK

\* Only a settlement takes cycles off the books.
LEMMA SchedulerCycles ==
    ASSUME BudgetInv, Scheduler, NEW t \in Tenants
    PROVE  /\ Outstanding(t) \in Nat /\ Outstanding(t)' \in Nat
           /\ Outstanding(t)' = IF Settles(t) THEN Outstanding(t) - cycle_used ELSE Outstanding(t)
           /\ Outstanding(t)' + tenant_cycle_debt'[t] <= Outstanding(t) + tenant_cycle_debt[t]
  <1>1. BudgetInv' /\ TypeOK /\ TypeOK'
    BY NextBudgetInv DEF BudgetInv, Next
  <1>2. PICK v \in Workers : TRUE
    BY ThreadsNum DEF Workers
  <1>3. InFlight(t) \in Nat /\ InFlight(t)' = InFlight(t) /\ supply'[t] = supply[t]
    BY <1>1, <1>2, SchedulerFrame, InFlightStep
  <1>4. /\ supply[t] \in Nat /\ tenant_cycle_consumed[t] \in Nat /\ tenant_cycle_consumed'[t] \in Nat
        /\ cycle_used \in Nat /\ tenant_cycle_debt[t] \in Nat /\ tenant_cycle_debt'[t] \in Nat
        /\ cycle_used' \in Nat
    BY <1>1, ArithmeticAssumption DEF TypeOK
  <1>5. CASE Bystands
    <2>1. /\ Taken(t) = 0 /\ Taken(t)' = 0 /\ ~Settles(t)
          /\ tenant_cycle_consumed'[t] = tenant_cycle_consumed[t]
          /\ tenant_cycle_debt'[t] <= tenant_cycle_debt[t]
      BY <1>5, BystandsFacts DEF Taken, Settles, At, counters
    <2> QED
      BY <1>3, <1>4, <2>1 DEF Outstanding
  <1>6. CASE TakeCycles
    <2>1. /\ Taken(t) = 0 /\ ~Settles(t) /\ tenant_cycle_debt'[t] = tenant_cycle_debt[t]
          /\ Taken(t)' = IF st = t THEN tenant_cycle_consumed[t] ELSE 0
          /\ tenant_cycle_consumed'[t] = IF st = t THEN 0 ELSE tenant_cycle_consumed[t]
      BY <1>1, <1>6 DEF TypeOK, TakeCycles, Taken, Settles, At, Goto, budgets
    <2> QED
      BY <1>3, <1>4, <2>1 DEF Outstanding
  <1>7. CASE Settle
    <2>1. /\ Taken(t) = (IF st = t THEN cycle_used ELSE 0) /\ Taken(t)' = 0
          /\ Settles(t) <=> (st = t)
          /\ tenant_cycle_consumed'[t] = tenant_cycle_consumed[t]
      BY <1>7 DEF Settle, Taken, Settles, At, Goto
    <2>2. tenant_cycle_debt'[t] <= tenant_cycle_debt[t] + (IF st = t THEN cycle_used ELSE 0)
      BY <1>4, <1>7, SettledDebt
    <2> QED
      BY <1>3, <1>4, <2>1, <2>2 DEF Outstanding
  <1> QED
    BY <1>5, <1>6, <1>7, SchedulerCases

\* A settlement empties a byte counter; no step of the scheduler fills one.
LEMMA SchedulerBytes ==
    ASSUME BudgetInv, Scheduler, NEW r \in 1..SIZE_MAX, BytesFit(r)
    PROVE  BytesFit(r)'
  <1>1. BudgetInv' /\ TypeOK /\ TypeOK'
    BY NextBudgetInv DEF BudgetInv, Next
  <1>2. PICK v \in Workers : TRUE
    BY ThreadsNum DEF Workers
  <1>3. SUFFICES ASSUME NEW t \in Tenants
                 PROVE  supply'[t] * r + BytesInFlight(t)' + tenant_bw_consumed'[t] <= Traffic[t] * r
    BY DEF BytesFit
  <1>4. BytesInFlight(t) \in Nat /\ BytesInFlight(t)' = BytesInFlight(t) /\ supply'[t] = supply[t]
    BY <1>1, <1>2, SchedulerFrame, InFlightStep
  <1>5. tenant_bw_consumed'[t] <= tenant_bw_consumed[t]
    <2>1. CASE Bystands
      BY <1>1, <2>1, BystandsFacts, ArithmeticAssumption DEF counters, TypeOK
    <2>2. CASE TakeCycles
      BY <1>1, <2>2, ArithmeticAssumption DEF TakeCycles, TypeOK
    <2>3. CASE Settle
      BY <1>1, <2>3, ArithmeticAssumption DEF Settle, TypeOK
    <2> QED
      BY <2>1, <2>2, <2>3, SchedulerCases
  <1>6. PICK room : room = supply[t] * r
    OBVIOUS
  <1>7. PICK most : most = Traffic[t] * r
    OBVIOUS
  <1>8. room \in Nat /\ most \in Nat
    BY <1>1, <1>6, <1>7, ParameterAssumption, ProductIsNat DEF TypeOK
  <1>9. tenant_bw_consumed[t] \in Nat /\ tenant_bw_consumed'[t] \in Nat
    BY <1>1, ArithmeticAssumption DEF TypeOK
  <1>10. room + BytesInFlight(t) + tenant_bw_consumed[t] <= most
    BY <1>6, <1>7 DEF BytesFit
  <1>11. room + BytesInFlight(t)' + tenant_bw_consumed'[t] <= most
    BY <1>4, <1>5, <1>8, <1>9, <1>10
  <1> QED
    BY <1>4, <1>6, <1>7, <1>11

-----------------------------------------------------------------------------
(* No charge is lost                                                       *)

\* What makes NoChargeLost inductive.
ChargeInv == LedgerInv /\ WorkersCharging /\ CyclesFit /\ NoChargeLost

\* At the start all of the traffic is still to be received.
LEMMA InitOutstanding ==
    ASSUME Init, NEW t \in Tenants
    PROVE  /\ Outstanding(t) = Traffic[t]
           /\ BytesInFlight(t) = 0
           /\ WorkersCharging
  <1> DEFINE zero == [w \in Workers |-> 0]
  <1>1. [w \in Workers |-> HeldBy(w, t, cycle_delta)] = zero
        /\ [w \in Workers |-> HeldBy(w, t, packet_size)] = zero
    BY DEF Init, HeldBy
  <1>2. zero \in [Workers -> Nat] /\ \A w \in Workers : zero[w] = 0
    OBVIOUS
  <1> HIDE DEF zero
  <1>3. SumOverWorkers(zero) = 0
    BY <1>2, SumOfNothing
  <1>4. InFlight(t) = 0 /\ BytesInFlight(t) = 0
    BY <1>1, <1>3 DEF InFlight, BytesInFlight
  <1>5. Taken(t) = 0 /\ supply[t] = Traffic[t] /\ tenant_cycle_consumed[t] = 0
    BY DEF Init, Taken, At
  <1> QED
    BY <1>4, <1>5, ParameterAssumption DEF Init, Outstanding, WorkersCharging

\* The start of the ledger.
LEMMA LInitChargeInv == LInit => ChargeInv
  <1> SUFFICES ASSUME LInit PROVE ChargeInv
    OBVIOUS
  <1>1. Init /\ LedgerInv
    BY LInitLedgerInv DEF LInit
  <1>2. \A t \in Tenants : Outstanding(t) = Traffic[t] /\ WorkersCharging
    BY <1>1, InitOutstanding
  <1>3. \A t \in Tenants : /\ harvested[t] = 0 /\ tenant_cycle_debt[t] = 0 /\ Traffic[t] \in Nat
    BY <1>1, ParameterAssumption DEF LInit, Init
  <1>4. WorkersCharging
    BY <1>2, TenantsAre
  <1> QED
    BY <1>1, <1>2, <1>3, <1>4 DEF ChargeInv, CyclesFit, NoChargeLost

\* Every step keeps the balance of what is received, charged and harvested.
LEMMA LNextChargeInv ==
    ASSUME \A u \in Tenants : Traffic[u] <= SIZE_MAX, ChargeInv, [LNext]_lvars
    PROVE  ChargeInv'
  <1> USE DEF ChargeInv
  <1>1. LedgerInv' /\ BudgetInv
    BY LNextLedgerInv DEF LedgerInv
  <1>2. CASE UNCHANGED lvars
    <2>1. UNCHANGED vars /\ UNCHANGED harvested
      BY <1>2 DEF lvars, ledger
    <2>2. UNCHANGED <<supply, wq, wpc, cycle_delta, packet_size, tenant_cycle_consumed, spc, st,
                      cycle_used, tenant_cycle_debt>>
      BY <2>1 DEF vars, workers, counters, budgets, schLocals
    <2>3. \A t \in Tenants : Outstanding(t)' = Outstanding(t)
      BY <2>2 DEF Outstanding, InFlight, HeldBy, Taken, At
    <2>4. WorkersCharging'
      BY <2>2 DEF WorkersCharging
    <2> QED
      BY <1>1, <2>1, <2>2, <2>3, <2>4 DEF CyclesFit, NoChargeLost
  <1>3. CASE LNext
    <2>1. Next /\ Record
      BY <1>3 DEF LNext
    <2>2. \A t \in Tenants : harvested[t] \in Nat /\ Traffic[t] \in Nat /\ cycle_used \in Nat
                             /\ tenant_cycle_debt[t] \in Nat
      BY <1>1, ParameterAssumption, ArithmeticAssumption DEF LedgerInv, HistoryOK, BudgetInv, TypeOK
    <2>3. \A t \in Tenants : harvested'[t] = IF Settles(t) THEN harvested[t] + cycle_used
                                                           ELSE harvested[t]
      BY <2>1 DEF Record
    <2>4. CASE Scheduler
      <3>1. \A t \in Tenants :
               /\ Outstanding(t) \in Nat /\ Outstanding(t)' \in Nat
               /\ Outstanding(t)' = IF Settles(t) THEN Outstanding(t) - cycle_used ELSE Outstanding(t)
               /\ Outstanding(t)' + tenant_cycle_debt'[t] <= Outstanding(t) + tenant_cycle_debt[t]
        BY <1>1, <2>4, SchedulerCycles
      <3>2. WorkersCharging'
        BY <1>1, <2>4, SchedulerFrame DEF BudgetInv
      <3>3. \A t \in Tenants : tenant_cycle_debt'[t] \in Nat
        BY <1>1, ArithmeticAssumption DEF LedgerInv, BudgetInv, TypeOK
      <3>4. CyclesFit'
        BY <2>2, <3>1, <3>3 DEF CyclesFit
      <3>5. NoChargeLost'
        BY <2>2, <2>3, <3>1 DEF NoChargeLost
      <3> QED
        BY <1>1, <3>2, <3>4, <3>5
    <2>5. ASSUME NEW v \in Workers, Worker(v)
          PROVE  ChargeInv'
      <3>1. \A t \in Tenants : Outstanding(t)' = Outstanding(t)
        BY <1>1, <2>5, WorkerCycles
      <3>2. WorkersCharging'
        BY <1>1, <2>5, WorkerCharging DEF BudgetInv
      <3>3. UNCHANGED <<spc, tenant_cycle_debt>>
        BY <1>1, <2>5, WorkerFrame DEF BudgetInv, budgets
      <3>4. \A t \in Tenants : ~Settles(t)
        BY <3>3 DEF Settles, At
      <3> QED
        BY <1>1, <2>3, <3>1, <3>2, <3>3, <3>4 DEF CyclesFit, NoChargeLost
    <2> QED
      BY <2>1, <2>4, <2>5 DEF Next
  <1> QED
    BY <1>2, <1>3

\* Between the workers' fetch-adds and the scheduler's exchanges no cycle is
\* lost and none is counted twice, for any number of workers and wherever the
\* rollovers fall, provided a tenant's traffic fits in its size_t counter.
THEOREM ChargesConserved ==
    ASSUME \A t \in Tenants : Traffic[t] <= SIZE_MAX
    PROVE  LSpec => []NoChargeLost
  <1>1. LInit => ChargeInv
    BY LInitChargeInv
  <1>2. ChargeInv /\ [LNext]_lvars => ChargeInv'
    BY LNextChargeInv
  <1>3. ChargeInv => NoChargeLost
    BY DEF ChargeInv
  <1> QED
    BY <1>1, <1>2, <1>3, PTL DEF LSpec

-----------------------------------------------------------------------------
(* No restriction without a cause                                          *)

\* Charges only add to what a restriction was stored for.
LEMMA WorkerCause ==
    ASSUME BudgetInv, CauseInv, NEW v \in Workers, Worker(v),
           \A t \in Tenants : /\ tenant_cycle_consumed[t] <= tenant_cycle_consumed'[t]
                              /\ tenant_bw_consumed[t] <= tenant_bw_consumed'[t]
    PROVE  CauseInv'
  <1>1. TypeOK /\ TypeOK'
    BY WorkerInv DEF BudgetInv
  <1>2. UNCHANGED <<restrict_tenant, tenant_cycle_budget, tenant_bw_budget, spc, st, cycle_used,
                    restriction>>
    BY <1>1, WorkerFrame DEF budgets, schLocals
  <1>3. \A t \in Tenants :
            /\ tenant_cycle_consumed[t] \in Int /\ tenant_cycle_consumed'[t] \in Int
            /\ tenant_bw_consumed[t] \in Int /\ tenant_bw_consumed'[t] \in Int
            /\ tenant_cycle_budget[t] \in Int /\ tenant_bw_budget[t] \in Int
    BY <1>1, ArithmeticAssumption DEF TypeOK
  <1>4. ASSUME NEW t \in Tenants, NEW why, Cause(t, why) PROVE Cause(t, why)'
    BY <1>2, <1>3, <1>4 DEF Cause
  <1>5. \A t \in Tenants :
            (t \notin Accounted \/ Released(t)') => restrict_tenant'[t] = TENANT_RESTRICT_NONE
    BY <1>2 DEF CauseInv, Released, At
  <1>6. ~InRollover' => \A t \in Tenants : Cause(t, restrict_tenant[t])'
    <2> SUFFICES ASSUME ~InRollover', NEW t \in Tenants
                 PROVE  Cause(t, restrict_tenant[t])'
      OBVIOUS
    <2>1. Cause(t, restrict_tenant[t])
      BY <1>2 DEF CauseInv, InRollover
    <2> QED
      BY <1>2, <1>3, <2>1 DEF Cause
  <1>7. CheckInv'
    <2>1. spc \in {"check_bw", "check_store"} => st \in Tenants
      BY TenantsNum DEF BudgetInv, IndexOK
    <2>2. At("check_bw")' => cycle_used' <= tenant_cycle_consumed'[st']
      BY <1>1, <1>2, <1>3, <2>1, ArithmeticAssumption DEF CauseInv, CheckInv, At, TypeOK
    <2>3. At("check_store")' => Cause(st, restriction)'
      BY <1>2, <1>3, <2>1 DEF CauseInv, CheckInv, At, Cause
    <2> QED
      BY <1>2, <2>2, <2>3 DEF CauseInv, CheckInv
  <1> QED
    BY <1>5, <1>6, <1>7 DEF CauseInv

\* The steps of the scheduler outside a rollover: a restriction is stored for
\* values that the counters had a moment before.
LEMMA CheckCause ==
    ASSUME BudgetInv, CauseInv,
           \/ StartCheck \/ Reschedule \/ Activate \/ CheckBudget \/ StartRollover \/ SkipRollover
           \/ Report \/ SkipReport
    PROVE  CauseInv'
  <1> USE DEF At, Goto, counters, budgets, reports, schLocals
  <1>0. TypeOK /\ (spc \in {"check_bw", "check_store"} => st \in Tenants)
    BY TenantsNum DEF BudgetInv, IndexOK
  <1>1. UNCHANGED <<tenant_cycle_consumed, tenant_bw_consumed, tenant_cycle_budget,
                    tenant_bw_budget>>
    BY DEF StartCheck, Reschedule, Activate, CheckBudget, CheckSkip, CheckLoadCycles,
           CheckLoadBytes, CheckStore, CheckDone, StartRollover, SkipRollover, Report, SkipReport
  <1>2. ~InRollover
    BY DEF InRollover, StartCheck, Reschedule, Activate, CheckBudget, CheckSkip, CheckLoadCycles,
           CheckLoadBytes, CheckStore, CheckDone, StartRollover, SkipRollover, Report, SkipReport
  <1>3. \A t \in Tenants : Cause(t, restrict_tenant[t])
    BY <1>2 DEF CauseInv
  <1>4. \A t \in Tenants : ~Released(t)'
    BY <1>0, TenantsAre
       DEF Released, StartCheck, Reschedule, Activate, CheckBudget, CheckSkip, CheckLoadCycles,
           CheckLoadBytes, CheckStore, CheckDone, StartRollover, SkipRollover, Report, SkipReport
  <1>5. CASE CheckStore
    <2>1. st \in Tenants /\ st \in Accounted /\ Cause(st, restriction)
      BY <1>0, <1>5 DEF CheckStore, CauseInv, CheckInv, BudgetInv, IndexOK
    <2>2. \A t \in Tenants :
              restrict_tenant'[t] = IF t = st THEN restriction ELSE restrict_tenant[t]
      BY <1>0, <1>5 DEF CheckStore, TypeOK
    <2>3. \A t \in Tenants : Cause(t, restrict_tenant[t])'
      BY <1>1, <1>3, <2>1, <2>2 DEF Cause
    <2>4. \A t \in Tenants : t \notin Accounted => restrict_tenant'[t] = TENANT_RESTRICT_NONE
      BY <2>1, <2>2 DEF CauseInv
    <2>5. CheckInv'
      BY <1>5 DEF CheckInv, CheckStore
    <2> QED
      BY <1>4, <2>3, <2>4, <2>5 DEF CauseInv
  <1>6. CASE ~CheckStore
    <2>1. UNCHANGED restrict_tenant
      BY <1>6
         DEF StartCheck, Reschedule, Activate, CheckBudget, CheckSkip, CheckLoadCycles,
             CheckLoadBytes, CheckDone, StartRollover, SkipRollover, Report, SkipReport
    <2>2. \A t \in Tenants : Cause(t, restrict_tenant[t])'
      BY <1>1, <1>3, <2>1 DEF Cause
    <2>3. CheckInv'
      <3>1. CASE CheckLoadCycles
        BY <1>0, <3>1, TenantsNum, ArithmeticAssumption DEF CheckInv, CheckLoadCycles, TypeOK
      <3>2. CASE CheckLoadBytes
        <4>1. /\ spc = "check_bw" /\ st \in Tenants
              /\ restrict_tenant[st] = TENANT_RESTRICT_NONE
              /\ cycle_used <= tenant_cycle_consumed[st]
              /\ restriction' = RestrictionFor(cycle_used, tenant_cycle_budget[st],
                                               tenant_bw_consumed[st], tenant_bw_budget[st])
              /\ spc' = "check_store" => st' = st
              /\ spc' \in {"check", "check_store"}
          BY <1>0, <3>2 DEF CheckLoadBytes, CauseInv, CheckInv
        <4>2. /\ cycle_used \in Int /\ tenant_cycle_consumed[st] \in Int
              /\ tenant_cycle_budget[st] \in Int
          BY <1>0, <4>1, ArithmeticAssumption DEF TypeOK
        <4>3. Cause(st, restriction')
          BY <4>1, <4>2
             DEF Cause, RestrictionFor, TENANT_RESTRICT_NONE, TENANT_RESTRICT_CYCLE,
                 TENANT_RESTRICT_BW
        <4> QED
          BY <1>1, <2>1, <4>1, <4>3 DEF CheckInv, Cause
      <3>3. CASE ~CheckLoadCycles /\ ~CheckLoadBytes
        <4>1. spc' \notin {"check_bw", "check_store"}
          BY <1>6, <3>3
             DEF StartCheck, Reschedule, Activate, CheckBudget, CheckSkip, CheckDone, StartRollover,
                 SkipRollover, Report, SkipReport
        <4> QED
          BY <4>1 DEF CheckInv
      <3> QED
        BY <3>1, <3>2, <3>3
    <2> QED
      BY <1>4, <2>1, <2>2, <2>3 DEF CauseInv
  <1> QED
    BY <1>5, <1>6

\* A rollover releases every accounted tenant before it takes off the debts,
\* whichever of the modes' paths it takes.
LEMMA RolloverCause ==
    ASSUME BudgetInv, CauseInv, Rollover
    PROVE  CauseInv'
  <1> USE DEF At, Goto
  <1>0. TypeOK /\ st \in 0..2
    BY DEF BudgetInv, TypeOK, MAX_TENANT_NUM
  <1>1. SUFFICES /\ \A t \in Tenants : (t \notin Accounted \/ Released(t)')
                                           => restrict_tenant'[t] = TENANT_RESTRICT_NONE
                 /\ ~InRollover' => \A t \in Tenants : Cause(t, restrict_tenant[t])'
    <2>1. CheckInv'
      BY DEF CheckInv, Rollover, TakeCycles, Settle, Release, Redistribute, OffDone, BucketDone,
             Receive, ReceiveDone, DrfIdle, DrfSingle, DrfShare, DrfClear, DrfClearDone, ApplyDebt
    <2> QED
      BY <1>1, <2>1 DEF CauseInv
  <1>2. \A t \in Tenants :
            (t \notin Accounted \/ Released(t)) => restrict_tenant[t] = TENANT_RESTRICT_NONE
    BY DEF CauseInv
  <1>3. ASSUME NEW t \in Tenants, t \notin Accounted \/ Released(t)'
        PROVE  restrict_tenant'[t] = TENANT_RESTRICT_NONE
    <2>0. t \in 0..1 /\ restrict_tenant \in [Tenants -> Restrictions]
      BY <1>0, TenantsAre DEF TypeOK
    <2>1. CASE TakeCycles \/ Settle
      <3>1. UNCHANGED restrict_tenant /\ (Released(t)' => Released(t))
        BY <2>0, <2>1, <1>0 DEF TakeCycles, Settle, Released
      <3> QED
        BY <1>2, <1>3, <3>1
    <2>2. CASE Release \/ Receive \/ DrfClear
      <3>1. restrict_tenant' = [restrict_tenant EXCEPT ![st] = TENANT_RESTRICT_NONE]
        BY <2>2 DEF Release, Receive, DrfClear
      <3>2. (Released(t)' /\ t # st) => Released(t)
        BY <2>0, <2>2, <1>0 DEF Release, Receive, DrfClear, Released
      <3> QED
        BY <1>2, <1>3, <2>0, <3>1, <3>2
    <2>3. CASE OffDone \/ ReceiveDone \/ DrfClearDone
      <3>1. UNCHANGED restrict_tenant /\ (t \in Accounted => t < st)
        BY <1>0, <2>3, AllBelow DEF OffDone, SettleDone, ReceiveDone, DrfClearDone
      <3>2. t \in Accounted => Released(t)
        BY <2>3, <3>1 DEF OffDone, SettleDone, ReceiveDone, DrfClearDone, Released
      <3> QED
        BY <1>2, <3>1, <3>2
    <2>4. CASE BucketDone \/ DrfShare \/ ApplyDebt
      <3>1. UNCHANGED restrict_tenant /\ ~Released(t)'
        BY <2>0, <2>4 DEF BucketDone, DrfShare, ApplyDebt, Released
      <3> QED
        BY <1>2, <1>3, <3>1
    <2>5. CASE DrfIdle
      BY <1>2, <2>5 DEF DrfIdle, Active
    <2>6. CASE \E u \in Tenants : DrfSingle(u)
      <3>1. PICK u \in Tenants : DrfSingle(u)
        BY <2>6
      <3>2. /\ restrict_tenant' = [restrict_tenant EXCEPT ![u] = TENANT_RESTRICT_NONE]
            /\ Active = {u}
        BY <3>1 DEF DrfSingle
      <3>3. t # u => restrict_tenant[t] = TENANT_RESTRICT_NONE
        BY <1>2, <3>2 DEF Active
      <3> QED
        BY <2>0, <3>2, <3>3
    <2> QED
      BY <2>1, <2>2, <2>3, <2>4, <2>5, <2>6 DEF Rollover, Redistribute
  <1>4. ASSUME ~InRollover', NEW t \in Tenants
        PROVE  Cause(t, restrict_tenant[t])'
    <2>1. ApplyDebt
      BY <1>4
         DEF InRollover, Rollover, TakeCycles, Settle, Release, Redistribute, OffDone, BucketDone,
             Receive, ReceiveDone, DrfIdle, DrfSingle, DrfShare, DrfClear, DrfClearDone
    <2>2. restrict_tenant'[t] = TENANT_RESTRICT_NONE
      BY <1>2, <2>1 DEF ApplyDebt, Released
    <2> QED
      BY <2>2 DEF Cause, TENANT_RESTRICT_NONE, TENANT_RESTRICT_CYCLE, TENANT_RESTRICT_BW
  <1> QED
    BY <1>3, <1>4

\* At the start nothing is restricted, in flight or owed.
LEMMA InitTrafficInv ==
    ASSUME NEW r \in 1..SIZE_MAX, FitsAt(r), Init
    PROVE  TrafficInv(r)
  <1>1. BudgetInv
    BY InitBudgetInv
  <1>2. \A t \in Tenants : Outstanding(t) = Traffic[t] /\ BytesInFlight(t) = 0 /\ WorkersCharging
    BY InitOutstanding
  <1>3. WorkersCharging
    BY <1>2, TenantsAre
  <1>4. CyclesFit
    BY <1>2, ParameterAssumption DEF CyclesFit, Init
  <1>5. BytesFit(r)
    <2> SUFFICES ASSUME NEW t \in Tenants
                 PROVE  supply[t] * r + BytesInFlight(t) + tenant_bw_consumed[t] <= Traffic[t] * r
      BY DEF BytesFit
    <2>1. supply[t] = Traffic[t] /\ BytesInFlight(t) = 0 /\ tenant_bw_consumed[t] = 0
      BY <1>2 DEF Init
    <2>2. Traffic[t] * r \in Nat
      BY ParameterAssumption, ArithmeticAssumption, ProductIsNat
    <2> QED
      BY <2>1, <2>2
  <1>6. CauseInv
    BY DEF CauseInv, CheckInv, Cause, At, Init, TENANT_RESTRICT_NONE, TENANT_RESTRICT_CYCLE,
           TENANT_RESTRICT_BW
  <1> QED
    BY <1>1, <1>3, <1>4, <1>5, <1>6 DEF TrafficInv

\* No counter wraps if r bytes per cycle of all the traffic fit.
LEMMA TrafficBound ==
    ASSUME NEW r \in 1..SIZE_MAX, FitsAt(r)
    PROVE  \A t \in Tenants : Traffic[t] <= SIZE_MAX
  <1> SUFFICES ASSUME NEW t \in Tenants PROVE Traffic[t] <= SIZE_MAX
    OBVIOUS
  <1>1. Traffic[t] \in Nat /\ r \in Nat /\ 1 <= r /\ SIZE_MAX \in Nat
    BY ParameterAssumption, ArithmeticAssumption
  <1>2. Traffic[t] * 1 <= Traffic[t] * r
    BY <1>1, MulMono
  <1>3. Traffic[t] * r <= SIZE_MAX /\ Traffic[t] * r \in Nat
    BY <1>1, ProductIsNat DEF FitsAt
  <1> QED
    BY <1>1, <1>2, <1>3

\* A step of a worker.
LEMMA WorkerTrafficInv ==
    ASSUME NEW r \in 1..SIZE_MAX, FitsAt(r), TrafficInv(r), NEW v \in Workers, Worker(v)
    PROVE  TrafficInv(r)'
  <1>1. BudgetInv /\ WorkersCharging /\ CyclesFit /\ BytesFit(r) /\ CauseInv /\ TypeOK
    BY DEF TrafficInv, BudgetInv
  <1>2. \A t \in Tenants : /\ Outstanding(t)' = Outstanding(t)
                           /\ tenant_cycle_consumed[t] <= tenant_cycle_consumed'[t]
    BY <1>1, TrafficBound, WorkerCycles
  <1>3. \A t \in Tenants :
            /\ supply'[t] * r + BytesInFlight(t)' + tenant_bw_consumed'[t] <= Traffic[t] * r
            /\ tenant_bw_consumed[t] <= tenant_bw_consumed'[t]
    BY <1>1, WorkerBytes
  <1>4. BudgetInv'
    BY <1>1, WorkerInv
  <1>5. WorkersCharging'
    BY <1>1, WorkerCharging
  <1>6. CyclesFit'
    BY <1>1, <1>2, WorkerFrame DEF CyclesFit, budgets
  <1>7. BytesFit(r)'
    BY <1>3 DEF BytesFit
  <1>8. CauseInv'
    BY <1>1, <1>2, <1>3, WorkerCause
  <1> QED
    BY <1>4, <1>5, <1>6, <1>7, <1>8 DEF TrafficInv

\* A step of the scheduler.
LEMMA SchedulerTrafficInv ==
    ASSUME NEW r \in 1..SIZE_MAX, TrafficInv(r), Scheduler
    PROVE  TrafficInv(r)'
  <1>1. BudgetInv /\ WorkersCharging /\ CyclesFit /\ BytesFit(r) /\ CauseInv /\ TypeOK
    BY DEF TrafficInv, BudgetInv
  <1>2. BudgetInv'
    BY <1>1, NextBudgetInv DEF Next
  <1>3. WorkersCharging'
    BY <1>1, SchedulerFrame
  <1>4. CyclesFit'
    <2> SUFFICES ASSUME NEW t \in Tenants
                 PROVE  Outstanding(t)' + tenant_cycle_debt'[t] <= Traffic[t]
      BY DEF CyclesFit
    <2>1. /\ Outstanding(t) \in Nat /\ Outstanding(t)' \in Nat
          /\ Outstanding(t)' + tenant_cycle_debt'[t] <= Outstanding(t) + tenant_cycle_debt[t]
      BY <1>1, SchedulerCycles
    <2>2. tenant_cycle_debt[t] \in Nat /\ tenant_cycle_debt'[t] \in Nat /\ Traffic[t] \in Nat
      BY <1>1, <1>2, ParameterAssumption, ArithmeticAssumption DEF BudgetInv, TypeOK
    <2> QED
      BY <1>1, <2>1, <2>2 DEF CyclesFit
  <1>5. BytesFit(r)'
    BY <1>1, SchedulerBytes
  <1>6. CauseInv'
    BY <1>1, CheckCause, RolloverCause DEF Scheduler
  <1> QED
    BY <1>2, <1>3, <1>4, <1>5, <1>6 DEF TrafficInv

\* A step that changes nothing.
LEMMA StutterTrafficInv ==
    ASSUME NEW r \in 1..SIZE_MAX, TrafficInv(r), UNCHANGED vars
    PROVE  TrafficInv(r)'
  <1>1. BudgetInv'
    BY StutterInv DEF TrafficInv
  <1>2. UNCHANGED <<supply, wpc, wq, cycle_delta, packet_size, tenant_cycle_consumed,
                    tenant_bw_consumed, spc, st, cycle_used, restriction, tenant_cycle_debt,
                    restrict_tenant, tenant_cycle_budget, tenant_bw_budget>>
    BY DEF vars, workers, counters, budgets, schLocals
  <1>3. \A t \in Tenants : Outstanding(t)' = Outstanding(t) /\ BytesInFlight(t)' = BytesInFlight(t)
    BY <1>2 DEF Outstanding, InFlight, BytesInFlight, HeldBy, Taken, At
  <1>4. WorkersCharging' /\ CyclesFit' /\ BytesFit(r)'
    BY <1>2, <1>3 DEF TrafficInv, WorkersCharging, CyclesFit, BytesFit
  <1>5. CauseInv'
    BY <1>2 DEF TrafficInv, CauseInv, CheckInv, Cause, Released, InRollover, At
  <1> QED
    BY <1>1, <1>4, <1>5 DEF TrafficInv

\* TrafficInv is an invariant of the scheduler and its workers.
LEMMA TrafficInvariance ==
    ASSUME NEW r \in 1..SIZE_MAX, FitsAt(r)
    PROVE  Spec => []TrafficInv(r)
  <1>1. Init => TrafficInv(r)
    BY InitTrafficInv
  <1>2. TrafficInv(r) /\ [Next]_vars => TrafficInv(r)'
    BY WorkerTrafficInv, SchedulerTrafficInv, StutterTrafficInv DEF Next
  <1> QED
    BY <1>1, <1>2, PTL DEF Spec

\* Outside a rollover a tenant is restricted only for a budget that it has
\* used up, although the check compares values loaded before it stores the
\* restriction: no counter wraps around, so charges can only confirm it.
THEOREM RestrictedWithCause ==
    ASSUME TrafficFits
    PROVE  Spec => []RestrictedForCause
  <1>1. PICK r \in 1..SIZE_MAX : FitsAt(r)
    BY DEF TrafficFits
  <1>2. TrafficInv(r) => RestrictedForCause
    BY DEF TrafficInv, CauseInv, Cause, RestrictedForCause
  <1>3. Spec => []TrafficInv(r)
    BY <1>1, TrafficInvariance
  <1> QED
    BY <1>2, <1>3, PTL
-----------------------------------------------------------------------------
(* Traffic that never ends                                                 *)

\* What is outstanding is a number: cycles in flight are summed over the workers.
LEMMA OutstandingIsNat ==
    ASSUME TypeOK, NEW t \in Tenants
    PROVE  Outstanding(t) \in Nat
  <1> DEFINE f == [w \in Workers |-> IF wq[w] = t THEN cycle_delta[w] ELSE 0]
  <1>1. f \in [Workers -> Nat]
    BY ArithmeticAssumption DEF TypeOK
  <1>2. InFlight(t) = SumOverWorkers(f)
    BY DEF InFlight, HeldBy
  <1> HIDE DEF f
  <1>3. 0 \in Workers
    BY ThreadsNum DEF Workers
  <1>4. InFlight(t) \in Nat
    BY <1>1, <1>2, <1>3, SumUpdate
  <1>5. supply[t] \in Nat /\ tenant_cycle_consumed[t] \in Nat /\ Taken(t) \in Nat
    BY ArithmeticAssumption DEF TypeOK, Taken
  <1> QED
    BY <1>4, <1>5 DEF Outstanding

\* Packets that arrive change nothing that budgets or restrictions depend on.
LEMMA ArriveInv ==
    ASSUME BudgetInv, NEW t \in Tenants, Arrive(t)
    PROVE  BudgetInv'
  <1>1. supply' \in [Tenants -> Nat]
    <2>1. Outstanding(t) \in Nat
      BY OutstandingIsNat DEF BudgetInv
    <2>2. supply \in [Tenants -> Nat] /\ Traffic[t] \in Nat
      BY ParameterAssumption DEF BudgetInv, TypeOK
    <2>3. /\ Outstanding(t) < Traffic[t]
          /\ supply' = [supply EXCEPT ![t] = @ + (Traffic[t] - Outstanding(t))]
      BY DEF Arrive
    <2> QED
      BY <2>1, <2>2, <2>3
  <1> USE DEF BudgetInv, Arrive, counters, budgets, reports, schLocals, workers
  <1>2. TypeOK'
    BY <1>1 DEF TypeOK
  <1>3. IndexOK' /\ BudgetWithinCap' /\ SettledHasQuota' /\ DebtorChecked'
    BY DEF IndexOK, BudgetWithinCap, SettledHasQuota, Regranted, DebtorChecked, Checked,
           InRollover, At
  <1> QED
    BY <1>2, <1>3

\* Traffic does not disturb the inductive invariant of the accounts.
LEMMA SteadyBudgetInvariance == SteadySpec => []BudgetInv
  <1>1. BudgetInv /\ [SteadyNext]_vars => BudgetInv'
    BY NextBudgetInv, ArriveInv DEF SteadyNext
  <1> QED
    BY <1>1, InitBudgetInv, PTL DEF SteadySpec

\* Only sch_apply_cycle_debt ends the part of a rollover it belongs to.
LEMMA OnlyApplyDebtEndsApply ==
    ASSUME [SteadyNext]_vars, At("apply"), ~(At("apply"))'
    PROVE  ApplyDebt
  <1>1. spc = "apply" /\ spc' # "apply"
    BY DEF At
  <1>2. ~(\E t \in Tenants : Arrive(t)) /\ ~UNCHANGED vars
    BY <1>1 DEF Arrive, vars
  <1>3. ~(\E w \in Workers : Worker(w))
    BY <1>1 DEF Worker, PollSkip, PollHit, DrainStop, DrainPacket, ChargeCycles, ChargeBytes,
                BatchEnd, Wake
  <1>4. ~(StartCheck \/ Reschedule \/ Activate \/ CheckBudget \/ StartRollover \/ SkipRollover
          \/ Report \/ SkipReport)
    BY <1>1 DEF At, StartCheck, Reschedule, Activate, CheckBudget, CheckSkip, CheckLoadCycles,
                CheckLoadBytes, CheckStore, CheckDone, StartRollover, SkipRollover, Report, SkipReport
  <1>5. ~(TakeCycles \/ Settle \/ Release \/ Redistribute)
    BY <1>1 DEF At, TakeCycles, Settle, Release, Redistribute, SettleDone, OffDone, BucketDone,
                Receive, ReceiveDone, DrfIdle, DrfSingle, DrfShare, DrfClear, DrfClearDone
  <1> QED
    BY <1>2, <1>3, <1>4, <1>5 DEF SteadyNext, Next, Scheduler, Rollover

\* In every mode and whatever the traffic, a rollover takes at least one quota
\* off the debt of every accounted tenant, or all of it: when debts are taken
\* off, redistribution has left every tenant at least its quota.
THEOREM DebtsShrink == SteadySpec => QuotaPaysDebt
  <1>1. ASSUME BudgetInv, [SteadyNext]_vars, At("apply"), ~(At("apply"))', NEW t \in Accounted
        PROVE  \/ tenant_cycle_debt'[t] = 0
               \/ tenant_cycle_debt'[t] + tenant_cycle_target[t] <= tenant_cycle_debt[t]
    <2>1. ApplyDebt
      BY <1>1, OnlyApplyDebtEndsApply
    <2>2. t \in Tenants
      BY TenantsNum
    <2>3. tenant_cycle_target[t] \in Nat /\ tenant_cycle_target[t] <= tenant_cycle_budget[t]
      BY <1>1, <2>2, TargetFacts DEF BudgetInv, SettledHasQuota, Regranted, At
    <2>4. tenant_cycle_budget[t] \in Nat /\ tenant_cycle_debt[t] \in 0..SIZE_MAX
      BY <1>1, <2>2 DEF BudgetInv, TypeOK
    <2>5. /\ PaidOff(t).budget \in Nat /\ PaidOff(t).debt \in Nat
          /\ tenant_cycle_budget[t] - PaidOff(t).budget = tenant_cycle_debt[t] - PaidOff(t).debt
          /\ PaidOff(t).budget = 0 \/ PaidOff(t).debt = 0
      BY <2>4, ApplyDebtFacts DEF PaidOff
    <2>6. tenant_cycle_debt'[t] = PaidOff(t).debt
      BY <2>1, <2>2 DEF ApplyDebt
    <2> QED
      BY <2>3, <2>4, <2>5, <2>6
  <1>2. BudgetInv /\ [SteadyNext]_vars =>
            [At("apply") /\ ~(At("apply"))' =>
                \A t \in Accounted :
                    tenant_cycle_debt'[t] = 0
                    \/ tenant_cycle_debt'[t] + tenant_cycle_target[t] <= tenant_cycle_debt[t]]_vars
    BY <1>1
  <1> QED
    BY <1>2, SteadyBudgetInvariance, PTL DEF SteadySpec, QuotaPaysDebt
=============================================================================
