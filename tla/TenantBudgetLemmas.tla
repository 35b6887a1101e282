------------------------- MODULE TenantBudgetLemmas -------------------------
(***************************************************************************)
(* What the functions of TenantBudget return, for all budgets, quotas,     *)
(* pools and weights.                                                      *)
(***************************************************************************)
EXTENDS TenantBudget, TLAPS

\* Integer division as the code uses it: the quotient times the divisor does
\* not exceed the dividend.
LEMMA DivFacts ==
    ASSUME NEW a \in Nat, NEW b \in Nat \ {0}
    PROVE  /\ a \div b \in Nat
           /\ (a \div b) * b <= a
           /\ a < (a \div b) * b + b
  OBVIOUS

\* Products of natural numbers are natural numbers, for factors the solver
\* cannot multiply out.
LEMMA ProductIsNat ==
    ASSUME NEW a \in Nat, NEW b \in Nat
    PROVE  a * b \in Nat
  OBVIOUS

\* sch_budget_cap never returns less than the target, so the subtraction
\* cap - quota in sch_budget_settle does not wrap.
LEMMA CapFacts ==
    ASSUME NEW target \in Nat
    PROVE  /\ sch_budget_cap(target) \in Nat
           /\ sch_budget_cap(target) >= target
  <1> DEFINE p == target * WC_BUDGET_CAP_NUM
  <1>1. p \in Nat
    BY ArithmeticAssumption, ProductIsNat
  <1>2. p \div WC_BUDGET_CAP_DEN \in Nat
    BY <1>1, DivFacts, ArithmeticAssumption
  <1> QED
    BY <1>2 DEF sch_budget_cap

\* sch_cycle_record_debt adds the excess and saturates: despite the wrapping
\* addition the debt never goes down.
LEMMA RecordDebtFacts ==
    ASSUME NEW budget \in Nat, NEW used \in 0..SIZE_MAX, NEW debt \in 0..SIZE_MAX
    PROVE  LET d == sch_cycle_record_debt(budget, used, debt)
               excess == IF used > budget THEN used - budget ELSE 0
           IN  /\ d \in 0..SIZE_MAX
               /\ d = IF debt + excess > SIZE_MAX THEN SIZE_MAX ELSE debt + excess
  BY ArithmeticAssumption DEF sch_cycle_record_debt, SizeAdd

\* Budget and debt fall by the same amount, and one of them becomes zero.
LEMMA ApplyDebtFacts ==
    ASSUME NEW budget \in Nat, NEW debt \in 0..SIZE_MAX
    PROVE  LET a == sch_cycle_apply_debt(budget, debt)
           IN  /\ a.budget \in Nat
               /\ a.debt \in 0..SIZE_MAX
               /\ a.budget <= budget
               /\ budget - a.budget = debt - a.debt
               /\ a.budget = 0 \/ a.debt = 0
  BY ArithmeticAssumption DEF sch_cycle_apply_debt

\* Settling conserves budget: quota plus what was carried over is exactly
\* the new budget plus the spill.
LEMMA SettleFacts ==
    ASSUME NEW quota \in Nat, NEW cap \in Nat, NEW used \in Nat, NEW budget \in Nat,
           quota <= cap
    PROVE  LET s == sch_budget_settle(quota, cap, used, budget)
           IN  /\ s.budget \in Nat
               /\ s.spill \in Nat
               /\ quota <= s.budget
               /\ s.budget <= cap
               /\ s.budget + s.spill = quota + (IF budget > used THEN budget - used ELSE 0)
  BY DEF sch_budget_settle

\* Receiving conserves budget and stops at the cap.
LEMMA ReceiveFacts ==
    ASSUME NEW budget \in Nat, NEW cap \in Nat, NEW pool \in Nat, budget <= cap
    PROVE  LET r == sch_budget_receive(budget, cap, pool)
           IN  /\ r.budget \in Nat
               /\ r.left \in Nat
               /\ budget <= r.budget
               /\ r.budget <= cap
               /\ r.budget + r.left = budget + pool
  BY DEF sch_budget_receive, sch_min_u64

\* sch_budget_reclaim_over_target cuts a budget to its quota at most and puts
\* exactly what it cuts into the pool.
LEMMA ReclaimFacts ==
    ASSUME NEW budget \in Nat, NEW target \in Nat, target <= budget
    PROVE  LET r == sch_budget_reclaim_over_target(budget, target)
           IN  /\ r.budget = target
               /\ r.excess = budget - target
  BY DEF sch_budget_reclaim_over_target

-----------------------------------------------------------------------------
(***************************************************************************)
(* The DRF division.  The clamps on alloc in sch_distribute_drf_pool are   *)
(* compiled out; these lemmas show that they could never have acted.       *)
(***************************************************************************)
LEMMA MulMono ==
    ASSUME NEW a \in Nat, NEW b \in Nat, NEW c \in Nat, a <= b
    PROVE  a * c <= b * c
  OBVIOUS

\* A common factor cancels.
LEMMA MulCancel ==
    ASSUME NEW a \in Nat, NEW b \in Nat, NEW c \in Nat \ {0}, a * c <= b * c
    PROVE  a <= b
  <1>1. SUFFICES ASSUME b + 1 <= a PROVE FALSE
    OBVIOUS
  <1>2. (b + 1) * c <= a * c
    BY <1>1, MulMono
  <1>3. (b + 1) * c = b * c + c
    OBVIOUS
  <1>4. b * c \in Nat /\ a * c \in Nat
    OBVIOUS
  <1> QED
    BY <1>2, <1>3, <1>4

\* sch_ratio_q20 rounds down.
LEMMA RatioFacts ==
    ASSUME NEW amount \in Nat, NEW target \in Nat
    PROVE  /\ sch_ratio_q20(amount, target) \in Nat
           /\ sch_ratio_q20(amount, target) * target <= amount * DRF_ONE
  <1>1. amount * DRF_ONE \in Nat
    BY ArithmeticAssumption, ProductIsNat
  <1>2. CASE amount = 0 \/ target = 0
    BY <1>1, <1>2 DEF sch_ratio_q20
  <1>3. CASE amount # 0 /\ target # 0
    BY <1>1, <1>3, DivFacts DEF sch_ratio_q20
  <1> QED
    BY <1>2, <1>3

\* sch_drf_alloc rounds down.
LEMMA AllocFacts ==
    ASSUME NEW delta \in Nat, NEW target \in Nat
    PROVE  /\ sch_drf_alloc(delta, target) \in Nat
           /\ sch_drf_alloc(delta, target) * DRF_ONE <= delta * target
  <1>1. delta * target \in Nat
    BY ProductIsNat
  <1> QED
    BY <1>1, DivFacts, ArithmeticAssumption DEF sch_drf_alloc

\* A fraction that a tenant's room allows never takes it above its cap.
LEMMA AllocWithinRoom ==
    ASSUME NEW delta \in Nat, NEW target \in Nat, NEW room \in Nat,
           delta <= sch_ratio_q20(room, target)
    PROVE  sch_drf_alloc(delta, target) <= room
  <1> DEFINE ratio == sch_ratio_q20(room, target)
             alloc == sch_drf_alloc(delta, target)
  <1>1. ratio \in Nat /\ ratio * target <= room * DRF_ONE
    BY RatioFacts
  <1>2. alloc \in Nat /\ alloc * DRF_ONE <= delta * target
    BY AllocFacts
  <1>3. delta * target <= ratio * target
    BY <1>1, MulMono
  <1>4. /\ ratio * target \in Nat /\ room * DRF_ONE \in Nat
        /\ alloc * DRF_ONE \in Nat /\ delta * target \in Nat
    BY <1>1, <1>2, ArithmeticAssumption, ProductIsNat
  <1> HIDE DEF ratio, alloc
  <1>5. alloc * DRF_ONE <= room * DRF_ONE
    BY <1>1, <1>2, <1>3, <1>4
  <1>6. alloc <= room
    BY <1>2, <1>5, ArithmeticAssumption, MulCancel
  <1> QED
    BY <1>6 DEF alloc

\* A fraction that the pool allows for the sum of two targets can be granted
\* to both.
LEMMA AllocsWithinPool ==
    ASSUME NEW delta \in Nat, NEW ta \in Nat, NEW tb \in Nat, NEW pool \in Nat,
           delta <= sch_ratio_q20(pool, ta + tb)
    PROVE  sch_drf_alloc(delta, ta) + sch_drf_alloc(delta, tb) <= pool
  <1> DEFINE ratio == sch_ratio_q20(pool, ta + tb)
             xa == sch_drf_alloc(delta, ta)
             xb == sch_drf_alloc(delta, tb)
  <1>0. ta + tb \in Nat
    OBVIOUS
  <1>1. ratio \in Nat /\ ratio * (ta + tb) <= pool * DRF_ONE
    BY <1>0, RatioFacts
  <1>2. xa \in Nat /\ xa * DRF_ONE <= delta * ta
    BY AllocFacts
  <1>3. xb \in Nat /\ xb * DRF_ONE <= delta * tb
    BY AllocFacts
  <1>4. delta * (ta + tb) <= ratio * (ta + tb)
    BY <1>0, <1>1, MulMono
  <1>5. delta * (ta + tb) = delta * ta + delta * tb
    OBVIOUS
  <1> HIDE DEF ratio, xa, xb
  <1>6. (xa + xb) * DRF_ONE = xa * DRF_ONE + xb * DRF_ONE
    BY <1>2, <1>3, ArithmeticAssumption
  <1>7. /\ ratio * (ta + tb) \in Nat /\ pool * DRF_ONE \in Nat
        /\ delta * ta \in Nat /\ delta * tb \in Nat
        /\ xa * DRF_ONE \in Nat /\ xb * DRF_ONE \in Nat
    BY <1>1, <1>2, <1>3, ArithmeticAssumption, ProductIsNat
  <1>8. (xa + xb) * DRF_ONE <= pool * DRF_ONE
    BY <1>1, <1>2, <1>3, <1>4, <1>5, <1>6, <1>7
  <1>9. xa + xb <= pool
    BY <1>2, <1>3, <1>8, ArithmeticAssumption, MulCancel
  <1> QED
    BY <1>9 DEF xa, xb

Account == [budget : Nat, target : Nat, cap : Nat]

\* The common fraction respects every limit that went into it.
LEMMA DeltaFacts ==
    ASSUME NEW restrict \in [Tenants -> Restrictions],
           NEW cyc \in [Tenants -> Account], NEW bw \in [Tenants -> Account],
           NEW cp \in Nat, NEW bp \in Nat
    PROVE  LET d  == common_delta_q20(restrict, cyc, bw, cp, bp)
               cs == TargetSum(restrict, TENANT_RESTRICT_CYCLE, cyc)
               bs == TargetSum(restrict, TENANT_RESTRICT_BW, bw)
           IN  /\ d \in Nat
               /\ \A t \in Tenants :
                     /\ restrict[t] = TENANT_RESTRICT_CYCLE =>
                            d <= sch_ratio_q20(RoomUnderCap(cyc[t]), cyc[t].target)
                     /\ restrict[t] = TENANT_RESTRICT_BW =>
                            d <= sch_ratio_q20(RoomUnderCap(bw[t]), bw[t].target)
               /\ cs # 0 => d <= sch_ratio_q20(cp, cs)
               /\ bs # 0 => d <= sch_ratio_q20(bp, bs)
  <1> DEFINE cs == TargetSum(restrict, TENANT_RESTRICT_CYCLE, cyc)
             bs == TargetSum(restrict, TENANT_RESTRICT_BW, bw)
             d0 == TenantDelta(restrict, cyc, bw, 0, DRF_CAP_EXTRA_Q20)
             d1 == TenantDelta(restrict, cyc, bw, 1, d0)
             d2 == PoolDelta(cp, cs, d1)
             d3 == PoolDelta(bp, bs, d2)
             rc(t) == sch_ratio_q20(RoomUnderCap(cyc[t]), cyc[t].target)
             rb(t) == sch_ratio_q20(RoomUnderCap(bw[t]), bw[t].target)
  <1>1. 0 \in Tenants /\ 1 \in Tenants /\ Tenants = {0, 1}
    BY DEF Tenants, MAX_TENANT_NUM
  <1>2. \A t \in Tenants : RoomUnderCap(cyc[t]) \in Nat /\ RoomUnderCap(bw[t]) \in Nat
    BY DEF RoomUnderCap, Account
  <1>3. \A t \in Tenants : cyc[t].target \in Nat /\ bw[t].target \in Nat
    BY DEF Account
  <1>4. \A t \in Tenants : rc(t) \in Nat /\ rb(t) \in Nat
    BY <1>2, <1>3, RatioFacts
  <1>5. cs \in Nat /\ bs \in Nat
    BY <1>1, <1>3 DEF TargetSum, TargetOf
  <1>6. sch_ratio_q20(cp, cs) \in Nat /\ sch_ratio_q20(bp, bs) \in Nat
    BY <1>5, RatioFacts
  <1>7. DRF_CAP_EXTRA_Q20 \in Nat
    <2>1. CASE WC_BUDGET_CAP_NUM > WC_BUDGET_CAP_DEN
      <3>1. WC_BUDGET_CAP_NUM - WC_BUDGET_CAP_DEN \in Nat
        BY <2>1, ArithmeticAssumption
      <3>2. (WC_BUDGET_CAP_NUM - WC_BUDGET_CAP_DEN) * DRF_ONE \in Nat
        BY <3>1, ArithmeticAssumption, ProductIsNat
      <3> QED
        BY <2>1, <3>2, DivFacts, ArithmeticAssumption DEF DRF_CAP_EXTRA_Q20
    <2>2. CASE ~(WC_BUDGET_CAP_NUM > WC_BUDGET_CAP_DEN)
      BY <2>2 DEF DRF_CAP_EXTRA_Q20
    <2> QED
      BY <2>1, <2>2
  <1>8. ASSUME NEW t \in Tenants, NEW d \in Nat
        PROVE  LET e == TenantDelta(restrict, cyc, bw, t, d)
               IN  /\ e \in Nat
                   /\ e <= d
                   /\ restrict[t] = TENANT_RESTRICT_CYCLE => e <= rc(t)
                   /\ restrict[t] = TENANT_RESTRICT_BW => e <= rb(t)
    <2>1. rc(t) \in Nat /\ rb(t) \in Nat
      BY <1>4
    <2>2. TenantDelta(restrict, cyc, bw, t, d) =
              IF restrict[t] = TENANT_RESTRICT_NONE THEN d
              ELSE IF restrict[t] = TENANT_RESTRICT_CYCLE THEN sch_min_u64(d, rc(t))
              ELSE sch_min_u64(d, rb(t))
      BY DEF TenantDelta
    <2> HIDE DEF rc, rb
    <2> QED
      BY <2>1, <2>2 DEF sch_min_u64, TENANT_RESTRICT_NONE, TENANT_RESTRICT_CYCLE, TENANT_RESTRICT_BW
  <1>9. ASSUME NEW pool \in Nat, NEW sum \in Nat, NEW d \in Nat
        PROVE  LET e == PoolDelta(pool, sum, d)
               IN  /\ e \in Nat
                   /\ e <= d
                   /\ sum # 0 => e <= sch_ratio_q20(pool, sum)
    <2>1. sch_ratio_q20(pool, sum) \in Nat
      BY RatioFacts
    <2> QED
      BY <2>1 DEF PoolDelta, sch_min_u64
  <1>10. common_delta_q20(restrict, cyc, bw, cp, bp) = d3
    BY DEF common_delta_q20
  <1> HIDE DEF cs, bs, d0, d1, d2, d3, rc, rb
  <1>11. /\ d0 \in Nat
         /\ restrict[0] = TENANT_RESTRICT_CYCLE => d0 <= rc(0)
         /\ restrict[0] = TENANT_RESTRICT_BW => d0 <= rb(0)
    BY <1>1, <1>7, <1>8 DEF d0
  <1>12. /\ d1 \in Nat
         /\ d1 <= d0
         /\ restrict[1] = TENANT_RESTRICT_CYCLE => d1 <= rc(1)
         /\ restrict[1] = TENANT_RESTRICT_BW => d1 <= rb(1)
    BY <1>1, <1>11, <1>8 DEF d1
  <1>13. d2 \in Nat /\ d2 <= d1 /\ (cs # 0 => d2 <= sch_ratio_q20(cp, cs))
    BY <1>5, <1>9, <1>12 DEF d2
  <1>14. d3 \in Nat /\ d3 <= d2 /\ (bs # 0 => d3 <= sch_ratio_q20(bp, bs))
    BY <1>5, <1>9, <1>13 DEF d3
  <1>15. cs # 0 => d3 <= sch_ratio_q20(cp, cs)
    BY <1>6, <1>13, <1>14
  <1>16. \A t \in Tenants : /\ restrict[t] = TENANT_RESTRICT_CYCLE => d3 <= rc(t)
                            /\ restrict[t] = TENANT_RESTRICT_BW => d3 <= rb(t)
    BY <1>1, <1>4, <1>11, <1>12, <1>13, <1>14
  <1> QED
    BY <1>10, <1>14, <1>15, <1>16 DEF cs, bs, rc, rb

\* A fraction of nothing is nothing.
LEMMA AllocOfNothing ==
    ASSUME NEW delta \in Nat
    PROVE  sch_drf_alloc(delta, 0) = 0
  <1>1. /\ sch_drf_alloc(delta, 0) \in Nat
        /\ sch_drf_alloc(delta, 0) * DRF_ONE <= 0 * DRF_ONE
    BY AllocFacts, ArithmeticAssumption
  <1> QED
    BY <1>1, ArithmeticAssumption, MulCancel

\* Granting a fraction that respects the rooms and the pool: budgets do not
\* fall, stay under their caps, and take no more than the pool holds.
LEMMA GrantFacts ==
    ASSUME NEW restrict \in [Tenants -> Restrictions], NEW kind \in Restrictions,
           NEW acct \in [Tenants -> Account], NEW delta \in Nat, NEW pool \in Nat,
           \A t \in Tenants : acct[t].budget <= acct[t].cap,
           \A t \in Tenants : restrict[t] = kind =>
               delta <= sch_ratio_q20(RoomUnderCap(acct[t]), acct[t].target),
           TargetSum(restrict, kind, acct) # 0 =>
               delta <= sch_ratio_q20(pool, TargetSum(restrict, kind, acct))
    PROVE  LET b == DrfBudgets(restrict, kind, acct, delta)
           IN  /\ b \in [Tenants -> Nat]
               /\ \A t \in Tenants : acct[t].budget <= b[t] /\ b[t] <= acct[t].cap
               /\ Total(b) <= acct[0].budget + acct[1].budget + pool
  <1> DEFINE tgt(t) == TargetOf(restrict, kind, acct, t)
             alloc(t) == sch_drf_alloc(delta, tgt(t))
             b == DrfBudgets(restrict, kind, acct, delta)
  <1>1. 0 \in Tenants /\ 1 \in Tenants
    BY DEF Tenants, MAX_TENANT_NUM
  <1>2. \A t \in Tenants : /\ acct[t].budget \in Nat
                           /\ acct[t].target \in Nat
                           /\ acct[t].cap \in Nat
                           /\ RoomUnderCap(acct[t]) \in Nat
                           /\ RoomUnderCap(acct[t]) = acct[t].cap - acct[t].budget
    BY DEF Account, RoomUnderCap
  <1>3. \A t \in Tenants : tgt(t) \in Nat
    BY <1>2 DEF TargetOf
  <1>4. \A t \in Tenants : alloc(t) \in Nat
    BY <1>3, AllocFacts
  <1>5. \A t \in Tenants : b[t] = acct[t].budget + alloc(t)
    <2> SUFFICES ASSUME NEW t \in Tenants PROVE b[t] = acct[t].budget + alloc(t)
      OBVIOUS
    <2>1. CASE restrict[t] = kind
      BY <2>1 DEF DrfBudgets, TargetOf
    <2>2. CASE restrict[t] # kind
      BY <1>2, <2>2, AllocOfNothing DEF DrfBudgets, TargetOf
    <2> QED
      BY <2>1, <2>2
  <1>6. \A t \in Tenants : alloc(t) <= acct[t].cap - acct[t].budget
    <2> SUFFICES ASSUME NEW t \in Tenants PROVE alloc(t) <= acct[t].cap - acct[t].budget
      OBVIOUS
    <2>1. CASE restrict[t] = kind
      <3>1. tgt(t) = acct[t].target
        BY <2>1 DEF TargetOf
      <3>2. delta <= sch_ratio_q20(RoomUnderCap(acct[t]), acct[t].target)
        BY <2>1
      <3>3. sch_drf_alloc(delta, acct[t].target) <= RoomUnderCap(acct[t])
        BY <1>2, <3>2, AllocWithinRoom
      <3> QED
        BY <1>2, <3>1, <3>3
    <2>2. CASE restrict[t] # kind
      <3>1. alloc(t) = 0
        BY <2>2, AllocOfNothing DEF TargetOf
      <3> HIDE DEF alloc
      <3> QED
        BY <1>2, <3>1
    <2> QED
      BY <2>1, <2>2
  <1>7. TargetSum(restrict, kind, acct) = tgt(0) + tgt(1)
    BY DEF TargetSum
  <1>8. alloc(0) + alloc(1) <= pool
    <2>1. CASE tgt(0) + tgt(1) # 0
      BY <1>1, <1>3, <1>7, <2>1, AllocsWithinPool
    <2>2. CASE tgt(0) + tgt(1) = 0
      <3>1. tgt(0) = 0 /\ tgt(1) = 0
        BY <1>1, <1>3, <2>2
      <3> QED
        BY <3>1, AllocOfNothing
    <2> QED
      BY <2>1, <2>2
  <1>9. b \in [Tenants -> Nat]
    <2>1. b = [t \in Tenants |-> b[t]]
      BY DEF DrfBudgets
    <2> HIDE DEF alloc, b
    <2>2. \A t \in Tenants : b[t] \in Nat
      BY <1>2, <1>4, <1>5
    <2> QED
      BY <2>1, <2>2
  <1> HIDE DEF alloc, b
  <1>10. \A t \in Tenants : acct[t].budget <= b[t] /\ b[t] <= acct[t].cap
    BY <1>2, <1>4, <1>5, <1>6
  <1>11. Total(b) <= acct[0].budget + acct[1].budget + pool
    BY <1>1, <1>2, <1>4, <1>5, <1>8 DEF Total
  <1> QED
    BY <1>9, <1>10, <1>11 DEF b

\* sch_distribute_drf_pool as a whole: no budget leaves the range from what
\* it was to its cap, and neither pool is overdrawn.
THEOREM DrfDistributionSound ==
    ASSUME NEW restrict \in [Tenants -> Restrictions],
           NEW cyc \in [Tenants -> Account], NEW bw \in [Tenants -> Account],
           NEW cp \in Nat, NEW bp \in Nat,
           \A t \in Tenants : cyc[t].budget <= cyc[t].cap /\ bw[t].budget <= bw[t].cap
    PROVE  LET s == sch_distribute_drf_pool(restrict, cyc, bw, cp, bp)
           IN  /\ s.cycle \in [Tenants -> Nat]
               /\ s.bw \in [Tenants -> Nat]
               /\ \A t \in Tenants : /\ cyc[t].budget <= s.cycle[t] /\ s.cycle[t] <= cyc[t].cap
                                     /\ bw[t].budget <= s.bw[t] /\ s.bw[t] <= bw[t].cap
               /\ Total(s.cycle) <= cyc[0].budget + cyc[1].budget + cp
               /\ Total(s.bw) <= bw[0].budget + bw[1].budget + bp
  <1> DEFINE d == common_delta_q20(restrict, cyc, bw, cp, bp)
             c2 == DrfBudgets(restrict, TENANT_RESTRICT_CYCLE, cyc, d)
             b2 == DrfBudgets(restrict, TENANT_RESTRICT_BW, bw, d)
  <1>1. TENANT_RESTRICT_CYCLE \in Restrictions /\ TENANT_RESTRICT_BW \in Restrictions
    BY DEF Restrictions
  <1>2. /\ d \in Nat
        /\ \A t \in Tenants :
              /\ restrict[t] = TENANT_RESTRICT_CYCLE =>
                     d <= sch_ratio_q20(RoomUnderCap(cyc[t]), cyc[t].target)
              /\ restrict[t] = TENANT_RESTRICT_BW =>
                     d <= sch_ratio_q20(RoomUnderCap(bw[t]), bw[t].target)
        /\ TargetSum(restrict, TENANT_RESTRICT_CYCLE, cyc) # 0 =>
              d <= sch_ratio_q20(cp, TargetSum(restrict, TENANT_RESTRICT_CYCLE, cyc))
        /\ TargetSum(restrict, TENANT_RESTRICT_BW, bw) # 0 =>
              d <= sch_ratio_q20(bp, TargetSum(restrict, TENANT_RESTRICT_BW, bw))
    BY DeltaFacts
  <1> HIDE DEF d
  <1>3. /\ c2 \in [Tenants -> Nat]
        /\ \A t \in Tenants : cyc[t].budget <= c2[t] /\ c2[t] <= cyc[t].cap
        /\ Total(c2) <= cyc[0].budget + cyc[1].budget + cp
    BY <1>1, <1>2, GrantFacts
  <1>4. /\ b2 \in [Tenants -> Nat]
        /\ \A t \in Tenants : bw[t].budget <= b2[t] /\ b2[t] <= bw[t].cap
        /\ Total(b2) <= bw[0].budget + bw[1].budget + bp
    BY <1>1, <1>2, GrantFacts
  <1>5. /\ sch_distribute_drf_pool(restrict, cyc, bw, cp, bp).cycle = c2
        /\ sch_distribute_drf_pool(restrict, cyc, bw, cp, bp).bw = b2
    BY DEF sch_distribute_drf_pool, d
  <1> HIDE DEF c2, b2
  <1> QED
    BY <1>3, <1>4, <1>5
=============================================================================
