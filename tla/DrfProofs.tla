----------------------------- MODULE DrfProofs ------------------------------
(***************************************************************************)
(* The DRF division gives every restricted tenant the largest fair share,  *)
(* and never more than the pools hold: for all quotas, pools, caps and     *)
(* dominant resources.                                                     *)
(***************************************************************************)
EXTENDS DrfDivision, TenantBudgetLemmas

-----------------------------------------------------------------------------
(* The fraction as a maximum                                               *)

\* The fractions under a ratio that sch_ratio_q20 has rounded down are exactly
\* those that fit.
LEMMA RatioIsLargest ==
    ASSUME NEW amount \in Nat, NEW quota \in Nat \ {0}, NEW d \in Nat
    PROVE  d <= sch_ratio_q20(amount, quota) <=> d * quota <= amount * DRF_ONE
  <1> DEFINE q == sch_ratio_q20(amount, quota)
             a == amount * DRF_ONE
  <1>1. a \in Nat
    BY ArithmeticAssumption, ProductIsNat
  <1>2. q \in Nat /\ q * quota <= a
    BY RatioFacts
  <1>3. a < q * quota + quota
    <2>1. CASE amount = 0
      <3>1. q = 0 /\ a = 0
        BY <2>1, ArithmeticAssumption DEF sch_ratio_q20
      <3> QED
        BY <3>1
    <2>2. CASE amount # 0
      <3>1. q = a \div quota
        BY <2>2 DEF sch_ratio_q20
      <3> HIDE DEF q, a
      <3> QED
        BY <1>1, <3>1, DivFacts
    <2> QED
      BY <2>1, <2>2
  <1> HIDE DEF q, a
  <1>4. ASSUME d <= q PROVE d * quota <= a
    <2>1. d * quota <= q * quota
      BY <1>2, <1>4, MulMono
    <2>2. d * quota \in Nat /\ q * quota \in Nat
      BY <1>2, ProductIsNat
    <2> QED
      BY <1>1, <1>2, <2>1, <2>2
  <1>5. ASSUME d * quota <= a PROVE d <= q
    <2> SUFFICES ASSUME q + 1 <= d PROVE FALSE
      BY <1>2
    <2>1. (q + 1) * quota <= d * quota
      BY <1>2, MulMono
    <2>2. (q + 1) * quota = q * quota + quota
      BY <1>2
    <2>3. d * quota \in Nat /\ q * quota \in Nat
      BY <1>2, ProductIsNat
    <2> QED
      BY <1>1, <1>3, <1>5, <2>1, <2>2, <2>3
  <1> QED
    BY <1>4, <1>5 DEF q, a

\* The state a division starts from.
DivisionOK ==
    /\ restrict \in [Tenants -> {TENANT_RESTRICT_CYCLE, TENANT_RESTRICT_BW}]
    /\ target \in [Tenants -> Nat \ {0}]
    /\ cycle_pool \in Nat
    /\ bw_pool \in Nat

\* What sch_distribute_drf_pool is called with.
LEMMA AccountFacts ==
    ASSUME DivisionOK
    PROVE  /\ restrict \in [Tenants -> Restrictions]
           /\ Accounts \in [Tenants -> Account]
           /\ \A t \in Tenants : /\ Accounts[t].budget = target[t]
                                 /\ Accounts[t].target = target[t]
                                 /\ Accounts[t].cap = sch_budget_cap(target[t])
                                 /\ target[t] <= sch_budget_cap(target[t])
                                 /\ sch_budget_cap(target[t]) \in Nat
                                 /\ RoomUnderCap(Accounts[t]) = sch_budget_cap(target[t]) - target[t]
                                 /\ RoomUnderCap(Accounts[t]) \in Nat
  <1>1. \A t \in Tenants : target[t] \in Nat /\ target[t] # 0
    BY DEF DivisionOK
  <1>2. \A t \in Tenants : /\ sch_budget_cap(target[t]) \in Nat
                           /\ target[t] <= sch_budget_cap(target[t])
    BY <1>1, CapFacts
  <1>3. restrict \in [Tenants -> Restrictions]
    BY DEF DivisionOK, Restrictions
  <1>4. Accounts \in [Tenants -> Account]
    BY <1>1, <1>2 DEF Accounts, Account
  <1>5. \A t \in Tenants : /\ Accounts[t].budget = target[t]
                           /\ Accounts[t].target = target[t]
                           /\ Accounts[t].cap = sch_budget_cap(target[t])
    BY DEF Accounts
  <1>6. \A t \in Tenants : /\ RoomUnderCap(Accounts[t]) = sch_budget_cap(target[t]) - target[t]
                           /\ RoomUnderCap(Accounts[t]) \in Nat
    BY <1>1, <1>2, <1>5 DEF RoomUnderCap
  <1> QED
    BY <1>2, <1>3, <1>4, <1>5, <1>6

CommonDelta == common_delta_q20(restrict, Accounts, Accounts, cycle_pool, bw_pool)

\* The chain of minimums is below a fraction exactly when one of its members is.
LEMMA ChainOfMinimums ==
    ASSUME DivisionOK, NEW d \in Nat
    PROVE  /\ CommonDelta \in Nat
           /\ DRF_CAP_EXTRA_Q20 \in Nat
           /\ d <= CommonDelta <=>
                 /\ d <= DRF_CAP_EXTRA_Q20
                 /\ \A t \in Tenants : d <= sch_ratio_q20(RoomUnderCap(Accounts[t]), target[t])
                 /\ \A kind \in {TENANT_RESTRICT_CYCLE, TENANT_RESTRICT_BW} :
                       TargetSum(restrict, kind, Accounts) # 0 =>
                           d <= sch_ratio_q20(Pool(kind), TargetSum(restrict, kind, Accounts))
  <1> DEFINE cs == TargetSum(restrict, TENANT_RESTRICT_CYCLE, Accounts)
             bs == TargetSum(restrict, TENANT_RESTRICT_BW, Accounts)
             r(t) == sch_ratio_q20(RoomUnderCap(Accounts[t]), target[t])
             rc == sch_ratio_q20(cycle_pool, cs)
             rb == sch_ratio_q20(bw_pool, bs)
             d0 == sch_min_u64(DRF_CAP_EXTRA_Q20, r(0))
             d1 == sch_min_u64(d0, r(1))
             d2 == PoolDelta(cycle_pool, cs, d1)
             d3 == PoolDelta(bw_pool, bs, d2)
  <1>1. Tenants = {0, 1}
    BY DEF Tenants, MAX_TENANT_NUM
  <1>2. \A t \in Tenants : target[t] \in Nat /\ RoomUnderCap(Accounts[t]) \in Nat
    BY AccountFacts DEF DivisionOK
  <1>3. r(0) \in Nat /\ r(1) \in Nat
    BY <1>1, <1>2, RatioFacts
  <1>4. cs \in Nat /\ bs \in Nat
    BY <1>1, <1>2, AccountFacts DEF TargetSum, TargetOf
  <1>5. rc \in Nat /\ rb \in Nat
    BY <1>4, RatioFacts DEF DivisionOK
  <1>6. DRF_CAP_EXTRA_Q20 \in Nat
    <2>1. CASE WC_BUDGET_CAP_NUM > WC_BUDGET_CAP_DEN
      <3>1. WC_BUDGET_CAP_NUM - WC_BUDGET_CAP_DEN \in Nat
        BY <2>1, ArithmeticAssumption
      <3>2. (WC_BUDGET_CAP_NUM - WC_BUDGET_CAP_DEN) * DRF_ONE \in Nat
        BY <3>1, ArithmeticAssumption, ProductIsNat
      <3> QED
        BY <2>1, <3>2, DivFacts, ArithmeticAssumption DEF DRF_CAP_EXTRA_Q20
    <2>2. CASE ~(WC_BUDGET_CAP_NUM > WC_BUDGET_CAP_DEN)
      BY <2>2 DEF DRF_CAP_EXTRA_Q20
    <2> QED
      BY <2>1, <2>2
  <1>7. ASSUME NEW t \in Tenants, NEW e
        PROVE  TenantDelta(restrict, Accounts, Accounts, t, e) = sch_min_u64(e, r(t))
    <2>1. restrict[t] # TENANT_RESTRICT_NONE /\ Accounts[t].target = target[t]
      BY AccountFacts
         DEF DivisionOK, TENANT_RESTRICT_NONE, TENANT_RESTRICT_CYCLE, TENANT_RESTRICT_BW
    <2> QED
      BY <2>1 DEF TenantDelta
  <1>8. CommonDelta = d3
    <2>1. 0 \in Tenants /\ 1 \in Tenants
      BY <1>1
    <2>2. TenantDelta(restrict, Accounts, Accounts, 0, DRF_CAP_EXTRA_Q20) = d0
      BY <1>7, <2>1
    <2>3. TenantDelta(restrict, Accounts, Accounts, 1, d0) = d1
      BY <1>7, <2>1
    <2> HIDE DEF d0, d1
    <2> QED
      BY <2>2, <2>3 DEF CommonDelta, common_delta_q20
  <1>9. /\ d2 = IF cs = 0 THEN d1 ELSE sch_min_u64(d1, rc)
        /\ d3 = IF bs = 0 THEN d2 ELSE sch_min_u64(d2, rb)
    BY DEF PoolDelta
  <1>10. ASSUME NEW x \in Nat, NEW y \in Nat
         PROVE  sch_min_u64(x, y) \in Nat /\ (d <= sch_min_u64(x, y) <=> (d <= x /\ d <= y))
    BY DEF sch_min_u64
  <1>11. d0 \in Nat /\ (d <= d0 <=> (d <= DRF_CAP_EXTRA_Q20 /\ d <= r(0)))
    BY <1>3, <1>6, <1>10
  <1> HIDE DEF cs, bs, r, rc, rb, d0
  <1>12. d1 \in Nat /\ (d <= d1 <=> (d <= d0 /\ d <= r(1)))
    BY <1>3, <1>10, <1>11
  <1> HIDE DEF d1, d2, d3
  <1>13. d2 \in Nat /\ (d <= d2 <=> (d <= d1 /\ (cs # 0 => d <= rc)))
    BY <1>5, <1>9, <1>10, <1>12
  <1>14. d3 \in Nat /\ (d <= d3 <=> (d <= d2 /\ (bs # 0 => d <= rb)))
    BY <1>5, <1>9, <1>10, <1>13
  <1>15. (\A t \in Tenants : d <= r(t)) <=> (d <= r(0) /\ d <= r(1))
    BY <1>1
  <1>16. (\A kind \in {TENANT_RESTRICT_CYCLE, TENANT_RESTRICT_BW} :
              TargetSum(restrict, kind, Accounts) # 0 =>
                  d <= sch_ratio_q20(Pool(kind), TargetSum(restrict, kind, Accounts)))
         <=> ((cs # 0 => d <= rc) /\ (bs # 0 => d <= rb))
    BY DEF cs, bs, rc, rb, Pool, TENANT_RESTRICT_CYCLE, TENANT_RESTRICT_BW
  <1> QED
    BY <1>6, <1>8, <1>11, <1>12, <1>13, <1>14, <1>15, <1>16 DEF r

\* A fraction is at most the common one exactly when it fits.
LEMMA FitsBelowDelta ==
    ASSUME DivisionOK, NEW d \in Nat
    PROVE  d <= CommonDelta <=> d \in 0..DRF_CAP_EXTRA_Q20 /\ Fits(d)
  <1>1. ASSUME NEW t \in Tenants
        PROVE  d <= sch_ratio_q20(RoomUnderCap(Accounts[t]), target[t])
               <=> d * target[t] <= (sch_budget_cap(target[t]) - target[t]) * DRF_ONE
    <2>1. /\ target[t] \in Nat \ {0} /\ RoomUnderCap(Accounts[t]) \in Nat
          /\ RoomUnderCap(Accounts[t]) = sch_budget_cap(target[t]) - target[t]
      BY AccountFacts DEF DivisionOK
    <2>2. d <= sch_ratio_q20(RoomUnderCap(Accounts[t]), target[t])
          <=> d * target[t] <= RoomUnderCap(Accounts[t]) * DRF_ONE
      BY <2>1, RatioIsLargest
    <2> QED
      BY <2>1, <2>2
  <1>2. ASSUME NEW kind \in {TENANT_RESTRICT_CYCLE, TENANT_RESTRICT_BW}
        PROVE  (TargetSum(restrict, kind, Accounts) # 0 =>
                    d <= sch_ratio_q20(Pool(kind), TargetSum(restrict, kind, Accounts)))
               <=> d * TargetSum(restrict, kind, Accounts) <= Pool(kind) * DRF_ONE
    <2>1. PICK sum : sum = TargetSum(restrict, kind, Accounts)
      OBVIOUS
    <2>2. sum \in Nat
      <3>1. 0 \in Tenants /\ 1 \in Tenants
        BY DEF Tenants, MAX_TENANT_NUM
      <3>2. Accounts[0].target \in Nat /\ Accounts[1].target \in Nat
        BY <3>1, AccountFacts DEF DivisionOK
      <3> QED
        BY <2>1, <3>2 DEF TargetSum, TargetOf
    <2>3. Pool(kind) \in Nat
      BY DEF DivisionOK, Pool
    <2>4. Pool(kind) * DRF_ONE \in Nat
      BY <2>3, ArithmeticAssumption, ProductIsNat
    <2>5. CASE sum = 0
      BY <2>1, <2>4, <2>5
    <2>6. CASE sum # 0
      BY <2>1, <2>2, <2>3, <2>6, RatioIsLargest
    <2> QED
      BY <2>5, <2>6
  <1>3. DRF_CAP_EXTRA_Q20 \in Nat /\ (d \in 0..DRF_CAP_EXTRA_Q20 <=> d <= DRF_CAP_EXTRA_Q20)
    BY ChainOfMinimums
  <1>4. Fits(d) <=> /\ \A t \in Tenants :
                          d <= sch_ratio_q20(RoomUnderCap(Accounts[t]), target[t])
                    /\ \A kind \in {TENANT_RESTRICT_CYCLE, TENANT_RESTRICT_BW} :
                          TargetSum(restrict, kind, Accounts) # 0 =>
                              d <= sch_ratio_q20(Pool(kind), TargetSum(restrict, kind, Accounts))
    BY <1>1, <1>2 DEF Fits
  <1> QED
    BY <1>3, <1>4, ChainOfMinimums

\* The chain of minimums computes the largest fraction that fits.
LEMMA DeltaIsFairShare ==
    ASSUME DivisionOK
    PROVE  FairShare = CommonDelta
  <1> DEFINE S == {d \in 0..DRF_CAP_EXTRA_Q20 : Fits(d)}
  <1>1. CommonDelta \in Nat
    BY ChainOfMinimums
  <1>2. CommonDelta \in S
    BY <1>1, FitsBelowDelta
  <1>3. DRF_CAP_EXTRA_Q20 \in Nat
    BY ChainOfMinimums
  <1>4. \A d \in S : d \in Nat /\ d <= CommonDelta
    <2> SUFFICES ASSUME NEW d \in S PROVE d \in Nat /\ d <= CommonDelta
      OBVIOUS
    <2>1. d \in 0..DRF_CAP_EXTRA_Q20 /\ Fits(d)
      OBVIOUS
    <2>2. d \in Nat
      BY <1>3, <2>1
    <2> QED
      BY <2>1, <2>2, FitsBelowDelta
  <1> HIDE DEF S
  <1>5. \A x \in S : (\A y \in S : x >= y) => x = CommonDelta
    BY <1>1, <1>2, <1>4
  <1>6. \A y \in S : CommonDelta >= y
    BY <1>1, <1>4
  <1>7. Max(S) = CommonDelta
    BY <1>2, <1>5, <1>6 DEF Max
  <1> QED
    BY <1>7 DEF FairShare, S

-----------------------------------------------------------------------------
(* The division as a whole                                                 *)

\* Each tenant is given the common fraction of its quota.
LEMMA DistributeGrants ==
    ASSUME DivisionOK, Distribute
    PROVE  \A t \in Tenants : grant'[t] = sch_drf_alloc(CommonDelta, target[t])
  <1> DEFINE shared == sch_distribute_drf_pool(restrict, Accounts, Accounts, cycle_pool, bw_pool)
  <1>1. ASSUME NEW t \in Tenants PROVE grant'[t] = sch_drf_alloc(CommonDelta, target[t])
    <2>1. Accounts[t].budget = target[t] /\ Accounts[t].target = target[t] /\ target[t] \in Nat
      BY AccountFacts DEF DivisionOK
    <2>2. /\ shared.cycle = DrfBudgets(restrict, TENANT_RESTRICT_CYCLE, Accounts, CommonDelta)
          /\ shared.bw = DrfBudgets(restrict, TENANT_RESTRICT_BW, Accounts, CommonDelta)
      BY DEF sch_distribute_drf_pool, CommonDelta
    <2>3. restrict[t] \in {TENANT_RESTRICT_CYCLE, TENANT_RESTRICT_BW}
      BY DEF DivisionOK
    <2>4. sch_drf_alloc(CommonDelta, target[t]) \in Nat
      BY <2>1, ChainOfMinimums, AllocFacts
    <2>5. grant'[t] = (IF restrict[t] = TENANT_RESTRICT_CYCLE THEN shared.cycle[t]
                                                               ELSE shared.bw[t]) - target[t]
      BY DEF Distribute
    <2> HIDE DEF shared
    <2>6. CASE restrict[t] = TENANT_RESTRICT_CYCLE
      <3>1. shared.cycle[t] = target[t] + sch_drf_alloc(CommonDelta, target[t])
        BY <2>1, <2>2, <2>6 DEF DrfBudgets
      <3> QED
        BY <2>1, <2>4, <2>5, <2>6, <3>1
    <2>7. CASE restrict[t] # TENANT_RESTRICT_CYCLE
      <3>1. shared.bw[t] = target[t] + sch_drf_alloc(CommonDelta, target[t])
        BY <2>1, <2>2, <2>3, <2>7 DEF DrfBudgets
      <3> QED
        BY <2>1, <2>4, <2>5, <2>7, <3>1
    <2> QED
      BY <2>6, <2>7
  <1> QED
    BY <1>1

\* The grants in one resource, added up, fit in its pool.
LEMMA DistributeFits ==
    ASSUME DivisionOK, Distribute
    PROVE  GrantsFitPools'
  <1>1. Tenants = {0, 1} /\ 0 \in Tenants /\ 1 \in Tenants
    BY DEF Tenants, MAX_TENANT_NUM
  <1>2. UNCHANGED <<restrict, target, cycle_pool, bw_pool>>
    BY DEF Distribute, inputs
  <1>3. /\ CommonDelta \in Nat
        /\ \A kind \in {TENANT_RESTRICT_CYCLE, TENANT_RESTRICT_BW} :
              TargetSum(restrict, kind, Accounts) # 0 =>
                  CommonDelta <= sch_ratio_q20(Pool(kind), TargetSum(restrict, kind, Accounts))
    BY ChainOfMinimums
  <1>4. ASSUME NEW kind \in {TENANT_RESTRICT_CYCLE, TENANT_RESTRICT_BW}
        PROVE  (IF restrict[0] = kind THEN grant'[0] ELSE 0)
                   + (IF restrict[1] = kind THEN grant'[1] ELSE 0) <= Pool(kind)
    <2> DEFINE tgt(t) == TargetOf(restrict, kind, Accounts, t)
    <2>1. Pool(kind) \in Nat
      BY DEF DivisionOK, Pool
    <2>2. \A t \in Tenants : /\ tgt(t) = IF restrict[t] = kind THEN target[t] ELSE 0
                             /\ tgt(t) \in Nat
      BY AccountFacts DEF DivisionOK, TargetOf
    <2>3. \A t \in Tenants :
              (IF restrict[t] = kind THEN grant'[t] ELSE 0) = sch_drf_alloc(CommonDelta, tgt(t))
      BY <1>3, <2>2, DistributeGrants, AllocOfNothing
    <2>4. TargetSum(restrict, kind, Accounts) = tgt(0) + tgt(1)
      BY DEF TargetSum
    <2> HIDE DEF tgt
    <2>5. sch_drf_alloc(CommonDelta, tgt(0)) + sch_drf_alloc(CommonDelta, tgt(1)) <= Pool(kind)
      <3>1. CASE tgt(0) + tgt(1) # 0
        <4>1. CommonDelta <= sch_ratio_q20(Pool(kind), tgt(0) + tgt(1))
          BY <1>3, <2>4, <3>1
        <4> QED
          BY <1>1, <1>3, <2>1, <2>2, <3>1, <4>1, AllocsWithinPool
      <3>2. CASE tgt(0) + tgt(1) = 0
        <4>1. tgt(0) = 0 /\ tgt(1) = 0
          BY <1>1, <2>2, <3>2
        <4> QED
          BY <1>3, <2>1, <4>1, AllocOfNothing
      <3> QED
        BY <3>1, <3>2
    <2> QED
      BY <1>1, <2>3, <2>5
  <1> QED
    BY <1>2, <1>4 DEF GrantsFitPools, Pool

\* The inputs keep their types and the grants fit.
DivisionInv == DivisionOK /\ GrantsFitPools

\* DivisionInv is an invariant.
LEMMA DivisionInvariance == Spec => []DivisionInv
  <1>1. Init => DivisionInv
    <2> SUFFICES ASSUME Init PROVE DivisionInv
      OBVIOUS
    <2>1. DivisionOK
      BY DivisionAssumption DEF Init, DivisionOK
    <2>2. GrantsFitPools
      <3>1. grant[0] = 0 /\ grant[1] = 0
        BY DEF Init, Tenants, MAX_TENANT_NUM
      <3>2. cycle_pool \in Nat /\ bw_pool \in Nat
        BY <2>1 DEF DivisionOK
      <3> QED
        BY <3>1, <3>2 DEF GrantsFitPools, Pool
    <2> QED
      BY <2>1, <2>2 DEF DivisionInv
  <1>2. DivisionInv /\ [Distribute]_vars => DivisionInv'
    <2> SUFFICES ASSUME DivisionInv, [Distribute]_vars PROVE DivisionInv'
      OBVIOUS
    <2>1. DivisionOK'
      BY DEF DivisionInv, DivisionOK, Distribute, vars, inputs
    <2>2. CASE Distribute
      BY <2>1, <2>2, DistributeFits DEF DivisionInv
    <2>3. CASE UNCHANGED vars
      BY <2>1, <2>3 DEF DivisionInv, GrantsFitPools, Pool, vars, inputs
    <2> QED
      BY <2>2, <2>3
  <1> QED
    BY <1>1, <1>2, PTL DEF Spec

\* The two roundings never hand out more than the pool that is divided, so the
\* clamps that are compiled out of sch_distribute_drf_pool are not missed.
THEOREM GrantsWithinPools == Spec => []GrantsFitPools
  <1>1. DivisionInv => GrantsFitPools
    BY DEF DivisionInv
  <1> QED
    BY <1>1, DivisionInvariance, PTL

\* Every restricted tenant is given the same fraction of its quota, the largest
\* one that every cap and both pools admit: what sch_distribute_drf_pool leaves
\* undistributed cannot be shared out fairly.
THEOREM FairShareIsLargest == Spec => LargestFairShare
  <1>1. DivisionInv /\ [Distribute]_vars
            => [\A t \in Tenants : grant'[t] = (FairShare * target[t]) \div DRF_ONE]_vars
    <2> SUFFICES ASSUME DivisionInv, Distribute
                 PROVE  \A t \in Tenants : grant'[t] = (FairShare * target[t]) \div DRF_ONE
      OBVIOUS
    <2> QED
      BY DistributeGrants, DeltaIsFairShare DEF DivisionInv, sch_drf_alloc
  <1> QED
    BY <1>1, DivisionInvariance, PTL DEF Spec, LargestFairShare
=============================================================================
