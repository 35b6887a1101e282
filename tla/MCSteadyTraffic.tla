-------------------------- MODULE MCSteadyTraffic ---------------------------
(***************************************************************************)
(* A small instance of SteadyTraffic.  Tenant 0 has a quota of two cycles  *)
(* and borrows the quota of tenant 1, which is idle.  A packet may cost    *)
(* more than both, so that every period can end with a new overdraft and   *)
(* the debt grow from one period to the next until it sticks at SIZE_MAX;  *)
(* or the period stays light and the debt shrinks.                         *)
(***************************************************************************)
EXTENDS SteadyTraffic

EqualWeights == [t \in Tenants |-> 1]

CycleWeights == [t \in Tenants |-> IF t = 0 THEN 2 ELSE 1]

PeriodTraffic == [t \in Tenants |-> IF t = 0 THEN 4 ELSE 0]
=============================================================================
