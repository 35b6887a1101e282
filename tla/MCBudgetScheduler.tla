------------------------- MODULE MCBudgetScheduler --------------------------
(***************************************************************************)
(* Small instances of BudgetScheduler for its liveness properties.         *)
(***************************************************************************)
EXTENDS BudgetMetering

PerTenant(a, b) == [t \in Tenants |-> IF t = 0 THEN a ELSE b]

EqualWeights == PerTenant(1, 1)
UnequalWeights == PerTenant(1, 2)

SomeTraffic == PerTenant(3, 1)

\* What the theorems about traffic assume, of the instance at hand.
ASSUME InstanceTrafficFits == TrafficFits
=============================================================================
