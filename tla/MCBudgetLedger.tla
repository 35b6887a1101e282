--------------------------- MODULE MCBudgetLedger ---------------------------
(***************************************************************************)
(* Small instances of BudgetLedger.  Quotas are a few cycles, so that one  *)
(* packet can be less than, exactly or more than what is left of them.     *)
(***************************************************************************)
EXTENDS BudgetLedger

PerTenant(a, b) == [t \in Tenants |-> IF t = 0 THEN a ELSE b]

EqualWeights == PerTenant(1, 1)

BothBusy == PerTenant(4, 2)
Short == PerTenant(4, 1)

\* What the theorems about traffic assume, of the instance at hand.
ASSUME InstanceTrafficFits == TrafficFits
=============================================================================
