------------------------- MODULE MCAdaptiveAdmission -------------------------
(* A small instance of AdaptiveAdmission for TLC.  The factors of the      *)
(* limit are those of the default configuration, 0.8 and 0.5.              *)
EXTENDS AdaptiveAdmission

CONSTANTS ta, tb, tc, a1, b1, b2, c1

\* Tenant ta has a heavy request, tb two light ones, tc a light one.
Tenants == [r \in Request |-> IF r = a1 THEN ta ELSE IF r = c1 THEN tc ELSE tb]

Costs == [r \in Request |-> IF r = a1 THEN 3 ELSE 1]

ThreeWaiters == [maxCount |-> 3, maxCost |-> 5]

Fast(n) == (n * 5) \div 10
Slow(n) == (n * 8) \div 10

FairSpec == Spec /\ Fairness
=============================================================================
