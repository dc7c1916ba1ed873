--------------------------- MODULE MCLeaseRouting ---------------------------
(* Small instances of LeaseRouting and, in the behaviours that are bare,   *)
(* of the lease table alone under any calls, made-up generations and       *)
(* foreign keys included.  The clock stops at MaxTime and the table at     *)
(* MaxRows.                                                                *)
EXTENDS LeaseRouting, TLC

CONSTANTS o1, o2, k1, k2, c1, c2, q1, q2, MaxTime, MaxRows

OneKey == [o \in Owner |-> k1]

VARIABLE bare

BareNext == bare /\ Next /\ UNCHANGED <<stage, ctx, granted>>

\* The timestamps of routed transactions do not trail the clock.
RoutedNext ==
    /\ ~bare
    /\ \/ RoutingTick
       \/ \E q \in Request : RequestStep(q, now)
       \/ \E o \in Owner : ClientStep(o, now)

BoundedNext ==
    /\ BareNext \/ RoutedNext
    /\ now' <= MaxTime /\ lastId' <= MaxRows
    /\ UNCHANGED bare

BoundedInit == RoutingInit /\ bare \in BOOLEAN

BoundedSpec == BoundedInit /\ [][BoundedNext]_<<routingVars, bare>>

Symmetry == Permutations(Owner) \cup Permutations(Conn) \cup Permutations(Request)
=============================================================================
