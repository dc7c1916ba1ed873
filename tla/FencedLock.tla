----------------------------- MODULE FencedLock -----------------------------
(***************************************************************************)
(* What the lease table promises, without a table, a clock or an expiry:   *)
(* at most one tenure per owner and per resource, ended at any moment and  *)
(* never taken up again, each with a fencing number larger than any the    *)
(* owner had before and bound to one key; a tenure may move to another     *)
(* resource.                                                               *)
(***************************************************************************)
EXTENDS Integers

CONSTANTS Owner, Key, Resource

VARIABLES
    held,  \* the tenures in force
    fenced \* the pairs of an owner and a fencing number given to it

lockVars == <<held, fenced>>

Tenure == [owner : Owner, key : Key, resource : Resource, number : Nat]

Init == held = {} /\ fenced = {}

Ends == held' \subseteq held /\ UNCHANGED fenced

\* Tenure x is in force after the step, beside tenures that were in force
\* before it, of other owners and for other resources.
Takes(x) ==
    /\ x \in Tenure
    /\ \A y \in held' \ {x} : y \in held /\ y.owner # x.owner /\ y.resource # x.resource

Grants(x) ==
    /\ Takes(x)
    /\ \A f \in fenced : f[1] = x.owner => f[2] < x.number
    /\ fenced' = fenced \cup {<<x.owner, x.number>>}

Moves(x) ==
    /\ Takes(x)
    /\ \E y \in held : x = [y EXCEPT !.resource = x.resource]
    /\ UNCHANGED fenced

Next == Ends \/ \E x \in held' : Grants(x) \/ Moves(x)

Spec == Init /\ [][Next]_lockVars
=============================================================================
