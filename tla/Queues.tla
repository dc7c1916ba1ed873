------------------------------- MODULE Queues -------------------------------
(***************************************************************************)
(* Queues as the semaphores keep them: arrays from which entries are       *)
(* spliced out, whatever their place.  The definition is a recursive       *)
(* function, so that it can be reasoned about as well as evaluated.        *)
(***************************************************************************)
EXTENDS Naturals, Sequences

\* The queue q with only the members of S left in it, in their order.
Only(q, S) ==
    LET left[n \in 0..Len(q)] ==
            IF n = 0 THEN <<>>
            ELSE IF q[n] \in S THEN Append(left[n - 1], q[n]) ELSE left[n - 1]
    IN  left[Len(q)]

\* The queue q without its entry a.
Without(q, a) == Only(q, {q[i] : i \in DOMAIN q} \ {a})

\* a stands before b in the queue q.
Precedes(q, a, b) == \E i, j \in DOMAIN q : i < j /\ q[i] = a /\ q[j] = b
=============================================================================
