--------------------------- MODULE MCCircuitBreaker ---------------------------
(* Small instances of CircuitBreaker for TLC. *)
EXTENDS CircuitBreaker

CONSTANTS c1, c2, rate_limit

\* A hinted cooldown between the plain one and the escalated one.
Hints == [k \in Kind |-> 3]

AllPaths == {"chat", "direct", "combo", "pinned"}

ComboOnly == {"combo"}
=============================================================================
