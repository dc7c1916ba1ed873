------------------------ MODULE MCRateLimitSemaphore ------------------------
(* Small instances of RateLimitSemaphore for TLC. *)
EXTENDS RateLimitSemaphore

CONSTANTS r1, r2, r3, r4

QueueChoices == {Unlimited, 1}
=============================================================================
