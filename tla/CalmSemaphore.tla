--------------------------- MODULE CalmSemaphore ---------------------------
(***************************************************************************)
(* The gates of AccountSemaphore in calm operation: nobody resets or       *)
(* blocks a gate or changes a limit, and every caller is willing to wait,  *)
(* as chatCore is by default.  There the releases alone must serve every   *)
(* waiter.  A behaviour is calm throughout, or is any behaviour of the     *)
(* gates.                                                                  *)
(***************************************************************************)
EXTENDS AccountSemaphore

CONSTANTS
    CalmKeySets, \* the sets of keys a calm acquisition may name
    CalmCaps     \* the fixed limits

ASSUME CalmAssumption ==
    /\ CalmKeySets \subseteq (SUBSET Key) \ {{}}
    /\ CalmCaps \in [Key -> Nat \ {0}]

VARIABLE calm

\* chatCore's default: no queue limit, and no fail-fast.
Patient == [failFast |-> FALSE, maxQueueSize |-> 0]

CalmNext ==
    \/ \E r \in Req :
         \/ \E keys \in CalmKeySets : AcquireMany(r, keys, CalmCaps, Patient)
         \/ TimeOut(r) \/ Abort(r) \/ Release(r)
    \/ \E k \in Key : CleanupFires(k) \/ Unblock(k)

MixedInit == Init /\ calm \in BOOLEAN

MixedNext ==
    /\ \/ calm /\ CalmNext
       \/ ~calm /\ Next
    /\ UNCHANGED calm

\* A holder releases: chatCore calls the release function when the upstream
\* call settles, whatever its outcome.  Nothing else is fair.
MixedSpec ==
    /\ MixedInit /\ [][MixedNext]_<<vars, calm>>
    /\ \A r \in Req : []<>(phase[r] # "holding")

\* NoAdmissibleWaiter, where no limit or block changes between turns.
CalmNoAdmissibleWaiter == calm => NoAdmissibleWaiter

\* IdleGatesReclaimed, where no gate is reset.
CalmIdleGatesReclaimed == calm => IdleGatesReclaimed

\* As long as holders release, nobody waits for ever, even where no timer and
\* no abort comes to end the wait.
WaiterServed ==
    \A r \in Req : calm /\ phase[r] = "waiting" ~> phase[r] # "waiting"
=============================================================================
