------------------------- MODULE MCAccountSemaphore -------------------------
(* Small instances of CalmSemaphore, and so of AccountSemaphore, for TLC.  *)
EXTENDS CalmSemaphore, TLC

CONSTANTS r1, r2, r3, global, acct1, acct2

\* The global gate over an account gate, and an account gate without it.
TwoKeySets == {{global, acct1}, {acct1}}

\* The global gate over two account gates, and the same.
HierarchyAndRoot == {{global, acct1}, {global, acct2}, {acct1}}

OneEach == [k \in Key |-> 1]
TwoGlobal == [k \in Key |-> IF k = global THEN 2 ELSE 1]

ChangingCaps == {OneEach, TwoGlobal}

\* chatCore's default, a bounded queue, and fail-fast.
AnyPolicy == {Patient, [failFast |-> FALSE, maxQueueSize |-> 1],
              [failFast |-> TRUE, maxQueueSize |-> 0]}
=============================================================================
