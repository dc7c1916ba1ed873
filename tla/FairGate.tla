------------------------------- MODULE FairGate -------------------------------
(***************************************************************************)
(* The capacity gates of chat ingestion: the heavyweight count of          *)
(* ChatAdmissionController (src/shared/middleware/chatBodyAdmission.ts)    *)
(* and the bytes of IngestByteAdmissionController (ingestByteAdmission.ts) *)
(* park their waiters in the same way: a FIFO per session, the sessions    *)
(* served in rotation.  A release wakes one waiter, which tries again.     *)
(***************************************************************************)
EXTENDS Integers, SequencesExt, Queues

CONSTANT Session

\* keys are the sessions with a queue, in the order they began to wait; cursor
\* only ever grows, but for the keys removed before it.
IdleGate == [used |-> 0, keys |-> <<>>, cursor |-> 0, queue |-> [s \in Session |-> <<>>]]

Fits(g, max, charge) == g.used + charge <= max

Taken(g, charge) == [g EXCEPT !.used = @ + charge]

Parked(g, s, r) ==
    [g EXCEPT !.keys = IF g.queue[s] = <<>> THEN Append(@, s) ELSE @,
              !.queue[s] = Append(@, r)]

\* removeFairKey
WithoutKey(g, s) ==
    LET index == CHOOSE i \in 0..(Len(g.keys) - 1) : g.keys[i + 1] = s
        keys == Without(g.keys, s)
    IN  [g EXCEPT !.keys = keys,
                  !.cursor = IF keys = <<>> THEN 0 ELSE IF index < @ THEN @ - 1 ELSE @]

\* The queue of s becomes q; an empty queue goes with its key.
WithQueue(g, s, q) ==
    IF q = <<>> THEN WithoutKey([g EXCEPT !.queue[s] = q], s) ELSE [g EXCEPT !.queue[s] = q]

\* Faulty: the key stays in the rotation.
UnparkedKeepingKey(g, s, r) == [g EXCEPT !.queue[s] = Without(@, r)]

\* removeWaiter
Unparked(g, s, r) ==
    IF r \in Range(g.queue[s]) THEN WithQueue(g, s, Without(g.queue[s], r)) ELSE g

Turn(g) == g.keys[(g.cursor % Len(g.keys)) + 1]

\* Whom dispatchFair wakes, and the gate after it.
Called(g) == IF g.keys = <<>> THEN {} ELSE {Head(g.queue[Turn(g)])}

Dispatched(g) ==
    IF g.keys = <<>> THEN g
    ELSE WithQueue([g EXCEPT !.cursor = @ + 1], Turn(g), Tail(g.queue[Turn(g)]))

\* A lease gives back its charge.
Freed(g, charge) == [g EXCEPT !.used = @ - charge]

Waiters(g) == UNION {Range(g.queue[s]) : s \in Session}

\* The keys are the sessions with a queue, each once.
Tidy(g) ==
    /\ IsInjective(g.keys)
    /\ Range(g.keys) = {s \in Session : g.queue[s] # <<>>}
    /\ g.cursor \in Nat /\ (g.keys = <<>> => g.cursor = 0)
    /\ \A s \in Session : IsInjective(g.queue[s])
=============================================================================
