----------------------------- MODULE FairCostQueue -----------------------------
(***************************************************************************)
(* FairCostQueue of open-sse/services/admission/queue.ts: a bounded queue  *)
(* with a bucket per tenant, served round robin.  A head that does not fit *)
(* the free capacity is passed over; once that has happened MaxSkips times *)
(* it is reserved and nothing is taken before it.  An entry is a record    *)
(* with the fields id, cost, at (enqueuedAtMs) and skips (skipCount).      *)
(***************************************************************************)
EXTENDS Integers, FiniteSets, SequencesExt, Queues

CONSTANTS
    Tenant,  \* tenant keys
    MaxSkips \* MAX_UNFITTABLE_SKIPS

ASSUME SkipsAssumption == MaxSkips \in Nat \ {0}

EmptyQueue == [order |-> <<>>, cursor |-> 0, bucket |-> [t \in Tenant |-> <<>>],
               count |-> 0, cost |-> 0]

CanAccept(q, cost, caps) == q.count < caps.maxCount /\ cost <= caps.maxCost - q.cost

\* A tenant without a bucket gets one, last in the rotation.
Enqueue(q, t, e) ==
    [q EXCEPT !.order = IF q.bucket[t] = <<>> THEN Append(@, t) ELSE @,
              !.bucket[t] = Append(@, e),
              !.count = @ + 1,
              !.cost = @ + e.cost]

-----------------------------------------------------------------------------
(* dequeue.  Places are counted from the cursor, 0 being at the cursor.    *)

Places(q) == 0..(Len(q.order) - 1)

Index(q, i) == (q.cursor + i) % Len(q.order)

HeadAt(q, i) == Head(q.bucket[q.order[Index(q, i) + 1]])

Aged(q) == {i \in Places(q) : HeadAt(q, i).skips >= MaxSkips}

Fitting(q, free) == {i \in Places(q) : HeadAt(q, i).cost <= free}

\* Faulty: aged heads have no precedence.
ChoiceUnreserved(q, free) ==
    {i \in Fitting(q, free) : \A j \in Fitting(q, free) : i <= j}

\* The place that is taken: of the aged heads the oldest, if it fits; when
\* none is aged, the first that fits.  No place when the set is empty.
Choice(q, free) ==
    IF Aged(q) # {}
    THEN {i \in Aged(q) : /\ HeadAt(q, i).cost <= free
                          /\ \A j \in Aged(q) \ {i} :
                                \/ HeadAt(q, i).at < HeadAt(q, j).at
                                \/ HeadAt(q, i).at = HeadAt(q, j).at /\ i < j}
    ELSE {i \in Fitting(q, free) : \A j \in Fitting(q, free) : i <= j}

\* The heads before place i did not fit what is now taken.
SkipBefore(q, i) ==
    LET passed == {q.order[Index(q, j) + 1] : j \in 0..(i - 1)}
        skipped(s) == [s EXCEPT ![1].skips = @ + 1]
    IN  [q EXCEPT !.bucket = [t \in Tenant |-> IF t \in passed THEN skipped(@[t]) ELSE @[t]]]

\* takeAt: an empty bucket is deleted, and its successor is at the cursor.
TakeAt(q, idx) ==
    LET t == q.order[idx + 1]
        rest == Tail(q.bucket[t])
        order == IF rest = <<>> THEN Without(q.order, t) ELSE q.order
    IN  [q EXCEPT !.order = order,
                  !.bucket[t] = rest,
                  !.count = @ - 1,
                  !.cost = @ - Head(q.bucket[t]).cost,
                  !.cursor = IF order = <<>> THEN 0
                             ELSE IF rest = <<>> THEN idx % Len(order)
                             ELSE (idx + 1) % Len(order)]

Dequeue(q, i) == TakeAt(IF Aged(q) # {} THEN q ELSE SkipBefore(q, i), Index(q, i))

\* Faulty: the cursor stays where it was.
RemoveIdKeepingCursor(q, t, id) ==
    LET gone == {e \in Range(q.bucket[t]) : e.id = id}
    IN  IF gone = {} THEN q
        ELSE LET e == CHOOSE e \in gone : TRUE
                 rest == Without(q.bucket[t], e)
             IN  [q EXCEPT !.order = IF rest = <<>> THEN Without(@, t) ELSE @,
                           !.bucket[t] = rest,
                           !.count = @ - 1,
                           !.cost = @ - e.cost]

\* removeById, for the bucket the entry is in.
RemoveId(q, t, id) ==
    LET gone == {e \in Range(q.bucket[t]) : e.id = id}
    IN  IF gone = {} THEN q
        ELSE LET e == CHOOSE e \in gone : TRUE
                 rest == Without(q.bucket[t], e)
                 order == IF rest = <<>> THEN Without(q.order, t) ELSE q.order
                 ti == CHOOSE j \in 0..(Len(q.order) - 1) : q.order[j + 1] = t
             IN  [q EXCEPT !.order = order,
                           !.bucket[t] = rest,
                           !.count = @ - 1,
                           !.cost = @ - e.cost,
                           !.cursor = IF rest # <<>> THEN @
                                      ELSE IF order = <<>> THEN 0
                                      ELSE IF ti < @ THEN @ - 1
                                      ELSE IF @ >= Len(order) THEN 0 ELSE @]

Entries(q) == UNION {Range(q.bucket[t]) : t \in Tenant}

\* Stamps matter by their order only: they are kept as ranks, and an entry
\* arrives in the millisecond of the one before it or in a later one.
Stamps(q) == {e.at : e \in Entries(q)}

NextStamps(q) ==
    IF q.count = 0 THEN {0} ELSE {Cardinality(Stamps(q)) - 1, Cardinality(Stamps(q))}

Rank(q, a) == Cardinality({x \in Stamps(q) : x < a})

Reranked(q) ==
    LET reranked(s) == [k \in DOMAIN s |-> [s[k] EXCEPT !.at = Rank(q, @)]]
    IN  [q EXCEPT !.bucket = [t \in Tenant |-> reranked(@[t])]]
=============================================================================
