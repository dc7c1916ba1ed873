----------------------------- MODULE FenceProofs -----------------------------
(***************************************************************************)
(* Machine-checked proofs about the two tables that fence out whoever      *)
(* comes late: the lease table (ExclusiveLease) with the requests that are *)
(* routed by it (LeaseRouting), and the table of tool executions           *)
(* (ToolFence) with the loop over it (ToolLoop).  The two share no state.  *)
(***************************************************************************)
EXTENDS LeaseRouting, ToolLoop, SequenceTheorems, TLAPS

-----------------------------------------------------------------------------
(***************************************************************************)
(* Machine-checked proofs about ExclusiveLease, for any sets of owners,    *)
(* keys and connections, any TTLs and any lag of the timestamps.           *)
(*                                                                         *)
(* Every operation rewrites the table in one of two ways: it lets rows     *)
(* that were active end or be extended (Settles), or it does that and then *)
(* inserts one active row (Inserts).  The invariants are proved once for   *)
(* each of the two shapes; the operations are then shown to have them.     *)
(***************************************************************************)

\* A tenure that was released is over: no later row of the owner continues it.
ReleasedIsLast ==
    \A i, j \in 1..lastId :
        rows[i].owner = rows[j].owner /\ rows[i].state = "RELEASED" /\ i < j
        => rows[i].generation # rows[j].generation

\* The invariant that is inductive: the safety invariants lean on one another
\* through ActiveIsLatest and the type of the table.
Inv == TypeOK /\ UniqueActive /\ StaleGenerationDead /\ ActiveIsLatest
       /\ GenerationBoundToKey /\ ReleasedIsLast

\* The new row is the old one up to its expiry and its end: an ended row is
\* as it was, and an active one may end or be given another expiry.
SameTenure(new, old) ==
    /\ new.owner = old.owner /\ new.key = old.key /\ new.conn = old.conn
    /\ new.generation = old.generation
    /\ old.state # "ACTIVE" => new = old

\* table is the present table after some active rows ended or were extended.
Settles(table) ==
    /\ table \in [1..lastId -> Row]
    /\ \A i \in 1..lastId : SameTenure(table[i], rows[i])

\* The step ended or extended active rows and left everything else of the old
\* rows alone, and deleted none.
KeepsTenures ==
    /\ lastId' \in {lastId, lastId + 1}
    /\ \A i \in 1..lastId : SameTenure(rows'[i], rows[i])

\* The step is one of the abstract lock, or leaves it alone.
LockStep == [Lock!Next]_Lock!lockVars

\* Expiring what is due only ends active rows.
LEMMA ExpiredSettles ==
    ASSUME TypeOK, NEW t
    PROVE  /\ Settles(Expired(t))
           /\ \A i \in 1..lastId : Expired(t)[i].state \in {"ACTIVE", "RELEASED"}
                                  => Expired(t)[i] = rows[i]
<1>1. ASSUME NEW i \in 1..lastId
      PROVE  /\ Expired(t)[i] \in Row
             /\ SameTenure(Expired(t)[i], rows[i])
             /\ Expired(t)[i].state \in {"ACTIVE", "RELEASED"} => Expired(t)[i] = rows[i]
  <2>1. rows[i] \in Row
    BY DEF TypeOK
  <2>2. Expired(t)[i] = IF rows[i].state = "ACTIVE" /\ rows[i].expires <= t
                        THEN [rows[i] EXCEPT !.state = "EXPIRED"] ELSE rows[i]
    BY DEF Expired
  <2>3. CASE rows[i].state = "ACTIVE" /\ rows[i].expires <= t
    BY <2>1, <2>2, <2>3 DEF Row, EndedState, SameTenure
  <2>4. CASE ~(rows[i].state = "ACTIVE" /\ rows[i].expires <= t)
    BY <2>1, <2>2, <2>4 DEF SameTenure
  <2> QED BY <2>3, <2>4
<1>2. Expired(t) \in [1..lastId -> Row]
  BY <1>1 DEF Expired
<1> QED BY <1>1, <1>2 DEF Settles

\* A step that settles rows and inserts none keeps the invariant.
LEMMA SettlingStep ==
    ASSUME Inv, NEW STATE table, Settles(table), Commit(table), now' = now
    PROVE  Inv' /\ KeepsTenures /\ LockStep
<1> USE DEF Inv
<1>1. /\ rows' = table /\ lastId' = lastId
      /\ \A i \in 1..lastId : SameTenure(rows'[i], rows[i])
  BY DEF Settles, Commit
<1>2. TypeOK'
  BY <1>1 DEF TypeOK, Settles
<1>3. \A i \in 1..lastId : rows'[i].state = "ACTIVE" => rows[i].state = "ACTIVE"
  BY <1>1 DEF SameTenure
<1>4. UniqueActive'
  BY <1>1, <1>3 DEF UniqueActive, Active, SameTenure
<1>5. StaleGenerationDead'
  BY <1>1, <1>3 DEF StaleGenerationDead, Active, SameTenure
<1>6. ActiveIsLatest'
  BY <1>1, <1>3 DEF ActiveIsLatest, Active, SameTenure
<1>7. GenerationBoundToKey'
  BY <1>1 DEF GenerationBoundToKey, SameTenure
<1>8. ReleasedIsLast'
  <2>1. \A i \in 1..lastId : rows'[i].state = "RELEASED"
                             => rows[i].state \in {"RELEASED", "ACTIVE"}
    BY <1>1 DEF SameTenure
  <2> QED BY <1>1, <2>1 DEF ReleasedIsLast, ActiveIsLatest, Active, SameTenure
<1>9. Lock!Ends
  <2>1. \A i \in 1..lastId : Active(i)' => Active(i) /\ Tenure(rows'[i]) = Tenure(rows[i])
    BY <1>1, <1>3 DEF Active, Tenure, SameTenure
  <2>2. Held' \subseteq Held
    BY <1>1, <2>1 DEF Held
  <2>3. Given' = Given
    BY <1>1 DEF Given, SameTenure
  <2> QED BY <2>2, <2>3 DEF Lock!Ends
<1> QED BY <1>1, <1>2, <1>4, <1>5, <1>6, <1>7, <1>8, <1>9 DEF KeepsTenures, LockStep, Lock!Next

\* A step that settles rows and inserts an active one keeps the invariant when
\* neither the owner nor the connection of the new row is active any more, its
\* generation is no older than the owner's others, and a tenure it continues
\* is of the same key.  The lock grants a tenure, or moves one in force.
LEMMA InsertingStep ==
    ASSUME Inv, NEW STATE table, Settles(table),
           NEW row \in Row, row.state = "ACTIVE",
           Insert(table, row), now' = now,
           \A i \in 1..lastId : table[i].state = "RELEASED" => rows[i].state = "RELEASED",
           ActiveOf(table, row.owner) = {}, ActiveOn(table, row.conn) = {},
           \A i \in 1..lastId : rows[i].owner = row.owner =>
               /\ rows[i].generation <= row.generation
               /\ rows[i].generation = row.generation => rows[i].key = row.key,
           \/ \A i \in 1..lastId : rows[i].owner = row.owner
                                   => rows[i].generation # row.generation
           \/ \E i \in 1..lastId : /\ Active(i) /\ rows[i].owner = row.owner
                                   /\ rows[i].generation = row.generation
                                   /\ rows[i].key = row.key
    PROVE  Inv' /\ KeepsTenures /\ LockStep
<1> USE DEF Inv
<1> DEFINE n == lastId + 1
<1>0. lastId \in Nat /\ n \in Nat /\ n \notin 1..lastId
  BY DEF TypeOK
<1>1. /\ lastId' = n
      /\ rows' = [i \in 1..n |-> IF i = n THEN row ELSE table[i]]
  BY DEF Insert
<1>2. /\ rows'[n] = row
      /\ \A i \in 1..lastId : rows'[i] = table[i] /\ SameTenure(rows'[i], rows[i])
      /\ \A i \in 1..n : i = n \/ i \in 1..lastId
  BY <1>0, <1>1 DEF Settles
<1>3. TypeOK'
  <2>1. \A i \in 1..n : rows'[i] \in Row
    BY <1>2 DEF Settles
  <2> QED BY <1>0, <1>1, <2>1 DEF TypeOK
<1>4. \A i \in 1..lastId : rows'[i].state = "ACTIVE" =>
         /\ rows[i].state = "ACTIVE"
         /\ rows'[i].owner # row.owner /\ rows'[i].conn # row.conn
  BY <1>2 DEF SameTenure, ActiveOf, ActiveOn
<1>5. UniqueActive'
  <2> SUFFICES ASSUME NEW i \in 1..n, NEW j \in 1..n,
                      rows'[i].state = "ACTIVE", rows'[j].state = "ACTIVE",
                      \/ rows'[i].owner = rows'[j].owner
                      \/ rows'[i].conn = rows'[j].conn
               PROVE  i = j
    BY <1>1 DEF UniqueActive, Active
  <2>1. CASE i \in 1..lastId /\ j \in 1..lastId
    BY <1>2, <1>4, <2>1 DEF UniqueActive, Active, SameTenure
  <2>2. CASE i = n \/ j = n
    BY <1>2, <1>4, <2>2
  <2> QED BY <1>2, <2>1, <2>2
<1>6. StaleGenerationDead'
  <2> SUFFICES ASSUME NEW i \in 1..n, NEW j \in 1..n,
                      rows'[i].owner = rows'[j].owner,
                      rows'[i].generation < rows'[j].generation
               PROVE  i < j /\ rows'[i].state # "ACTIVE"
    BY <1>1 DEF StaleGenerationDead, Active
  <2>1. CASE i \in 1..lastId /\ j \in 1..lastId
    BY <1>2, <1>4, <2>1 DEF StaleGenerationDead, Active, SameTenure
  <2>2. CASE i = n
    <3>1. row.generation \in Nat
      BY DEF Row
    <3>2. j \in 1..lastId
      BY <1>2, <2>2, <3>1
    <3>3. rows[j].owner = row.owner /\ rows[j].generation = rows'[j].generation
      BY <1>2, <2>2, <3>2 DEF SameTenure
    <3>4. rows[j].generation \in Nat
      BY <3>2 DEF TypeOK, Row
    <3> QED BY <1>2, <2>2, <3>1, <3>2, <3>3, <3>4
  <2>3. CASE i \in 1..lastId /\ j = n
    BY <1>0, <1>2, <1>4, <2>3
  <2> QED BY <1>2, <2>1, <2>2, <2>3
<1>7. ActiveIsLatest'
  <2> SUFFICES ASSUME NEW i \in 1..n, NEW j \in 1..n,
                      rows'[i].owner = rows'[j].owner, i < j
               PROVE  rows'[i].state # "ACTIVE"
    BY <1>1 DEF ActiveIsLatest, Active
  <2>1. i \in 1..lastId
    BY <1>0, <1>2
  <2>2. CASE j = n
    BY <1>2, <1>4, <2>1, <2>2
  <2>3. CASE j \in 1..lastId
    BY <1>2, <1>4, <2>1, <2>3 DEF ActiveIsLatest, Active, SameTenure
  <2> QED BY <1>2, <2>2, <2>3
<1>8. GenerationBoundToKey'
  <2> SUFFICES ASSUME NEW i \in 1..n, NEW j \in 1..n,
                      rows'[i].owner = rows'[j].owner,
                      rows'[i].generation = rows'[j].generation
               PROVE  rows'[i].key = rows'[j].key
    BY <1>1 DEF GenerationBoundToKey
  <2>1. \A k \in 1..lastId : rows'[k].owner = row.owner /\ rows'[k].generation = row.generation
                             => rows'[k].key = row.key
    BY <1>2 DEF SameTenure
  <2>2. CASE i = n \/ j = n
    BY <1>2, <2>1, <2>2
  <2>3. CASE i \in 1..lastId /\ j \in 1..lastId
    BY <1>2, <2>3 DEF GenerationBoundToKey, SameTenure
  <2> QED BY <1>2, <2>2, <2>3
<1>8a. ReleasedIsLast'
  <2> SUFFICES ASSUME NEW i \in 1..n, NEW j \in 1..n, i < j,
                      rows'[i].owner = rows'[j].owner, rows'[i].state = "RELEASED"
               PROVE  rows'[i].generation # rows'[j].generation
    BY <1>1 DEF ReleasedIsLast
  <2>1. i \in 1..lastId /\ rows[i].state = "RELEASED"
    BY <1>0, <1>2
  <2>2. CASE j \in 1..lastId
    BY <1>2, <2>1, <2>2 DEF ReleasedIsLast, SameTenure
  <2>3. CASE j = n
    <3>1. rows[i].owner = row.owner /\ rows[i].generation = rows'[i].generation
      BY <1>2, <2>1, <2>3 DEF SameTenure
    <3>2. ASSUME NEW k \in 1..lastId, Active(k), rows[k].owner = row.owner,
                 rows[k].generation = row.generation
          PROVE  rows[i].generation # row.generation
      <4>1. i < k
        BY <2>1, <3>1, <3>2 DEF ActiveIsLatest, Active
      <4> QED BY <2>1, <3>1, <3>2, <4>1 DEF ReleasedIsLast
    <3> QED BY <1>2, <2>1, <2>3, <3>1, <3>2
  <2> QED BY <1>2, <2>2, <2>3
<1> DEFINE x == Tenure(row)
<1>9. Lock!Takes(x) /\ x \in Held'
  <2>1. x \in Lock!Tenure
    BY DEF Tenure, Row, Lock!Tenure
  <2>2. ASSUME NEW y \in Held' \ {x}
        PROVE  y \in Held /\ y.owner # x.owner /\ y.resource # x.resource
    <3>1. PICK i \in 1..n : rows'[i].state = "ACTIVE" /\ y = Tenure(rows'[i])
      BY <1>1, <2>2 DEF Held, Active
    <3>2. i \in 1..lastId
      BY <1>2, <2>2, <3>1
    <3>3. Active(i) /\ Tenure(rows'[i]) = Tenure(rows[i])
      BY <1>2, <1>4, <3>1, <3>2 DEF Active, SameTenure, Tenure
    <3>4. y \in Held
      BY <3>1, <3>2, <3>3 DEF Held
    <3> QED BY <1>4, <3>1, <3>2, <3>4 DEF Tenure
  <2>3. x \in Held'
    BY <1>0, <1>1, <1>2 DEF Held, Active
  <2> QED BY <2>1, <2>2, <2>3 DEF Lock!Takes
<1>10. Given' = Given \cup {<<x.owner, x.number>>}
  <2>1. Given' = {<<rows'[i].owner, rows'[i].generation>> : i \in 1..n}
    BY <1>1 DEF Given
  <2>2. \A i \in 1..lastId :
           <<rows'[i].owner, rows'[i].generation>> = <<rows[i].owner, rows[i].generation>>
    BY <1>2 DEF SameTenure
  <2>3. <<rows'[n].owner, rows'[n].generation>> = <<x.owner, x.number>>
    BY <1>2 DEF Tenure
  <2>4. 1..n = 1..lastId \cup {n}
    BY <1>0
  <2> QED BY <2>1, <2>2, <2>3, <2>4 DEF Given
<1>11. ASSUME \A i \in 1..lastId : rows[i].owner = row.owner
                                  => rows[i].generation # row.generation
       PROVE  LockStep
  <2>1. \A i \in 1..lastId : rows[i].owner = row.owner
                             => rows[i].generation < row.generation
    BY <1>11 DEF TypeOK, Row
  <2>2. \A f \in Given : f[1] = x.owner => f[2] < x.number
    BY <2>1 DEF Given, Tenure
  <2>3. Lock!Grants(x)
    BY <1>9, <1>10, <2>2 DEF Lock!Grants
  <2> QED BY <1>9, <2>3 DEF LockStep, Lock!Next
<1>12. ASSUME \E i \in 1..lastId : /\ Active(i) /\ rows[i].owner = row.owner
                                  /\ rows[i].generation = row.generation
                                  /\ rows[i].key = row.key
       PROVE  LockStep
  <2>1. PICK i \in 1..lastId : /\ Active(i) /\ rows[i].owner = row.owner
                               /\ rows[i].generation = row.generation
                               /\ rows[i].key = row.key
    BY <1>12
  <2>2. Tenure(rows[i]) \in Held /\ x = [Tenure(rows[i]) EXCEPT !.resource = x.resource]
    BY <2>1 DEF Held, Tenure
  <2>3. <<x.owner, x.number>> \in Given
    BY <2>1 DEF Given, Tenure
  <2>4. Lock!Moves(x)
    BY <1>9, <1>10, <2>2, <2>3 DEF Lock!Moves
  <2> QED BY <1>9, <2>4 DEF LockStep, Lock!Next
<1> QED BY <1>1, <1>2, <1>3, <1>5, <1>6, <1>7, <1>8, <1>8a, <1>11, <1>12 DEF KeepsTenures

-----------------------------------------------------------------------------
(* The operations.                                                         *)

LEMMA AcquireInv ==
    ASSUME Inv, NEW o \in Owner, NEW k \in ApiKey, NEW c \in Conn,
           NEW t \in Int, NEW ttl \in Int, Acquire(o, k, c, t, ttl)
    PROVE  Inv' /\ KeepsTenures /\ LockStep
<1> USE DEF Inv
<1>1. Settles(Expired(t)) /\ now' = now
  BY ExpiredSettles DEF Acquire
<1>2. CASE AcquireReused(o, k, c, t, ttl)
  <2>1. PICK i \in ActiveOf(Expired(t), o) :
             Commit([Expired(t) EXCEPT ![i].expires = t + ttl])
    BY <1>2 DEF AcquireReused
  <2> DEFINE table == [Expired(t) EXCEPT ![i].expires = t + ttl]
  <2>2. i \in 1..lastId /\ Expired(t)[i].state = "ACTIVE"
    BY DEF ActiveOf
  <2>3. Expired(t)[i] = rows[i] /\ rows[i] \in Row
    BY <2>2, ExpiredSettles DEF TypeOK
  <2>4. [Expired(t)[i] EXCEPT !.expires = t + ttl] \in Row
    BY <2>3 DEF Row
  <2>5. Settles(table)
    <3>1. table \in [1..lastId -> Row]
      BY <1>1, <2>4 DEF Settles
    <3>2. \A j \in 1..lastId : SameTenure(table[j], rows[j])
      BY <1>1, <2>2, <2>3 DEF Settles, SameTenure, Row
    <3> QED BY <3>1, <3>2 DEF Settles
  <2> QED BY <1>1, <2>1, <2>5, SettlingStep
<1>3. CASE AcquireConflict(o, k, c, t)
  BY <1>1, <1>3, SettlingStep DEF AcquireConflict
<1>4. CASE AcquireFresh(o, k, c, t, ttl)
  <2>1. PICK g \in 1..(lastId + 1) :
             /\ IsNextGeneration(o, g)
             /\ Insert(Expired(t), ActiveRow(o, k, c, g, t + ttl))
    BY <1>4 DEF AcquireFresh
  <2> DEFINE row == ActiveRow(o, k, c, g, t + ttl)
  <2>2. /\ row \in Row /\ row.state = "ACTIVE"
        /\ row.owner = o /\ row.conn = c /\ row.generation = g
    BY DEF ActiveRow, Row, TypeOK
  <2>3. \A i \in 1..lastId : rows[i].owner = o =>
            rows[i].generation \in Nat /\ g \in Nat /\ rows[i].generation < g
    BY <2>1 DEF IsNextGeneration, TypeOK, Row
  <2>4. \A i \in 1..lastId : rows[i].owner = row.owner =>
            /\ rows[i].generation <= row.generation
            /\ rows[i].generation = row.generation => rows[i].key = row.key
    BY <2>2, <2>3
  <2>5. ActiveOf(Expired(t), row.owner) = {} /\ ActiveOn(Expired(t), row.conn) = {}
    BY <1>4, <2>2 DEF AcquireFresh
  <2>6. \A i \in 1..lastId : rows[i].owner = row.owner
                             => rows[i].generation # row.generation
    BY <2>2, <2>3
  <2> HIDE DEF row
  <2>7. \A i \in 1..lastId : Expired(t)[i].state = "RELEASED" => rows[i].state = "RELEASED"
    BY ExpiredSettles
  <2> QED BY <1>1, <2>1, <2>2, <2>4, <2>5, <2>6, <2>7, InsertingStep DEF row
<1> QED BY <1>2, <1>3, <1>4 DEF Acquire

LEMMA TransitionInv ==
    ASSUME Inv, NEW o \in Owner, NEW k \in ApiKey, NEW g \in Nat, NEW c \in Conn,
           NEW t \in Int, NEW ttl \in Int, Transition(o, k, g, c, t, ttl)
    PROVE  Inv' /\ KeepsTenures /\ LockStep
<1> USE DEF Inv
<1>1. Settles(Expired(t)) /\ now' = now
  BY ExpiredSettles DEF Transition
<1>2. CASE TransitionRefused(o, k, g, c, t)
  BY <1>1, <1>2, SettlingStep DEF TransitionRefused
<1>3. CASE TransitionMoves(o, k, g, c, t, ttl)
  <2>1. PICK i \in Current(Expired(t), o, k, g) :
             /\ ActiveOn(Expired(t), c) = {}
             /\ Insert([Expired(t) EXCEPT ![i].state = "INVALIDATED"],
                       ActiveRow(o, k, c, g, t + ttl))
    BY <1>3 DEF TransitionMoves
  <2> DEFINE table == [Expired(t) EXCEPT ![i].state = "INVALIDATED"]
             row == ActiveRow(o, k, c, g, t + ttl)
  <2>2. /\ i \in 1..lastId /\ Expired(t)[i].state = "ACTIVE"
        /\ Expired(t)[i].owner = o /\ Expired(t)[i].generation = g
        /\ Expired(t)[i].key = k
    BY DEF Current, ActiveOf
  <2>3. Expired(t)[i] = rows[i] /\ rows[i] \in Row
    BY <2>2, ExpiredSettles DEF TypeOK
  <2>4. [Expired(t)[i] EXCEPT !.state = "INVALIDATED"] \in Row
    BY <2>3 DEF Row, EndedState
  <2>5. Settles(table)
    <3>1. table \in [1..lastId -> Row]
      BY <1>1, <2>4 DEF Settles
    <3>2. \A j \in 1..lastId : SameTenure(table[j], rows[j])
      BY <1>1, <2>2, <2>3 DEF Settles, SameTenure, Row
    <3> QED BY <3>1, <3>2 DEF Settles
  <2>6. /\ row \in Row /\ row.state = "ACTIVE" /\ row.key = k
        /\ row.owner = o /\ row.conn = c /\ row.generation = g
    BY DEF ActiveRow, Row
  <2>7. /\ \A j \in 1..lastId : j # i => table[j] = Expired(t)[j]
        /\ table[i].state = "INVALIDATED"
    BY <1>1, <2>2, <2>3 DEF Settles, Row
  <2>8. ActiveOf(table, o) = {}
    <3>1. ASSUME NEW j \in 1..lastId, table[j].state = "ACTIVE", table[j].owner = o
          PROVE  FALSE
      <4>1. j # i
        BY <2>7, <3>1
      <4>2. Expired(t)[j].state = "ACTIVE" /\ Expired(t)[j] = rows[j]
        BY <2>7, <3>1, <4>1, ExpiredSettles
      <4>3. Active(i) /\ Active(j) /\ rows[i].owner = rows[j].owner
        BY <2>2, <2>3, <2>7, <3>1, <4>1, <4>2 DEF Active
      <4> QED BY <2>2, <4>1, <4>3 DEF UniqueActive
    <3> QED BY <3>1 DEF ActiveOf
  <2>9. ActiveOn(table, c) = {}
    BY <2>1, <2>7 DEF ActiveOn
  <2>10. \A j \in 1..lastId : rows[j].owner = o =>
            /\ rows[j].generation <= g
            /\ rows[j].generation = g => rows[j].key = k
    <3> SUFFICES ASSUME NEW j \in 1..lastId, rows[j].owner = o
                 PROVE  /\ rows[j].generation <= g
                        /\ rows[j].generation = g => rows[j].key = k
      OBVIOUS
    <3>1. Active(i) /\ rows[i].owner = o /\ rows[i].generation = g /\ rows[i].key = k
      BY <2>2, <2>3 DEF Active
    <3>2. rows[j].generation \in Nat
      BY DEF TypeOK, Row
    <3>3. rows[j].generation <= g
      BY <2>2, <3>1, <3>2 DEF StaleGenerationDead
    <3>4. rows[j].generation = g => rows[j].key = k
      BY <2>2, <3>1 DEF GenerationBoundToKey
    <3> QED BY <3>3, <3>4
  <2>11. /\ Insert(table, row)
         /\ ActiveOf(table, row.owner) = {} /\ ActiveOn(table, row.conn) = {}
         /\ \A j \in 1..lastId : rows[j].owner = row.owner =>
               /\ rows[j].generation <= row.generation
               /\ rows[j].generation = row.generation => rows[j].key = row.key
         /\ Active(i) /\ rows[i].owner = row.owner
         /\ rows[i].generation = row.generation /\ rows[i].key = row.key
    BY <2>1, <2>2, <2>3, <2>6, <2>8, <2>9, <2>10 DEF Active
  <2>12. \A j \in 1..lastId : table[j].state = "RELEASED" => rows[j].state = "RELEASED"
    BY <2>7, ExpiredSettles
  <2> HIDE DEF row, table
  <2> QED BY <1>1, <2>2, <2>5, <2>6, <2>11, <2>12, InsertingStep
<1> QED BY <1>2, <1>3 DEF Transition

LEMMA UpdatesInv ==
    ASSUME Inv, NEW o \in Owner, NEW k \in ApiKey, NEW g \in Nat,
           NEW t \in Int, NEW ttl \in Int,
           Invalidate(o, k, g, t) \/ Renew(o, k, g, t, ttl) \/ Release(o, k, g, t)
    PROVE  Inv' /\ KeepsTenures /\ LockStep
<1> USE DEF Inv
<1>1. Settles(Expired(t))
  BY ExpiredSettles
<1> DEFINE due == {i \in 1..lastId : i \in Current(Expired(t), o, k, g) /\ rows[i].expires > t}
           ended == [i \in 1..lastId |-> IF i \in due
                       THEN [rows[i] EXCEPT !.state = "INVALIDATED"] ELSE Expired(t)[i]]
           released == [i \in 1..lastId |-> IF i \in due
                       THEN [rows[i] EXCEPT !.state = "RELEASED"] ELSE Expired(t)[i]]
           renewed == [i \in 1..lastId |-> IF i \in due
                       THEN [rows[i] EXCEPT !.expires = t + ttl] ELSE Expired(t)[i]]
<1>2. \A i \in due : rows[i] \in Row /\ rows[i].state = "ACTIVE"
  BY ExpiredSettles DEF Current, ActiveOf, TypeOK
<1>3. Settles(ended)
  <2>1. ASSUME NEW i \in 1..lastId
        PROVE  ended[i] \in Row /\ SameTenure(ended[i], rows[i])
    BY <1>1, <1>2 DEF Settles, SameTenure, Row, EndedState
  <2> QED BY <2>1 DEF Settles
<1>4. Settles(released)
  <2>1. ASSUME NEW i \in 1..lastId
        PROVE  released[i] \in Row /\ SameTenure(released[i], rows[i])
    BY <1>1, <1>2 DEF Settles, SameTenure, Row, EndedState
  <2> QED BY <2>1 DEF Settles
<1>5. Settles(renewed)
  <2>1. ASSUME NEW i \in 1..lastId
        PROVE  renewed[i] \in Row /\ SameTenure(renewed[i], rows[i])
    BY <1>1, <1>2 DEF Settles, SameTenure, Row
  <2> QED BY <2>1 DEF Settles
<1>6. /\ now' = now
      /\ Commit(ended) \/ Commit(released) \/ Commit(renewed)
  BY DEF Invalidate, Renew, Release, Update
<1> HIDE DEF ended, released, renewed
<1> QED BY <1>3, <1>4, <1>5, <1>6, SettlingStep

LEMMA NextInv ==
    ASSUME Inv, [Next]_leaseVars
    PROVE  Inv' /\ KeepsTenures /\ LockStep
<1>1. CASE Tick
  BY <1>1 DEF Tick, Inv, TypeOK, UniqueActive, StaleGenerationDead,
              ActiveIsLatest, GenerationBoundToKey, ReleasedIsLast, Active,
              KeepsTenures, SameTenure,
              LockStep, Held, Given, Lock!lockVars
<1>2. CASE UNCHANGED leaseVars
  BY <1>2 DEF leaseVars, Inv, TypeOK, UniqueActive, StaleGenerationDead,
              ActiveIsLatest, GenerationBoundToKey, ReleasedIsLast, Active,
              KeepsTenures, SameTenure,
              LockStep, Held, Given, Lock!lockVars
<1>3. CASE Operate
  <2>1. PICK t \in Timestamp :
           \/ Reconcile(t)
           \/ \E o \in Owner, k \in ApiKey :
                \/ \E c \in Conn, ttl \in Ttl : Acquire(o, k, c, t, ttl)
                \/ \E g \in Presented :
                     \/ \E c \in Conn, ttl \in Ttl : Transition(o, k, g, c, t, ttl)
                     \/ Invalidate(o, k, g, t)
                     \/ \E ttl \in Ttl : Renew(o, k, g, t, ttl)
                     \/ Release(o, k, g, t)
    BY <1>3 DEF Operate
  <2>2. t \in Int /\ Ttl \subseteq Int /\ Presented \subseteq Nat
    BY LeaseAssumption DEF Timestamp, Presented, Inv, TypeOK
  <2>3. CASE Reconcile(t)
    BY <2>3, ExpiredSettles, SettlingStep DEF Reconcile, Inv
  <2>4. ASSUME NEW o \in Owner, NEW k \in ApiKey, NEW c \in Conn, NEW ttl \in Ttl,
               Acquire(o, k, c, t, ttl)
        PROVE  Inv' /\ KeepsTenures /\ LockStep
    BY <2>2, <2>4, AcquireInv
  <2>5. ASSUME NEW o \in Owner, NEW k \in ApiKey, NEW g \in Presented,
               NEW c \in Conn, NEW ttl \in Ttl, Transition(o, k, g, c, t, ttl)
        PROVE  Inv' /\ KeepsTenures /\ LockStep
    BY <2>2, <2>5, TransitionInv
  <2>6. ASSUME NEW o \in Owner, NEW k \in ApiKey, NEW g \in Presented, NEW ttl \in Int,
               Invalidate(o, k, g, t) \/ Renew(o, k, g, t, ttl) \/ Release(o, k, g, t)
        PROVE  Inv' /\ KeepsTenures /\ LockStep
    BY <2>2, <2>6, UpdatesInv
  <2> QED BY <2>1, <2>2, <2>3, <2>4, <2>5, <2>6
<1> QED BY <1>1, <1>2, <1>3 DEF Next

-----------------------------------------------------------------------------
(* The theorems.                                                           *)

\* The inductive invariant holds in every reachable table.
THEOREM LeaseInvariant == Spec => []Inv
<1>1. Init => Inv
  BY DEF Init, Inv, TypeOK, UniqueActive, StaleGenerationDead, ActiveIsLatest,
         GenerationBoundToKey, ReleasedIsLast, Active
<1>2. Inv /\ [Next]_leaseVars => Inv'
  BY NextInv
<1> QED BY <1>1, <1>2, PTL DEF Spec

\* The lease table stays well formed under every operation.
THEOREM TypeCorrect == Spec => []TypeOK
BY LeaseInvariant, PTL DEF Inv

\* No order of acquisitions, moves, releases and expiries gives a connection
\* two owners or an owner two connections.
THEOREM Exclusive == Spec => []UniqueActive
BY LeaseInvariant, PTL DEF Inv

\* A superseded generation is never active again, so a request that presents
\* it never passes assertExclusiveConnectionLeaseFence.
THEOREM Fenced == Spec => []StaleGenerationDead
BY LeaseInvariant, PTL DEF Inv

\* A connection that an owner left is not its own again under the old row.
THEOREM LatestOnly == Spec => []ActiveIsLatest
BY LeaseInvariant, PTL DEF Inv

\* A tenure keeps the API key it was acquired with through all its moves.
THEOREM KeyBound == Spec => []GenerationBoundToKey
BY LeaseInvariant, PTL DEF Inv

\* No operation revives or rewrites an ended row, or changes whose it is.
THEOREM EndedRowsFinal == Spec => EndedIsFinal
<1> DEFINE Final == \A i \in 1..lastId :
                      /\ rows'[i].owner = rows[i].owner /\ rows'[i].key = rows[i].key
                      /\ rows'[i].conn = rows[i].conn
                      /\ rows'[i].generation = rows[i].generation
                      /\ ~Active(i) => rows'[i] = rows[i]
<1>1. Inv /\ [Next]_leaseVars => [Final]_leaseVars
  BY NextInv DEF KeepsTenures, SameTenure, Active
<1> QED BY <1>1, LeaseInvariant, PTL DEF Spec, EndedIsFinal

\* The lease table implements the fenced lock: seen through Held and Given, it
\* only ends tenures, grants one with a new number, or moves one in force.
THEOREM TableIsLock == Spec => ImplementsLock
<1>1. Init => Lock!Init
  BY DEF Init, Lock!Init, Held, Given
<1>2. Inv /\ [Next]_leaseVars => [Lock!Next]_Lock!lockVars
  BY NextInv DEF LockStep
<1> QED BY <1>1, <1>2, LeaseInvariant, PTL DEF Spec, ImplementsLock, Lock!Spec

-----------------------------------------------------------------------------
(***************************************************************************)
(* Machine-checked proofs about LeaseRouting, for any requests, owners,    *)
(* keys and connections.  A step of a request or a client is one operation *)
(* of the lease table or leaves it alone, so everything proved of the      *)
(* table holds while requests run over it (RoutedStep); to this the proofs *)
(* add what a request carries (CarriesContext) and that whoever was        *)
(* dispatched had a row (HasRow).                                          *)
(***************************************************************************)

Context == [owner : Owner \cup {Unmanaged}, mode : {"acquire", "request"},
            generation : Nat, conn : Conn]

\* What a request carries once it has selected; until it claims, an owner.
CarriesContext ==
    /\ stage \in [Request -> {"idle", "selected", "claimed", "dispatched"}]
    /\ ctx \in [Request -> Context \cup {NoContext}]
    /\ granted \in [Owner -> Nat]
    /\ \A q \in Request : /\ stage[q] # "idle" => ctx[q] \in Context
                          /\ stage[q] = "selected" => Managed(q)

\* The owner of a dispatched request was bound to its connection.
HasRow ==
    \A q \in Request : stage[q] = "dispatched" /\ Managed(q) =>
        \E i \in 1..lastId : rows[i].owner = ctx[q].owner /\ rows[i].conn = ctx[q].conn

RoutingInv == Inv /\ CarriesContext /\ HasRow

-----------------------------------------------------------------------------
(* The steps, seen from the table.                                         *)

\* A transaction that only expires what is due keeps the invariant.
LEMMA ReconcileInv ==
    ASSUME Inv, NEW t \in Int, Commit(Expired(t)), now' = now
    PROVE  Inv' /\ KeepsTenures /\ LockStep
BY ExpiredSettles, SettlingStep DEF Inv

\* So does leaving the table alone.
LEMMA IdleInv ==
    ASSUME Inv, UNCHANGED rows, UNCHANGED lastId, now' \in Nat
    PROVE  Inv' /\ KeepsTenures /\ LockStep
BY DEF Inv, TypeOK, UniqueActive, StaleGenerationDead, ActiveIsLatest,
       GenerationBoundToKey, ReleasedIsLast, Active, KeepsTenures, SameTenure,
       LockStep, Held, Given, Lock!lockVars

\* A fence that answers VALID has found the owner's active row, of that
\* generation and on that connection.
LEMMA ValidFence ==
    ASSUME Inv, NEW t \in Int, NEW o, NEW k, NEW g, NEW c,
           Fence(Expired(t), o, k, g, c) = "VALID"
    PROVE  \E i \in 1..lastId : /\ Active(i) /\ Expired(t)[i] = rows[i]
                                /\ rows[i].owner = o /\ rows[i].generation = g
                                /\ rows[i].conn = c
<1> DEFINE act == ActiveOf(Expired(t), o)
           i == CHOOSE j \in act : TRUE
<1>1. act # {} /\ Expired(t)[i].generation = g /\ Expired(t)[i].conn = c
  BY DEF Fence
<1>2. i \in act
  BY <1>1
<1>3. i \in 1..lastId /\ Expired(t)[i].state = "ACTIVE" /\ Expired(t)[i].owner = o
  BY <1>2 DEF ActiveOf
<1>4. Expired(t)[i] = rows[i]
  BY <1>3, ExpiredSettles DEF Inv
<1> QED BY <1>1, <1>3, <1>4 DEF Active

-----------------------------------------------------------------------------
(* The steps, seen from the requests.                                      *)

\* The step dispatches nobody.
DispatchesNone ==
    \A p \in Request : stage'[p] = "dispatched"
                       => stage[p] = "dispatched" /\ ctx'[p] = ctx[p]

\* Nobody is dispatched but by the action of that name.
OnlyByDispatch ==
    \A p \in Request : stage'[p] = "dispatched"
                       => stage[p] = "dispatched" \/ \E t \in Int : Dispatch(p, t)

\* A step of the table that dispatches nobody leaves everybody his row.
LEMMA RowsRemain ==
    ASSUME RoutingInv, KeepsTenures, DispatchesNone
    PROVE  HasRow' /\ OnlyByDispatch
<1>0. OnlyByDispatch
  BY DEF OnlyByDispatch, DispatchesNone
<1> SUFFICES ASSUME NEW q \in Request, stage'[q] = "dispatched", ctx'[q].owner # Unmanaged
             PROVE  \E i \in 1..lastId' : /\ rows'[i].owner = ctx'[q].owner
                                          /\ rows'[i].conn = ctx'[q].conn
  BY <1>0 DEF HasRow, Managed
<1>1. PICK i \in 1..lastId : rows[i].owner = ctx[q].owner /\ rows[i].conn = ctx[q].conn
  BY DEF RoutingInv, HasRow, DispatchesNone, Managed
<1>2. i \in 1..lastId'
  BY DEF KeepsTenures, RoutingInv, Inv, TypeOK
<1> QED BY <1>1, <1>2 DEF KeepsTenures, SameTenure, DispatchesNone

\* A request that ends, or starts its selection over, disturbs no other.
LEMMA DropsRequest ==
    ASSUME CarriesContext, NEW q \in Request, Drops(q), granted' \in [Owner -> Nat]
    PROVE  CarriesContext' /\ DispatchesNone
BY DEF CarriesContext, DispatchesNone, Drops, Goes, Managed

\* Nor does a step that moves no request.
LEMMA LeavesRequests ==
    ASSUME CarriesContext, UNCHANGED stage, UNCHANGED ctx, granted' \in [Owner -> Nat]
    PROVE  CarriesContext' /\ DispatchesNone
BY DEF CarriesContext, DispatchesNone, Managed

\* What a step of a request or of a client keeps.
StepKeeps ==
    /\ Inv' /\ KeepsTenures /\ LockStep
    /\ CarriesContext' /\ HasRow' /\ OnlyByDispatch

LEMMA SelectKeeps ==
    ASSUME RoutingInv, NEW q \in Request, NEW o \in Owner,
           NEW mode \in {"acquire", "request"}, NEW e \in Eligible, NEW t \in Int,
           Select(q, o, mode, e, t)
    PROVE  StepKeeps
<1> DEFINE table == Expired(t)
           g == IF mode = "request" THEN granted[o] ELSE 1
           free == Free(table, o, e)
           bound == Binding(table, o, e)
<1>0. /\ Inv /\ CarriesContext /\ KeyOf[o] \in ApiKey /\ g \in Nat
      /\ UNCHANGED granted /\ granted' \in [Owner -> Nat]
  BY RoutingAssumption DEF RoutingInv, CarriesContext, Select
<1>1. ASSUME Commit(table), UNCHANGED now, UNCHANGED stage, UNCHANGED ctx
      PROVE  StepKeeps
  BY <1>0, <1>1, ReconcileInv, LeavesRequests, RowsRemain DEF StepKeeps
<1>2. ASSUME Invalidate(o, KeyOf[o], g, t), UNCHANGED stage, UNCHANGED ctx
      PROVE  StepKeeps
  <2>1. Inv' /\ KeepsTenures /\ LockStep
    BY <1>0, <1>2, UpdatesInv, 0 \in Int
  <2> QED BY <1>0, <1>2, <2>1, LeavesRequests, RowsRemain DEF StepKeeps
<1>3. ASSUME Commit(table), UNCHANGED now, Goes(q, "selected"),
             NEW c \in IF bound # {} THEN bound ELSE free,
             ctx' = [ctx EXCEPT ![q] = [owner |-> o, mode |-> mode,
                                        generation |-> g, conn |-> c]]
      PROVE  StepKeeps
  <2>1. c \in Conn
    BY DEF Binding, Free, Eligible
  <2>2. o # Unmanaged
    BY RoutingAssumption
  <2>3. [owner |-> o, mode |-> mode, generation |-> g, conn |-> c] \in Context
    BY <1>0, <2>1 DEF Context
  <2>4. CarriesContext'
    BY <1>0, <1>3, <2>2, <2>3 DEF CarriesContext, Goes, Managed
  <2>5. DispatchesNone
    BY <1>0, <1>3 DEF CarriesContext, DispatchesNone, Goes
  <2> QED BY <1>0, <1>3, <2>4, <2>5, ReconcileInv, RowsRemain DEF StepKeeps
<1>4. \/ Commit(table) /\ UNCHANGED <<now, stage, ctx>>
      \/ Invalidate(o, KeyOf[o], g, t) /\ UNCHANGED <<stage, ctx>>
      \/ /\ \E c \in IF bound # {} THEN bound ELSE free :
               ctx' = [ctx EXCEPT ![q] = [owner |-> o, mode |-> mode,
                                          generation |-> g, conn |-> c]]
         /\ Goes(q, "selected") /\ Commit(table) /\ UNCHANGED now
  <2> HIDE DEF table, g
  <2> QED BY DEF Select, table, g
<1> HIDE DEF table, g, bound, free
<1> QED BY <1>1, <1>2, <1>3, <1>4

LEMMA CommitLeaseKeeps ==
    ASSUME RoutingInv, NEW q \in Request, NEW t \in Int, NEW ttl \in Int,
           CommitLease(q, t, ttl)
    PROVE  StepKeeps
<1> DEFINE o == ctx[q].owner
           c == ctx[q].conn
           table == Expired(t)
<1>0. /\ Inv /\ CarriesContext /\ ctx[q] \in Context
      /\ o \in Owner /\ c \in Conn /\ KeyOf[o] \in ApiKey /\ ctx[q].generation \in Nat
  BY RoutingAssumption DEF RoutingInv, CarriesContext, CommitLease, Context, Managed
<1>1. ASSUME NEW g \in Nat, Claimed(q, g) \/ (Drops(q) /\ UNCHANGED granted)
      PROVE  CarriesContext' /\ DispatchesNone
  <2>1. CASE Drops(q) /\ UNCHANGED granted
    BY <1>0, <2>1, DropsRequest DEF CarriesContext
  <2>2. CASE ctx[q].mode = "acquire" /\ Claimed(q, g)
    <3>1. Drops(q) /\ granted' = [granted EXCEPT ![o] = g]
      BY <2>2 DEF Claimed
    <3>2. granted' \in [Owner -> Nat]
      BY <1>0, <3>1 DEF CarriesContext
    <3> QED BY <1>0, <3>1, <3>2, DropsRequest
  <2>3. CASE ctx[q].mode # "acquire" /\ Claimed(q, g)
    <3>1. Goes(q, "claimed") /\ UNCHANGED ctx /\ UNCHANGED granted
      BY <2>3 DEF Claimed
    <3>2. CarriesContext'
      BY <1>0, <3>1 DEF CarriesContext, Goes, Managed
    <3>3. DispatchesNone
      BY <1>0, <3>1 DEF CarriesContext, DispatchesNone, Goes
    <3> QED BY <3>2, <3>3
  <2> QED BY <1>1, <2>1, <2>2, <2>3
<1>2. CASE ClaimByTransition(q, t, ttl)
  <2>1. PICK i \in ActiveOf(table, o) :
           \E g \in {table[i].generation, ctx[q].generation} :
              /\ Transition(o, KeyOf[o], g, c, t, ttl)
              /\ Claimed(q, g) \/ (Drops(q) /\ UNCHANGED granted)
    BY <1>2 DEF ClaimByTransition
  <2>2. table[i].generation \in Nat
    BY <1>0, ExpiredSettles DEF ActiveOf, Settles, Row, Inv
  <2>3. PICK g \in Nat : /\ Transition(o, KeyOf[o], g, c, t, ttl)
                         /\ Claimed(q, g) \/ (Drops(q) /\ UNCHANGED granted)
    BY <1>0, <2>1, <2>2
  <2>4. Inv' /\ KeepsTenures /\ LockStep
    BY <1>0, <2>3, TransitionInv
  <2> QED BY <1>1, <2>3, <2>4, RowsRemain DEF StepKeeps
<1>3. CASE ClaimByAcquire(q, t, ttl)
  <2>1. /\ ActiveOf(table, o) = {} /\ Acquire(o, KeyOf[o], c, t, ttl)
        /\ IF ActiveOn(table, c) = {} THEN Claimed(q, rows'[lastId'].generation)
                                      ELSE Drops(q) /\ UNCHANGED granted
    BY <1>3 DEF ClaimByAcquire
  <2>2. Inv' /\ KeepsTenures /\ LockStep
    BY <1>0, <2>1, AcquireInv
  <2>3. CASE ActiveOn(table, c) = {}
    <3>1. lastId' = lastId + 1
      BY <2>1, <2>3 DEF Acquire, AcquireReused, AcquireConflict, AcquireFresh, Insert
    <3>2. rows'[lastId'] \in Row
      BY <1>0, <2>2, <3>1 DEF Inv, TypeOK
    <3> QED BY <1>1, <2>1, <2>2, <2>3, <3>2, RowsRemain DEF StepKeeps, Row
  <2>4. CASE ActiveOn(table, c) # {}
    BY <1>1, <2>1, <2>2, <2>4, RowsRemain DEF StepKeeps
  <2> QED BY <2>3, <2>4
<1> QED BY <1>2, <1>3 DEF CommitLease

LEMMA SelectUnmanagedKeeps ==
    ASSUME RoutingInv, NEW q \in Request, NEW c \in Conn, NEW t \in Int,
           SelectUnmanaged(q, c, t)
    PROVE  StepKeeps
<1>1. /\ Inv /\ CarriesContext /\ Commit(Expired(t)) /\ Goes(q, "claimed")
      /\ UNCHANGED now /\ UNCHANGED granted
      /\ ctx' = [ctx EXCEPT ![q] = [owner |-> Unmanaged, mode |-> "request",
                                    generation |-> 0, conn |-> c]]
  BY DEF RoutingInv, SelectUnmanaged
<1>2. [owner |-> Unmanaged, mode |-> "request", generation |-> 0, conn |-> c] \in Context
  BY DEF Context
<1>3. CarriesContext'
  BY <1>1, <1>2 DEF CarriesContext, Goes, Managed
<1>4. DispatchesNone
  BY <1>1 DEF CarriesContext, DispatchesNone, Goes
<1> QED BY <1>1, <1>3, <1>4, ReconcileInv, RowsRemain DEF StepKeeps

\* A dispatch passes the fence, so the row it passed by is the request's.
LEMMA DispatchKeeps ==
    ASSUME RoutingInv, NEW q \in Request, NEW t \in Int, Dispatch(q, t)
    PROVE  StepKeeps
<1>1. /\ Inv /\ CarriesContext /\ HasRow /\ ctx[q] \in Context
      /\ UNCHANGED now /\ UNCHANGED granted
  BY DEF RoutingInv, CarriesContext, Dispatch
<1>2. Inv' /\ KeepsTenures /\ LockStep
  <2>1. CASE ctx[q].owner = Unmanaged
    BY <1>1, <2>1, IdleInv DEF Dispatch, Inv, TypeOK
  <2>2. CASE ctx[q].owner # Unmanaged
    BY <1>1, <2>2, ReconcileInv DEF Dispatch
  <2> QED BY <2>1, <2>2
<1>3. CASE Drops(q)
  BY <1>1, <1>2, <1>3, DropsRequest, RowsRemain DEF StepKeeps, CarriesContext
<1>4. CASE PassesFence(q, Expired(t)) /\ Goes(q, "dispatched") /\ UNCHANGED ctx
  <2>1. CarriesContext'
    BY <1>1, <1>4 DEF CarriesContext, Goes, Managed
  <2>2. ASSUME NEW p \in Request, stage'[p] = "dispatched", ctx'[p].owner # Unmanaged
        PROVE  \E i \in 1..lastId : /\ rows[i].owner = ctx[p].owner
                                    /\ rows[i].conn = ctx[p].conn
    <3>1. CASE p = q
      BY <1>1, <1>4, <2>2, <3>1, ValidFence DEF PassesFence
    <3>2. CASE p # q
      BY <1>1, <1>4, <2>2, <3>2 DEF CarriesContext, Goes, HasRow, Managed
    <3> QED BY <3>1, <3>2
  <2>3. 1..lastId \subseteq 1..lastId'
    BY <1>1, <1>2 DEF KeepsTenures, Inv, TypeOK
  <2>4. HasRow'
    BY <1>2, <1>4, <2>2, <2>3 DEF HasRow, Managed, KeepsTenures, SameTenure
  <2>5. OnlyByDispatch
    BY <1>1, <1>4 DEF OnlyByDispatch, CarriesContext, Goes
  <2> QED BY <1>2, <2>1, <2>4, <2>5 DEF StepKeeps
<1> QED BY <1>3, <1>4 DEF Dispatch

LEMMA RequestStepKeeps ==
    ASSUME RoutingInv, NEW q \in Request, NEW t \in Int, RequestStep(q, t)
    PROVE  StepKeeps
<1>1. CASE PreflightBlocks(q) \/ Finish(q)
  <2>1. /\ Inv /\ CarriesContext /\ Drops(q) /\ UNCHANGED rows /\ UNCHANGED lastId
        /\ now' \in Nat /\ granted' \in [Owner -> Nat]
    BY <1>1 DEF RoutingInv, CarriesContext, Inv, TypeOK, PreflightBlocks, Finish
  <2> QED BY <2>1, IdleInv, DropsRequest, RowsRemain DEF StepKeeps
<1>2. ASSUME NEW o \in Owner, NEW mode \in {"acquire", "request"}, NEW e \in Eligible,
             Select(q, o, mode, e, t)
      PROVE  StepKeeps
  BY <1>2, SelectKeeps
<1>3. ASSUME NEW ttl \in Ttl, CommitLease(q, t, ttl)
      PROVE  StepKeeps
  BY <1>3, LeaseAssumption, CommitLeaseKeeps
<1>4. ASSUME NEW o \in Owner, NoneEligible(q, o, t)
      PROVE  StepKeeps
  <2>1. /\ Inv /\ CarriesContext /\ KeyOf[o] \in ApiKey /\ granted[o] \in Nat
        /\ Invalidate(o, KeyOf[o], granted[o], t)
        /\ UNCHANGED stage /\ UNCHANGED ctx /\ granted' \in [Owner -> Nat]
    BY <1>4, RoutingAssumption DEF RoutingInv, CarriesContext, NoneEligible
  <2>2. Inv' /\ KeepsTenures /\ LockStep
    BY <2>1, UpdatesInv, 0 \in Int
  <2> QED BY <2>1, <2>2, LeavesRequests, RowsRemain DEF StepKeeps
<1> QED BY <1>1, <1>2, <1>3, <1>4, SelectUnmanagedKeeps, DispatchKeeps DEF RequestStep

LEMMA ClientStepKeeps ==
    ASSUME RoutingInv, NEW o \in Owner, NEW t \in Int, ClientStep(o, t)
    PROVE  StepKeeps
<1>1. Inv /\ CarriesContext /\ KeyOf[o] \in ApiKey /\ granted[o] \in Nat
  BY RoutingAssumption DEF RoutingInv, CarriesContext
<1>2. PICK ttl \in Int : Renew(o, KeyOf[o], granted[o], t, ttl)
                         \/ Release(o, KeyOf[o], granted[o], t)
  BY LeaseAssumption, 0 \in Int DEF ClientStep, RenewLease, ReleaseLease
<1>3. UNCHANGED stage /\ UNCHANGED ctx /\ granted' \in [Owner -> Nat]
  BY <1>1 DEF CarriesContext, ClientStep, RenewLease, ReleaseLease
<1>4. Inv' /\ KeepsTenures /\ LockStep
  BY <1>1, <1>2, UpdatesInv
<1> QED BY <1>1, <1>3, <1>4, LeavesRequests, RowsRemain DEF StepKeeps

LEMMA RoutingNextKeeps ==
    ASSUME RoutingInv, [RoutingNext]_routingVars
    PROVE  StepKeeps
<1>1. Inv /\ CarriesContext /\ now \in Nat
  BY DEF RoutingInv, Inv, TypeOK
<1>2. CASE RoutingTick \/ UNCHANGED routingVars
  <2>1. /\ UNCHANGED rows /\ UNCHANGED lastId /\ now' \in Nat
        /\ UNCHANGED stage /\ UNCHANGED ctx /\ granted' \in [Owner -> Nat]
    BY <1>1, <1>2 DEF RoutingTick, Tick, routingVars, CarriesContext
  <2> QED BY <1>1, <2>1, IdleInv, LeavesRequests, RowsRemain DEF StepKeeps
<1>3. Timestamp \subseteq Int
  BY DEF Timestamp
<1> QED BY <1>2, <1>3, RequestStepKeeps, ClientStepKeeps DEF RoutingNext

-----------------------------------------------------------------------------
(* The theorems.                                                           *)

\* The invariant of the table and that of the requests hold together.
THEOREM RoutingInvariant == RoutingSpec => []RoutingInv
<1>1. RoutingInit => RoutingInv
  BY DEF RoutingInit, RoutingInv, Init, Inv, TypeOK, UniqueActive, StaleGenerationDead,
         ActiveIsLatest, GenerationBoundToKey, ReleasedIsLast, Active, CarriesContext, HasRow
<1>2. RoutingInv /\ [RoutingNext]_routingVars => RoutingInv'
  BY RoutingNextKeeps DEF RoutingInv, StepKeeps
<1> QED BY <1>1, <1>2, PTL DEF RoutingSpec

\* The requests and clients that route through the table use it as the fenced
\* lock it is: what they do to it is what the lock may do.
THEOREM RoutingUsesLock == RoutingSpec => ImplementsLock
<1>1. RoutingInit => Lock!Init
  BY DEF RoutingInit, Init, Lock!Init, Held, Given
<1>2. RoutingInv /\ [RoutingNext]_routingVars => [Lock!Next]_Lock!lockVars
  BY RoutingNextKeeps DEF StepKeeps, LockStep
<1> QED BY <1>1, <1>2, RoutingInvariant, PTL DEF RoutingSpec, ImplementsLock, Lock!Spec

\* Requests of two owners are in flight on one connection only after a tenure
\* there has ended: rows are not deleted, and two cannot be active.
THEOREM TogetherOnlyAfterAnEnd == RoutingSpec => []DispatchedTogether
<1>1. RoutingInv => DispatchedTogether
  <2> SUFFICES ASSUME RoutingInv PROVE DispatchedTogether
    OBVIOUS
  <2>1. RoutingTypeOK
    BY DEF RoutingInv, Inv, CarriesContext, RoutingTypeOK, Context
  <2>2. ASSUME NEW p \in Request, NEW q \in Request,
               stage[p] = "dispatched", stage[q] = "dispatched", Managed(p), Managed(q),
               ctx[p].owner # ctx[q].owner, ctx[p].conn = ctx[q].conn
        PROVE  \E i \in 1..lastId : /\ rows[i].conn = ctx[p].conn
                                    /\ rows[i].state # "ACTIVE"
                                    /\ \/ rows[i].owner = ctx[p].owner
                                       \/ rows[i].owner = ctx[q].owner
    <3>1. PICK i \in 1..lastId : rows[i].owner = ctx[p].owner /\ rows[i].conn = ctx[p].conn
      BY <2>2 DEF RoutingInv, HasRow
    <3>2. PICK j \in 1..lastId : rows[j].owner = ctx[q].owner /\ rows[j].conn = ctx[q].conn
      BY <2>2 DEF RoutingInv, HasRow
    <3>3. ~(Active(i) /\ Active(j))
      BY <2>2, <3>1, <3>2 DEF RoutingInv, Inv, UniqueActive
    <3> QED BY <2>2, <3>1, <3>2, <3>3 DEF Active
  <2> QED BY <2>1, <2>2 DEF DispatchedTogether
<1> QED BY <1>1, RoutingInvariant, PTL

\* What a request is dispatched under is the latest tenure of its owner, bound
\* to its connection and released by no one, whatever was awaited before.
THEOREM DispatchedInTenure == RoutingSpec => DispatchInTenure
<1> DEFINE mine(q) == {i \in 1..lastId : rows[i].owner = ctx[q].owner}
           InTenure(q) ==
             /\ \E i \in mine(q) : /\ rows'[i].state = "ACTIVE"
                                   /\ rows[i].conn = ctx[q].conn
                                   /\ \A j \in mine(q) : j <= i
             /\ \A i \in mine(q) : rows[i].generation <= ctx[q].generation
             /\ ~\E i \in mine(q) : /\ rows[i].state = "RELEASED"
                                    /\ rows[i].generation = ctx[q].generation
           Proper == \A q \in Request : Dispatches(q) /\ Managed(q) => InTenure(q)
<1>1. ASSUME RoutingInv, [RoutingNext]_routingVars, NEW q \in Request,
             Dispatches(q), Managed(q)
      PROVE  InTenure(q)
  <2>1. Inv /\ TypeOK
    BY <1>1 DEF RoutingInv, Inv
  <2>2. PICK t \in Int : Dispatch(q, t)
    BY <1>1, RoutingNextKeeps DEF StepKeeps, OnlyByDispatch, Dispatches
  <2>3. PassesFence(q, Expired(t)) /\ rows' = Expired(t)
    BY <1>1, <2>2 DEF Dispatch, Dispatches, Drops, Goes, RoutingInv, CarriesContext,
                      Managed, Commit
  <2>4. PICK i \in 1..lastId : /\ Active(i) /\ Expired(t)[i] = rows[i]
                               /\ rows[i].owner = ctx[q].owner
                               /\ rows[i].generation = ctx[q].generation
                               /\ rows[i].conn = ctx[q].conn
    BY <1>1, <2>1, <2>3, ValidFence DEF PassesFence, Managed
  <2>5. \A j \in mine(q) : j <= i
    BY <2>1, <2>4 DEF Inv, ActiveIsLatest
  <2>6. ASSUME NEW j \in mine(q)
        PROVE  rows[j].generation <= ctx[q].generation
    <3>1. rows[j].generation \in Nat /\ rows[i].generation \in Nat
      BY <2>1, <2>4, <2>6 DEF TypeOK, Row
    <3>2. ~(rows[i].generation < rows[j].generation)
      BY <2>1, <2>4, <2>6 DEF Inv, StaleGenerationDead
    <3> QED BY <2>4, <3>1, <3>2
  <2>7. ASSUME NEW j \in mine(q), rows[j].state = "RELEASED",
               rows[j].generation = ctx[q].generation
        PROVE  FALSE
    <3>1. j # i
      BY <2>4, <2>7 DEF Active
    <3>2. j < i
      BY <2>4, <2>5, <2>7, <3>1
    <3> QED BY <2>1, <2>4, <2>7, <3>2 DEF Inv, ReleasedIsLast
  <2>8. i \in mine(q) /\ rows'[i].state = "ACTIVE" /\ rows[i].conn = ctx[q].conn
    BY <2>3, <2>4 DEF Active
  <2> QED BY <2>5, <2>6, <2>7, <2>8
<1>2. RoutingInv /\ [RoutingNext]_routingVars => [Proper]_routingVars
  BY <1>1
<1> QED BY <1>2, RoutingInvariant, PTL DEF RoutingSpec, DispatchInTenure

-----------------------------------------------------------------------------
(***************************************************************************)
(* ToolFence for any attempts, keys, arguments and values, and the loop    *)
(* over it.  Neither property is inductive: that a key is started once     *)
(* rests on its row, which is never deleted; that a value is the right one *)
(* rests on who may write the row.  FenceInv says that an attempt at work  *)
(* owns a running row whose handler has not returned, that a handler       *)
(* returns once per key, and that a success row records what it returned.  *)
(***************************************************************************)

\* A key without a row was never started; one with a row, at most once.
StartedByRow ==
    \A k \in Key :
        IF records[k] = NoRow THEN starts[k] = 0 /\ \A x \in done : x.key # k
                           ELSE starts[k] <= 1

\* Whoever runs a handler owns the row, and no handler returned for it yet.
WorkerOwns ==
    \A a \in Attempt : InCall(a, "executing") =>
        /\ records[call[a].key] # NoRow
        /\ records[call[a].key].by = a
        /\ records[call[a].key].digest = call[a].digest
        /\ records[call[a].key].status = "running"
        /\ \A x \in done : x.key # call[a].key

\* Whoever polls a row asked for the same tool.
PollsSameTool ==
    \A a \in Attempt : InCall(a, "polling") =>
        /\ records[call[a].key] # NoRow
        /\ records[call[a].key].digest = call[a].digest

\* A handler returns at most once for a key.
ReturnsOnce == \A x, y \in done : x.key = y.key => x = y

\* x is what the handler of key k returned, and the row of k records it.
RecordedFrom(x, k) ==
    x.key = k /\ x.digest = records[k].digest /\ records[k].output = Recorded(x.value)

SuccessRecorded ==
    \A k \in Key : records[k] # NoRow /\ records[k].status = "success" =>
        \E x \in done : RecordedFrom(x, k)

Agreed == \A a \in Attempt : HasValue(a) => \E x \in done : ValueFrom(x, a)

FenceInv ==
    /\ FenceTypeOK /\ StartedByRow /\ WorkerOwns /\ PollsSameTool
    /\ ReturnsOnce /\ SuccessRecorded /\ Agreed

-----------------------------------------------------------------------------
LEMMA FenceInitInv == FenceInit => FenceInv
<1> SUFFICES ASSUME FenceInit PROVE FenceInv
  OBVIOUS
<1> USE FenceAssumption DEF FenceInit
<1>1. \A a \in Attempt : call[a] = NoCall /\ call[a].stage = "idle"
  BY DEF NoCall
<1>2. FenceTypeOK
  BY <1>1 DEF FenceTypeOK, Call
<1>3. StartedByRow /\ ReturnsOnce /\ SuccessRecorded
  BY DEF StartedByRow, ReturnsOnce, SuccessRecorded
<1>4. WorkerOwns /\ PollsSameTool /\ Agreed
  BY <1>1 DEF WorkerOwns, PollsSameTool, Agreed, HasValue, InCall
<1> QED BY <1>2, <1>3, <1>4 DEF FenceInv

\* What the fields of a row and of a call range over.
LEMMA RowTypes ==
    ASSUME FenceTypeOK, NEW k \in Key, records[k] # NoRow
    PROVE  /\ records[k] \in Execution
           /\ records[k].status \in {"running", "success", "error"}
           /\ records[k].output \in Kept \cup {NoValue}
BY DEF FenceTypeOK, Execution

LEMMA CallTypes ==
    ASSUME FenceTypeOK, NEW a \in Attempt, ~InCall(a, "idle")
    PROVE  call[a].key \in Key /\ call[a].digest \in Digest
BY DEF FenceTypeOK, Call, NoCall, InCall

\* A step that changes only the call of one attempt.
Answered(a, c) ==
    call' = [call EXCEPT ![a] = c] /\ UNCHANGED <<records, lapsed, starts, done>>

\* What such a call must satisfy.
Fits(a, c) ==
    /\ c \in Call
    /\ c.stage = "executing" => FALSE
    /\ c.stage = "polling" => records[c.key] # NoRow /\ records[c.key].digest = c.digest
    /\ c.stage = "returned" /\ c.kind \in {"executed", "replayed"} =>
          /\ c.kind = "replayed"
          /\ \E x \in done : /\ RecordedFrom(x, c.key) /\ x.digest = c.digest
                            /\ c.value = Recorded(x.value)

LEMMA AnsweredKeeps ==
    ASSUME FenceInv, NEW a \in Attempt, NEW c, Fits(a, c), Answered(a, c)
    PROVE  FenceInv'
<1>1. FenceTypeOK'
  BY DEF FenceInv, FenceTypeOK, Answered, Fits
<1>2. call'[a] = c /\ \A b \in Attempt \ {a} : call'[b] = call[b]
  BY DEF FenceInv, FenceTypeOK, Answered
<1>3. UNCHANGED <<records, lapsed, starts, done>>
  BY DEF Answered
<1>4. StartedByRow' /\ ReturnsOnce' /\ SuccessRecorded'
  BY <1>3 DEF FenceInv, StartedByRow, ReturnsOnce, SuccessRecorded, RecordedFrom
<1>5. WorkerOwns'
  BY <1>2, <1>3 DEF FenceInv, WorkerOwns, InCall, Fits
<1>6. PollsSameTool'
  BY <1>2, <1>3 DEF FenceInv, PollsSameTool, InCall, Fits
<1>7. Agreed'
  <2> SUFFICES ASSUME NEW b \in Attempt, HasValue(b)' PROVE \E x \in done : ValueFrom(x, b)'
    BY <1>3 DEF Agreed
  <2>1. CASE b = a
    <3>1. c.stage = "returned" /\ c.kind \in {"executed", "replayed"}
      BY <1>2, <2>1 DEF HasValue, InCall
    <3>2. PICK x \in done : RecordedFrom(x, c.key) /\ x.digest = c.digest
                            /\ c.value = Recorded(x.value) /\ c.kind = "replayed"
      BY <3>1 DEF Fits
    <3>3. \A y \in done : y.key = x.key => y = x
      BY DEF FenceInv, ReturnsOnce
    <3> QED BY <3>2, <3>3, <1>2, <1>3, <2>1 DEF ValueFrom, RecordedFrom
  <2>2. CASE b # a
    <3>1. HasValue(b)
      BY <1>2, <2>2 DEF HasValue, InCall
    <3>2. PICK x \in done : ValueFrom(x, b)
      BY <3>1 DEF FenceInv, Agreed
    <3> QED BY <3>2, <1>2, <1>3, <2>2 DEF ValueFrom
  <2> QED BY <2>1, <2>2
<1> QED BY <1>1, <1>4, <1>5, <1>6, <1>7 DEF FenceInv

\* The claim that inserts the row: the only step that starts a handler.
LEMMA ClaimKeeps ==
    ASSUME FenceInv, NEW a \in Attempt, NEW k \in Key, NEW d \in Digest,
           InCall(a, "idle"), Claims(a, k, d)
    PROVE  FenceInv'
<1> DEFINE row == [by |-> a, digest |-> d, status |-> "running", output |-> NoValue]
           new == [stage |-> "executing", key |-> k, digest |-> d]
<1>1. records[k] = NoRow /\ row \in Execution /\ row # NoRow /\ new \in Call
  BY FenceAssumption DEF Claims, Claimable, Execution, Call
<1>2. /\ records' = [records EXCEPT ![k] = row]
      /\ starts' = [starts EXCEPT ![k] = @ + 1]
      /\ call' = [call EXCEPT ![a] = new]
      /\ UNCHANGED <<lapsed, done>>
  BY DEF Claims, Becomes
<1> HIDE DEF row, new
<1>3. /\ records'[k] = row /\ \A l \in Key \ {k} : records'[l] = records[l]
      /\ starts'[k] = starts[k] + 1 /\ \A l \in Key \ {k} : starts'[l] = starts[l]
      /\ call'[a] = new /\ \A b \in Attempt \ {a} : call'[b] = call[b]
  BY <1>2 DEF FenceInv, FenceTypeOK
<1>4. starts[k] = 0 /\ \A x \in done : x.key # k
  BY <1>1 DEF FenceInv, StartedByRow
<1>5. FenceTypeOK'
  BY <1>1, <1>2 DEF FenceInv, FenceTypeOK
<1>6. StartedByRow'
  BY <1>1, <1>2, <1>3, <1>4 DEF FenceInv, StartedByRow
<1>7. WorkerOwns'
  <2> SUFFICES ASSUME NEW b \in Attempt, InCall(b, "executing")'
               PROVE  /\ records'[call'[b].key] # NoRow
                      /\ records'[call'[b].key].by = b
                      /\ records'[call'[b].key].digest = call'[b].digest
                      /\ records'[call'[b].key].status = "running"
                      /\ \A x \in done' : x.key # call'[b].key
    BY DEF WorkerOwns
  <2>1. CASE b = a
    BY <1>1, <1>2, <1>3, <1>4, <2>1 DEF row, new
  <2>2. CASE b # a
    <3>1. InCall(b, "executing") /\ call'[b] = call[b]
      BY <1>3, <2>2 DEF InCall
    <3>2. call[b].key \in Key \ {k}
      BY <3>1, <1>1, CallTypes DEF FenceInv, WorkerOwns, InCall
    <3> QED BY <3>1, <3>2, <1>2, <1>3 DEF FenceInv, WorkerOwns
  <2> QED BY <2>1, <2>2
<1>8. PollsSameTool'
  <2> SUFFICES ASSUME NEW b \in Attempt, InCall(b, "polling")'
               PROVE  /\ records'[call'[b].key] # NoRow
                       /\ records'[call'[b].key].digest = call'[b].digest
    BY DEF PollsSameTool
  <2>1. b # a
    BY <1>3 DEF InCall, new
  <2>2. InCall(b, "polling") /\ call'[b] = call[b]
    BY <1>3, <2>1 DEF InCall
  <2>3. call[b].key \in Key \ {k}
    BY <2>2, <1>1, CallTypes DEF FenceInv, PollsSameTool, InCall
  <2> QED BY <2>2, <2>3, <1>3 DEF FenceInv, PollsSameTool
<1>9. ReturnsOnce' /\ SuccessRecorded'
  <2>1. row.status = "running"
    BY DEF row
  <2> QED BY <1>1, <1>2, <1>3, <2>1 DEF FenceInv, ReturnsOnce, SuccessRecorded, RecordedFrom
<1>10. Agreed'
  <2>1. ASSUME NEW b \in Attempt, HasValue(b)' PROVE HasValue(b) /\ call'[b] = call[b]
    BY <1>3, <2>1 DEF HasValue, InCall, new
  <2> QED BY <2>1, <1>2 DEF FenceInv, Agreed, ValueFrom
<1> QED BY <1>5, <1>6, <1>7, <1>8, <1>9, <1>10 DEF FenceInv

\* A handler settles: its row is finalized or stays, its call is returned.
\* out is what it returned, as an element of done, or nothing.
SettlesAs(a, out, status, output, c) ==
    /\ InCall(a, "executing")
    /\ Finalized(a, status, output) \/ UNCHANGED records
    /\ call' = [call EXCEPT ![a] = c]
    /\ done' = done \cup out
    /\ UNCHANGED <<lapsed, starts>>

LEMMA SettleKeeps ==
    ASSUME FenceInv, NEW a \in Attempt, NEW out, NEW status, NEW output, NEW c,
           SettlesAs(a, out, status, output, c),
           out \subseteq [key : {call[a].key}, digest : {call[a].digest}, value : Value],
           \A x, y \in out : x = y,
           \/ status = "error" /\ output = NoValue
           \/ status = "success" /\ \E x \in out : output = Recorded(x.value),
           c \in Call, c.stage = "returned", c.key = call[a].key, c.digest = call[a].digest,
           c.kind = "failed" \/ (c.kind = "executed" /\ \E x \in out : c.value = x.value)
    PROVE  FenceInv'
<1> DEFINE k == call[a].key
           d == call[a].digest
<1>1. k \in Key /\ d \in Digest /\ InCall(a, "executing")
  BY CallTypes DEF FenceInv, SettlesAs, InCall
<1>2. /\ records[k] # NoRow /\ records[k].by = a /\ records[k].digest = d
      /\ records[k].status = "running" /\ \A x \in done : x.key # k
  BY <1>1 DEF FenceInv, WorkerOwns
<1>3. /\ call'[a] = c /\ \A b \in Attempt \ {a} : call'[b] = call[b]
      /\ done' = done \cup out /\ lapsed' = lapsed /\ starts' = starts
  BY DEF FenceInv, FenceTypeOK, SettlesAs
<1>4. \A x \in out : x.key = k /\ x.digest = d /\ x.value \in Value
  OBVIOUS
<1>5. /\ records' \in [Key -> Execution \cup {NoRow}]
      /\ \A l \in Key \ {k} : records'[l] = records[l]
      /\ records'[k] # NoRow /\ records'[k].digest = d
      /\ \/ records'[k].status = "running"
         \/ records'[k].status = status /\ records'[k].output = output
  <2>1. CASE UNCHANGED records
    BY <2>1, <1>1, <1>2 DEF FenceInv, FenceTypeOK
  <2>2. CASE Finalized(a, status, output)
    <3>1. output \in Kept \cup {NoValue} /\ status \in {"success", "error"}
      BY <1>4 DEF Kept
    <3>2. records[k] \in Execution
      BY <1>1, <1>2, RowTypes DEF FenceInv
    <3>3. [records[k] EXCEPT !.status = status, !.output = output] \in Execution
      BY <3>1, <3>2 DEF Execution
    <3>4. /\ records'[k] = [records[k] EXCEPT !.status = status, !.output = output]
          /\ \A l \in Key \ {k} : records'[l] = records[l]
      BY <2>2, <1>1, <1>2 DEF Finalized
    <3>5. records' \in [Key -> Execution \cup {NoRow}]
      <4>1. records' = [l \in Key |-> records'[l]]
        BY <2>2 DEF Finalized
      <4> QED BY <4>1, <3>3, <3>4 DEF FenceInv, FenceTypeOK
    <3> QED BY <3>2, <3>3, <3>4, <3>5, <1>2, FenceAssumption DEF Execution
  <2> QED BY <2>1, <2>2 DEF SettlesAs
<1>6. FenceTypeOK'
  BY <1>1, <1>3, <1>4, <1>5, <1>2 DEF FenceInv, FenceTypeOK, SettlesAs
<1> HIDE DEF k, d
<1>7. StartedByRow'
  BY <1>1, <1>2, <1>3, <1>4, <1>5 DEF FenceInv, StartedByRow
<1>8. \A b \in Attempt : InCall(b, "executing")' =>
          InCall(b, "executing") /\ call'[b] = call[b] /\ call[b].key \in Key \ {k}
  <2> SUFFICES ASSUME NEW b \in Attempt, InCall(b, "executing")'
               PROVE  InCall(b, "executing") /\ call'[b] = call[b] /\ call[b].key \in Key \ {k}
    OBVIOUS
  <2>1. b # a /\ InCall(b, "executing") /\ call'[b] = call[b]
    BY <1>3 DEF InCall
  <2>2. call[b].key \in Key /\ records[call[b].key].by = b
    BY <2>1, CallTypes DEF FenceInv, WorkerOwns, InCall
  <2> QED BY <2>1, <2>2, <1>2
<1>9. WorkerOwns'
  BY <1>3, <1>4, <1>5, <1>8 DEF FenceInv, WorkerOwns
<1>10. PollsSameTool'
  <2> SUFFICES ASSUME NEW b \in Attempt, InCall(b, "polling")'
               PROVE  /\ records'[call'[b].key] # NoRow
                       /\ records'[call'[b].key].digest = call'[b].digest
    BY DEF PollsSameTool
  <2>1. InCall(b, "polling") /\ call'[b] = call[b]
    BY <1>3 DEF InCall
  <2>2. call[b].key \in Key
    BY <2>1, CallTypes DEF FenceInv, InCall
  <2> QED BY <2>1, <2>2, <1>2, <1>5 DEF FenceInv, PollsSameTool
<1>11. ReturnsOnce'
  BY <1>2, <1>3, <1>4 DEF FenceInv, ReturnsOnce
<1>12. SuccessRecorded'
  <2> SUFFICES ASSUME NEW l \in Key, records'[l] # NoRow, records'[l].status = "success"
               PROVE  \E x \in done' : RecordedFrom(x, l)'
    BY DEF SuccessRecorded
  <2>1. CASE l = k
    <3>1. PICK x \in out : records'[k].output = Recorded(x.value)
      BY <1>5, <2>1
    <3> QED BY <3>1, <2>1, <1>3, <1>4, <1>5 DEF RecordedFrom
  <2>2. CASE l # k
    BY <2>2, <1>3, <1>5 DEF FenceInv, SuccessRecorded, RecordedFrom
  <2> QED BY <2>1, <2>2
<1>13. Agreed'
  <2> SUFFICES ASSUME NEW b \in Attempt, HasValue(b)' PROVE \E x \in done' : ValueFrom(x, b)'
    BY DEF Agreed
  <2>1. CASE b = a
    <3>1. c.kind = "executed"
      BY <1>3, <2>1 DEF HasValue
    <3>2. PICK x \in out : c.value = x.value
      BY <3>1
    <3>3. \A y \in done' : y.key = k => y = x
      BY <1>2, <1>3, <1>4
    <3> QED BY <3>1, <3>2, <3>3, <2>1, <1>3, <1>4 DEF ValueFrom, k, d
  <2>2. CASE b # a
    <3>1. HasValue(b) /\ call'[b] = call[b]
      BY <1>3, <2>2 DEF HasValue, InCall
    <3>2. PICK x \in done : ValueFrom(x, b)
      BY <3>1 DEF FenceInv, Agreed
    <3>3. x.key # k
      BY <1>2
    <3>4. \A y \in done' : y.key = x.key => y = x
      BY <3>2, <3>3, <1>3, <1>4 DEF ValueFrom
    <3> QED BY <3>1, <3>2, <3>4, <1>3 DEF ValueFrom
  <2> QED BY <2>1, <2>2
<1> QED BY <1>6, <1>7, <1>9, <1>10, <1>11, <1>12, <1>13 DEF FenceInv

-----------------------------------------------------------------------------
(* Each action has one of these shapes.                                    *)

LEMMA ReplayFits ==
    ASSUME FenceInv, NEW a \in Attempt, NEW k \in Key, NEW d \in Digest,
           records[k] # NoRow, records[k].status # "running", records[k].digest = d,
           Replays(a, k, d), UNCHANGED <<records, lapsed, starts, done>>
    PROVE  FenceInv'
<1> DEFINE kept == [stage |-> "returned", key |-> k, digest |-> d,
                    kind |-> "replayed", value |-> records[k].output]
           lost == [stage |-> "returned", key |-> k, digest |-> d,
                    kind |-> "failed", value |-> NoValue]
<1>1. records[k].output \in Kept \cup {NoValue}
  BY RowTypes DEF FenceInv
<1>2. CASE records[k].status = "success"
  <2>1. PICK x \in done : RecordedFrom(x, k)
    BY <1>2 DEF FenceInv, SuccessRecorded
  <2>2. Fits(a, kept)
    BY <2>1, <1>1 DEF Fits, Call, RecordedFrom
  <2>3. Answered(a, kept)
    BY <1>2 DEF Answered, Replays, Returns
  <2> HIDE DEF kept
  <2> QED BY <2>2, <2>3, AnsweredKeeps
<1>3. CASE records[k].status # "success"
  <2>1. Fits(a, lost)
    BY DEF Fits, Call
  <2>2. Answered(a, lost)
    BY <1>3 DEF Answered, Replays, Returns
  <2> HIDE DEF lost
  <2> QED BY <2>1, <2>2, AnsweredKeeps
<1> QED BY <1>2, <1>3

\* A call that returns without a value.
LEMMA EmptyKeeps ==
    ASSUME FenceInv, NEW a \in Attempt, NEW k \in Key, NEW d \in Digest,
           NEW kind \in {"failed", "in_progress", "unknown", "identity_conflict"},
           Returns(a, k, d, kind, NoValue), UNCHANGED <<records, lapsed, starts, done>>
    PROVE  FenceInv'
<1> DEFINE c == [stage |-> "returned", key |-> k, digest |-> d,
                 kind |-> kind, value |-> NoValue]
<1>1. Fits(a, c)
  BY DEF Fits, Call
<1>2. Answered(a, c)
  BY DEF Answered, Returns
<1> HIDE DEF c
<1> QED BY <1>1, <1>2, AnsweredKeeps

LEMMA EnterKeeps ==
    ASSUME FenceInv, NEW a \in Attempt, NEW k \in Key, NEW d \in Digest, Enter(a, k, d)
    PROVE  FenceInv'
<1>1. CASE Claims(a, k, d)
  BY <1>1, ClaimKeeps DEF Enter
<1>2. CASE ClaimFails(a, k, d)
  BY <1>2, EmptyKeeps DEF ClaimFails
<1>3. CASE ClaimAnswered(a, k, d)
  <2>1. records[k] # NoRow /\ UNCHANGED <<records, lapsed, starts, done>>
    BY <1>3 DEF ClaimAnswered, Claimable
  <2>2. CASE Returns(a, k, d, "identity_conflict", NoValue)
    BY <2>1, <2>2, EmptyKeeps
  <2>3. CASE Returns(a, k, d, "unknown", NoValue)
    BY <2>1, <2>3, EmptyKeeps
  <2>4. CASE records[k].digest = d /\ records[k].status # "running" /\ Replays(a, k, d)
    BY <2>1, <2>4, ReplayFits
  <2>5. CASE records[k].digest = d /\ Becomes(a, "polling", k, d)
    <3> DEFINE c == [stage |-> "polling", key |-> k, digest |-> d]
    <3>1. Fits(a, c)
      BY <2>1, <2>5 DEF Fits, Call
    <3>2. Answered(a, c)
      BY <2>1, <2>5 DEF Answered, Becomes
    <3> HIDE DEF c
    <3> QED BY <3>1, <3>2, AnsweredKeeps
  <2> QED BY <1>3, <2>2, <2>3, <2>4, <2>5 DEF ClaimAnswered, SameTool
<1> QED BY <1>1, <1>2, <1>3 DEF Enter

LEMMA HandlerKeeps ==
    ASSUME FenceInv, NEW a \in Attempt,
           (\E v \in Value : HandlerReturns(a, v)) \/ HandlerThrows(a)
    PROVE  FenceInv'
<1> DEFINE k == call[a].key
           d == call[a].digest
           lost == [stage |-> "returned", key |-> k, digest |-> d,
                    kind |-> "failed", value |-> NoValue]
<1>1. InCall(a, "executing") /\ k \in Key /\ d \in Digest
  BY CallTypes DEF FenceInv, HandlerReturns, HandlerThrows, InCall
<1>2. lost \in Call
  BY <1>1 DEF Call
<1>3. /\ lost.stage = "returned" /\ lost.key = call[a].key
      /\ lost.digest = call[a].digest /\ lost.kind = "failed"
  OBVIOUS
<1>4. CASE HandlerThrows(a)
  <2>1. SettlesAs(a, {}, "error", NoValue, lost)
    BY <1>4, <1>1 DEF SettlesAs, HandlerThrows, FinalizedAsError, Returns
  <2> HIDE DEF lost
  <2> QED BY <2>1, <1>2, <1>3, SettleKeeps
<1>5. ASSUME NEW v \in Value, HandlerReturns(a, v)
      PROVE  FenceInv'
  <2> DEFINE x == [key |-> k, digest |-> d, value |-> v]
             good == [stage |-> "returned", key |-> k, digest |-> d,
                      kind |-> "executed", value |-> v]
  <2>1. /\ {x} \subseteq [key : {call[a].key}, digest : {call[a].digest}, value : Value]
        /\ x.value = v
    OBVIOUS
  <2>2. CASE SettlesAs(a, {x}, "error", NoValue, lost)
    <3> HIDE DEF lost, x
    <3> QED BY <2>1, <2>2, <1>2, <1>3, SettleKeeps
  <2>3. CASE SettlesAs(a, {x}, "success", Recorded(v), good)
    <3>1. /\ good \in Call /\ good.stage = "returned" /\ good.key = call[a].key
          /\ good.digest = call[a].digest /\ good.kind = "executed" /\ good.value = v
      BY <1>1 DEF Call
    <3> HIDE DEF good, x
    <3> QED BY <2>1, <2>3, <3>1, SettleKeeps
  <2> QED BY <1>5, <2>2, <2>3
          DEF SettlesAs, HandlerReturns, FinalizedAsError, Returns
<1> QED BY <1>4, <1>5

LEMMA PollKeeps ==
    ASSUME FenceInv, NEW a \in Attempt, PollFinds(a) \/ PollEnds(a)
    PROVE  FenceInv'
<1>1. InCall(a, "polling") /\ call[a].key \in Key /\ call[a].digest \in Digest
  BY CallTypes DEF FenceInv, PollFinds, PollEnds, InCall
<1>2. records[call[a].key] # NoRow /\ records[call[a].key].digest = call[a].digest
  BY <1>1 DEF FenceInv, PollsSameTool
<1>3. CASE PollFinds(a)
  BY <1>1, <1>2, <1>3, ReplayFits DEF PollFinds
<1>4. CASE PollEnds(a)
  BY <1>1, <1>4, EmptyKeeps DEF PollEnds
<1> QED BY <1>3, <1>4

LEMMA LeaveKeeps ==
    ASSUME FenceInv, NEW a \in Attempt, Leave(a)
    PROVE  FenceInv'
<1>1. NoCall.stage = "idle"
  BY DEF NoCall
<1>2. Fits(a, NoCall)
  BY <1>1 DEF Fits, Call
<1>3. Answered(a, NoCall)
  BY DEF Answered, Leave
<1> QED BY <1>2, <1>3, AnsweredKeeps

LEMMA LapseKeeps ==
    ASSUME FenceInv, NEW k \in Key, Lapse(k)
    PROVE  FenceInv'
<1>1. lapsed' \subseteq Key /\ UNCHANGED <<records, call, starts, done>>
  BY DEF FenceInv, FenceTypeOK, Lapse
<1> QED BY <1>1 DEF FenceInv, FenceTypeOK, StartedByRow, WorkerOwns, PollsSameTool,
            ReturnsOnce, SuccessRecorded, RecordedFrom, Agreed, HasValue, ValueFrom, InCall

LEMMA FenceStepInv == FenceInv /\ [FenceNext]_fenceVars => FenceInv'
<1> SUFFICES ASSUME FenceInv, [FenceNext]_fenceVars PROVE FenceInv'
  OBVIOUS
<1>1. CASE UNCHANGED fenceVars
  BY <1>1 DEF fenceVars, FenceInv, FenceTypeOK, StartedByRow, WorkerOwns, PollsSameTool,
              ReturnsOnce, SuccessRecorded, RecordedFrom, Agreed, HasValue, ValueFrom, InCall
<1>2. ASSUME NEW a \in Attempt, NEW k \in Key, NEW d \in Digest, Enter(a, k, d)
      PROVE  FenceInv'
  BY <1>2, EnterKeeps
<1>3. ASSUME NEW a \in Attempt, Completes(a) PROVE FenceInv'
  BY <1>3, HandlerKeeps, PollKeeps DEF Completes
<1>4. ASSUME NEW a \in Attempt, Leave(a) PROVE FenceInv'
  BY <1>4, LeaveKeeps
<1>5. ASSUME NEW k \in Key, Lapse(k) PROVE FenceInv'
  BY <1>5, LapseKeeps
<1> QED BY <1>1, <1>2, <1>3, <1>4, <1>5 DEF FenceNext

LEMMA FenceInvariant == FenceSpec => []FenceInv
BY FenceInitInv, FenceStepInv, PTL DEF FenceSpec

-----------------------------------------------------------------------------
(* The loop over the fence: an attempt is in a fenced call only while its  *)
(* leg has calls to make.                                                  *)

Leg == [stage : {"idle", "calling", "resuming"}, calls : Seq([key : Key, digest : Digest]),
        mixed : BOOLEAN, followUps : Nat]

LegInv ==
    /\ leg \in [Attempt -> Leg]
    /\ \A a \in Attempt : ~InCall(a, "idle") => OnLeg(a, "calling") /\ leg[a].calls # <<>>

LEMMA NoLegTyped == NoLeg \in Leg
<1>1. <<>> \in Seq([key : Key, digest : Digest])
  BY EmptySeq
<1> QED BY <1>1 DEF NoLeg, Leg

\* The leg of an attempt that is in no call may become any leg.
LEMMA IdleLegMoves ==
    ASSUME LegInv, NEW a \in Attempt, NEW l \in Leg, InCall(a, "idle"),
           leg' = [leg EXCEPT ![a] = l], UNCHANGED call
    PROVE  LegInv'
BY DEF LegInv, InCall, OnLeg

LEMMA OpensTyped ==
    ASSUME LegInv, NEW a \in Attempt, NEW r \in Response, NEW n \in Nat, InCall(a, "idle"),
           Opens(a, r, n), UNCHANGED call
    PROVE  LegInv'
<1> DEFINE l == [stage |-> "calling", calls |-> r.calls, mixed |-> r.mixed, followUps |-> n]
<1>1. CASE Ends(a)
  BY <1>1, NoLegTyped, IdleLegMoves DEF Ends
<1>2. CASE leg' = [leg EXCEPT ![a] = l]
  <2>1. r.calls \in Seq([key : Key, digest : Digest]) /\ r.mixed \in BOOLEAN
    BY LoopAssumption
  <2>2. l \in Leg
    BY <2>1 DEF Leg
  <2> HIDE DEF l
  <2> QED BY <1>2, <2>2, IdleLegMoves
<1> QED BY <1>1, <1>2 DEF Opens

LEMMA LegStepInv ==
    ASSUME FenceTypeOK, FenceTypeOK', LegInv, [LoopNext]_loopVars
    PROVE  LegInv'
<1>1. CASE UNCHANGED loopVars
  BY <1>1 DEF loopVars, fenceVars, LegInv, InCall, OnLeg
<1>2. ASSUME NEW k \in Key, Lapse(k), UNCHANGED leg PROVE LegInv'
  BY <1>2 DEF Lapse, LegInv, InCall, OnLeg
<1>3. ASSUME NEW a \in Attempt, Start(a) PROVE LegInv'
  BY <1>3, OpensTyped DEF Start, fenceVars, LegInv, OnLeg
<1>4. ASSUME NEW a \in Attempt, CallTool(a) PROVE LegInv'
  <2>1. OnLeg(a, "calling") /\ leg[a].calls # <<>> /\ leg' = leg
    BY <1>4 DEF CallTool
  <2>2. \A b \in Attempt \ {a} : call'[b] = call[b]
    BY <1>4 DEF CallTool, Enter, Claims, ClaimFails, ClaimAnswered, Becomes, Returns, Replays,
                FenceTypeOK
  <2> QED BY <2>1, <2>2 DEF LegInv, InCall, OnLeg
<1>5. ASSUME NEW a \in Attempt, SettlesInLeg(a) PROVE LegInv'
  <2>1. ~InCall(a, "idle") /\ leg' = leg
    BY <1>5 DEF SettlesInLeg, Completes, HandlerReturns, HandlerThrows, PollFinds, PollEnds, InCall
  <2>2. \A b \in Attempt \ {a} : call'[b] = call[b]
    BY <1>5 DEF SettlesInLeg, Completes, HandlerReturns, HandlerThrows, PollFinds, PollEnds,
                Returns, Replays, FenceTypeOK
  <2> QED BY <2>1, <2>2 DEF LegInv, InCall, OnLeg
<1>6. ASSUME NEW a \in Attempt, NEW l \in Leg, Leave(a), leg' = [leg EXCEPT ![a] = l]
      PROVE  LegInv'
  <2>1. call'[a].stage = "idle" /\ \A b \in Attempt \ {a} : call'[b] = call[b]
    BY <1>6 DEF Leave, NoCall, FenceTypeOK
  <2> QED BY <1>6, <2>1 DEF LegInv, InCall, OnLeg
<1>7. ASSUME NEW a \in Attempt, TakeAnswer(a) PROVE LegInv'
  <2>1. CASE Ends(a)
    BY <2>1, <1>6, <1>7, NoLegTyped DEF TakeAnswer, Ends
  <2>2. CASE leg' = [leg EXCEPT ![a].calls = Tail(@)]
    <3>1. leg[a].calls # <<>> /\ leg[a] \in Leg
      BY <1>7 DEF TakeAnswer, InCall, LegInv
    <3>2. Tail(leg[a].calls) \in Seq([key : Key, digest : Digest])
      BY <3>1, HeadTailProperties DEF Leg
    <3> DEFINE l == [leg[a] EXCEPT !.calls = Tail(@)]
    <3>3. l \in Leg /\ leg' = [leg EXCEPT ![a] = l]
      BY <2>2, <3>1, <3>2 DEF Leg
    <3> HIDE DEF l
    <3> QED BY <3>3, <1>6, <1>7 DEF TakeAnswer
  <2> QED BY <1>7, <2>1, <2>2 DEF TakeAnswer
<1>8. ASSUME NEW a \in Attempt, CloseLeg(a) PROVE LegInv'
  <2>1. InCall(a, "idle") /\ UNCHANGED call /\ leg[a] \in Leg
    BY <1>8 DEF CloseLeg, fenceVars, LegInv
  <2>2. CASE Ends(a)
    BY <2>1, <2>2, NoLegTyped, IdleLegMoves DEF Ends
  <2>3. CASE leg' = [leg EXCEPT ![a].stage = "resuming"]
    <3> DEFINE l == [leg[a] EXCEPT !.stage = "resuming"]
    <3>1. l \in Leg /\ leg' = [leg EXCEPT ![a] = l]
      BY <2>1, <2>3 DEF Leg
    <3> HIDE DEF l
    <3> QED BY <2>1, <3>1, IdleLegMoves
  <2> QED BY <1>8, <2>2, <2>3 DEF CloseLeg
<1>9. ASSUME NEW a \in Attempt, Resume(a) PROVE LegInv'
  <2>1. InCall(a, "idle") /\ UNCHANGED call /\ leg[a].followUps + 1 \in Nat
    BY <1>9 DEF Resume, fenceVars, LegInv, OnLeg, Leg
  <2>2. CASE Ends(a)
    BY <2>1, <2>2, NoLegTyped, IdleLegMoves DEF Ends
  <2> QED BY <1>9, <2>1, <2>2, OpensTyped DEF Resume
<1>10. ASSUME NEW a \in Attempt, Crash(a) PROVE LegInv'
  BY <1>10, <1>6, NoLegTyped DEF Crash, Ends
<1> QED BY <1>1, <1>2, <1>3, <1>4, <1>5, <1>7, <1>8, <1>9, <1>10 DEF LoopNext, Proceeds

\* A step of the loop is a step of the fence or leaves it alone.
LEMMA FenceStep == LegInv /\ [LoopNext]_loopVars => [FenceNext]_fenceVars
<1> SUFFICES ASSUME LegInv, [LoopNext]_loopVars PROVE [FenceNext]_fenceVars
  OBVIOUS
<1>1. CASE UNCHANGED loopVars
  BY <1>1 DEF loopVars
<1>2. ASSUME NEW k \in Key, Lapse(k) PROVE FenceNext
  BY <1>2 DEF FenceNext
<1>3. ASSUME NEW a \in Attempt, Start(a) \/ CloseLeg(a) \/ Resume(a)
      PROVE  UNCHANGED fenceVars
  BY <1>3 DEF Start, CloseLeg, Resume
<1>4. ASSUME NEW a \in Attempt, SettlesInLeg(a) \/ TakeAnswer(a) \/ Crash(a)
      PROVE  FenceNext
  BY <1>4 DEF FenceNext, SettlesInLeg, TakeAnswer, Crash
<1>5. ASSUME NEW a \in Attempt, CallTool(a) PROVE FenceNext
  <2>1. leg[a].calls \in Seq([key : Key, digest : Digest]) /\ leg[a].calls # <<>>
    BY <1>5 DEF CallTool, LegInv, Leg
  <2>2. Head(leg[a].calls) \in [key : Key, digest : Digest]
    BY <2>1, HeadTailProperties
  <2> QED BY <1>5, <2>2 DEF CallTool, FenceNext
<1> QED BY <1>1, <1>2, <1>3, <1>4, <1>5 DEF LoopNext, Proceeds

LEMMA LoopInvariant == LoopSpec => [](FenceInv /\ LegInv)
<1>1. LoopInit => FenceInv /\ LegInv
  <2>1. LoopInit => LegInv
    BY NoLegTyped DEF LoopInit, FenceInit, NoCall, LegInv, InCall
  <2> QED BY <2>1, FenceInitInv DEF LoopInit
<1>2. FenceInv /\ LegInv /\ [LoopNext]_loopVars => (FenceInv /\ LegInv)'
  <2> SUFFICES ASSUME FenceInv, LegInv, [LoopNext]_loopVars PROVE FenceInv' /\ LegInv'
    OBVIOUS
  <2>1. FenceInv'
    BY FenceStep, FenceStepInv
  <2> QED BY <2>1, LegStepInv DEF FenceInv
<1> QED BY <1>1, <1>2, PTL DEF LoopSpec

-----------------------------------------------------------------------------
(* The theorems.                                                           *)

\* The loop uses the fence as it may be used: it implements its specification,
\* whatever responses come.
THEOREM LoopUsesFence == LoopSpec => FenceSpec
<1>1. LoopInit => FenceInit
  BY DEF LoopInit
<1> QED BY <1>1, LoopInvariant, FenceStep, PTL DEF LoopSpec, FenceSpec

\* Whatever repeats a request and however the loop goes on, the handler of a
\* tool call is called at most once.
THEOREM ExecutedAtMostOnce == LoopSpec => []AtMostOnce
<1>1. FenceInv => AtMostOnce
  BY DEF FenceInv, FenceTypeOK, StartedByRow, AtMostOnce
<1> QED BY FenceInvariant, LoopUsesFence, <1>1, PTL

\* All attempts that are given a value for a tool call are given that of the
\* one handler that returned for it.
THEOREM ValuesAlwaysAgree == LoopSpec => []ValuesAgree
<1>1. FenceInv => ValuesAgree
  BY DEF FenceInv, Agreed, ValuesAgree
<1> QED BY FenceInvariant, LoopUsesFence, <1>1, PTL
=============================================================================
