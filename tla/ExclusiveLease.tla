--------------------------- MODULE ExclusiveLease ---------------------------
(***************************************************************************)
(* The table of exclusive connection leases (src/lib/db/                   *)
(* exclusiveConnectionLeases.ts).  An owner (a managed client session)     *)
(* holds at most one connection, a connection has at most one owner, and a *)
(* generation number fences requests of an earlier tenure.                 *)
(*                                                                         *)
(* Every operation is one IMMEDIATE SQLite transaction that first expires  *)
(* the leases whose time has come, so each is one action.  Its timestamp t *)
(* was read before the transaction began and may trail the clock by up to  *)
(* MaxLag (a wait for the write lock, a clock set back).                   *)
(* The unique indexes on active rows are not modelled: the invariants show *)
(* that the checks inside the transactions make them redundant.            *)
(***************************************************************************)
EXTENDS Integers

CONSTANTS
    Owner,   \* hashed lease owner ids
    ApiKey,  \* API key ids
    Conn,    \* provider connections
    Ttl,     \* the ttlMs values callers pass, clamped
    MaxLag   \* how far a transaction's timestamp may trail the clock

ASSUME LeaseAssumption ==
    /\ Ttl \subseteq Nat \ {0}
    /\ MaxLag \in Nat

VARIABLES
    rows,   \* the table: id -> row, ids 1..lastId (AUTOINCREMENT, no DELETE)
    lastId, \* the last id given
    now     \* the clock

leaseVars == <<rows, lastId, now>>

EndedState == {"RELEASED", "EXPIRED", "INVALIDATED"}

Row == [owner : Owner, key : ApiKey, conn : Conn, generation : Nat,
        state : {"ACTIVE"} \cup EndedState, expires : Int]

Init ==
    /\ rows = [i \in 1..0 |-> {}]
    /\ lastId = 0
    /\ now = 0

\* The timestamps a transaction may carry.
Timestamp == {t \in (now - MaxLag)..now : t >= 0}

\* expire(): UPDATE ... SET state = 'EXPIRED' WHERE ACTIVE AND expires_at <= t.
Expired(t) ==
    [i \in 1..lastId |->
        IF rows[i].state = "ACTIVE" /\ rows[i].expires <= t
        THEN [rows[i] EXCEPT !.state = "EXPIRED"] ELSE rows[i]]

\* SELECT ... WHERE state = 'ACTIVE' AND lease_owner_hash / connection_id = ...
ActiveOf(table, o) == {i \in 1..lastId : table[i].state = "ACTIVE" /\ table[i].owner = o}
ActiveOn(table, c) == {i \in 1..lastId : table[i].state = "ACTIVE" /\ table[i].conn = c}

\* g = 1 + MAX(generation) over the owner's rows, 0 when it has none.
IsNextGeneration(o, g) ==
    /\ \A i \in 1..lastId : rows[i].owner = o => rows[i].generation < g
    /\ g = 1 \/ \E i \in 1..lastId : rows[i].owner = o /\ rows[i].generation = g - 1

\* insert()
Insert(table, row) ==
    /\ lastId' = lastId + 1
    /\ rows' = [i \in 1..(lastId + 1) |-> IF i = lastId + 1 THEN row ELSE table[i]]

ActiveRow(o, k, c, g, expires) ==
    [owner |-> o, key |-> k, conn |-> c, generation |-> g,
     state |-> "ACTIVE", expires |-> expires]

Commit(table) == rows' = table /\ UNCHANGED lastId

-----------------------------------------------------------------------------
(* acquireExclusiveConnectionLease                                         *)

AcquireReused(o, k, c, t, ttl) ==
    \E i \in ActiveOf(Expired(t), o) :
        /\ rows[i].key = k /\ rows[i].conn = c
        /\ Commit([Expired(t) EXCEPT ![i].expires = t + ttl])

\* OWNER_ALREADY_ACTIVE, or CONNECTION_BUSY: only the expiries are kept.
AcquireConflict(o, k, c, t) ==
    /\ \/ \E i \in ActiveOf(Expired(t), o) : rows[i].key # k \/ rows[i].conn # c
       \/ ActiveOf(Expired(t), o) = {} /\ ActiveOn(Expired(t), c) # {}
    /\ Commit(Expired(t))

\* Faulty: the connection is not looked at.
AcquireUnchecked(o, k, c, t, ttl) ==
    /\ ActiveOf(Expired(t), o) = {}
    /\ \E g \in 1..(lastId + 1) :
         /\ IsNextGeneration(o, g)
         /\ Insert(Expired(t), ActiveRow(o, k, c, g, t + ttl))

AcquireFresh(o, k, c, t, ttl) ==
    /\ ActiveOf(Expired(t), o) = {}
    /\ ActiveOn(Expired(t), c) = {}
    /\ \E g \in 1..(lastId + 1) :
         /\ IsNextGeneration(o, g)
         /\ Insert(Expired(t), ActiveRow(o, k, c, g, t + ttl))

Acquire(o, k, c, t, ttl) ==
    /\ \/ AcquireReused(o, k, c, t, ttl)
       \/ AcquireConflict(o, k, c, t)
       \/ AcquireFresh(o, k, c, t, ttl)
    /\ UNCHANGED now

-----------------------------------------------------------------------------
(* transitionExclusiveConnectionLease: the same generation moves to        *)
(* another connection.                                                     *)

\* Faulty: any tenure of the owner will do.
CurrentAnyTenure(table, o, k, g) == {i \in ActiveOf(table, o) : table[i].key = k}

Current(table, o, k, g) ==
    {i \in ActiveOf(table, o) : table[i].generation = g /\ table[i].key = k}

\* STALE, REUSED (already there) or CONNECTION_BUSY.
TransitionRefused(o, k, g, c, t) ==
    /\ \/ Current(Expired(t), o, k, g) = {}
       \/ ActiveOn(Expired(t), c) # {}
    /\ Commit(Expired(t))

\* Faulty: the connection that is left stays leased.
MovesKeepingOld(o, k, g, c, t, ttl) ==
    /\ Current(Expired(t), o, k, g) # {}
    /\ ActiveOn(Expired(t), c) = {}
    /\ Insert(Expired(t), ActiveRow(o, k, c, g, t + ttl))

TransitionMoves(o, k, g, c, t, ttl) ==
    \E i \in Current(Expired(t), o, k, g) :
        /\ ActiveOn(Expired(t), c) = {}
        /\ Insert([Expired(t) EXCEPT ![i].state = "INVALIDATED"],
                  ActiveRow(o, k, c, g, t + ttl))

Transition(o, k, g, c, t, ttl) ==
    /\ TransitionRefused(o, k, g, c, t) \/ TransitionMoves(o, k, g, c, t, ttl)
    /\ UNCHANGED now

-----------------------------------------------------------------------------
(* invalidate, renew and release: update() on the active row of the        *)
(* generation that has not expired at t; nothing but the expiries when     *)
(* there is none.                                                          *)

Update(o, k, g, t, F(_)) ==
    /\ Commit([i \in 1..lastId |->
                 IF i \in Current(Expired(t), o, k, g) /\ rows[i].expires > t
                 THEN F(rows[i]) ELSE Expired(t)[i]])
    /\ UNCHANGED now

Invalidate(o, k, g, t) ==
    LET End(row) == [row EXCEPT !.state = "INVALIDATED"] IN Update(o, k, g, t, End)

Renew(o, k, g, t, ttl) ==
    LET Extend(row) == [row EXCEPT !.expires = t + ttl] IN Update(o, k, g, t, Extend)

Release(o, k, g, t) ==
    LET End(row) == [row EXCEPT !.state = "RELEASED"] IN Update(o, k, g, t, End)

\* reconcileExpiredExclusiveConnectionLeases, which the fence, the status, the
\* occupancy and the auxiliary-activity queries run before they read.
Reconcile(t) == Commit(Expired(t)) /\ UNCHANGED now

-----------------------------------------------------------------------------
(* What those queries answer on the reconciled table.                      *)

\* assertExclusiveConnectionLeaseFence
Fence(table, o, k, g, c) ==
    LET act == ActiveOf(table, o)
    IN  IF act = {} THEN "REQUIRED"
        ELSE LET row == table[CHOOSE i \in act : TRUE]
             IN  IF row.generation # g THEN "STALE"
                 ELSE IF row.key # k THEN "AUTHORIZATION_MISMATCH"
                 ELSE IF row.conn = c THEN "VALID" ELSE "CONNECTION_MISMATCH"

\* The latest row of (owner, generation): historical().
IsHistorical(table, o, g, i) ==
    /\ i \in 1..lastId /\ table[i].owner = o /\ table[i].generation = g
    /\ \A j \in 1..lastId : table[j].owner = o /\ table[j].generation = g => j <= i

\* release() answers RELEASED to a repeated call: its accept() clause.
ReleaseAccepted(table, o, k, g) ==
    \E i \in 1..lastId : /\ IsHistorical(table, o, g, i)
                         /\ table[i].state = "RELEASED" /\ table[i].key = k

-----------------------------------------------------------------------------
Tick == now' = now + 1 /\ UNCHANGED <<rows, lastId>>

\* Generations a caller may present: any it was ever given, or one it made up.
Presented == 1..(lastId + 1)

Operate ==
    \E t \in Timestamp :
        \/ Reconcile(t)
        \/ \E o \in Owner, k \in ApiKey :
             \/ \E c \in Conn, ttl \in Ttl : Acquire(o, k, c, t, ttl)
             \/ \E g \in Presented :
                  \/ \E c \in Conn, ttl \in Ttl : Transition(o, k, g, c, t, ttl)
                  \/ Invalidate(o, k, g, t)
                  \/ \E ttl \in Ttl : Renew(o, k, g, t, ttl)
                  \/ Release(o, k, g, t)

Next == Tick \/ Operate

Spec == Init /\ [][Next]_leaseVars

-----------------------------------------------------------------------------
(* Properties.                                                             *)

\* The table holds rows with ids 1..lastId.
TypeOK ==
    /\ lastId \in Nat
    /\ now \in Nat
    /\ rows \in [1..lastId -> Row]

Active(i) == rows[i].state = "ACTIVE"

\* A connection is never leased to two owners, nor an owner given two
\* connections, whatever the order of acquisitions, moves and expiries.
UniqueActive ==
    \A i, j \in 1..lastId :
        /\ Active(i) /\ Active(j)
        /\ rows[i].owner = rows[j].owner \/ rows[i].conn = rows[j].conn
        => i = j

\* A generation of an owner, once superseded, is dead for good: its rows come
\* before those of every later generation and none of them is active.  So a
\* request that still presents it is never let through the fence.
StaleGenerationDead ==
    \A i, j \in 1..lastId :
        rows[i].owner = rows[j].owner /\ rows[i].generation < rows[j].generation
        => i < j /\ ~Active(i)

\* Only the last row of an owner can be active: a connection it left, by a
\* move or by an end of tenure, is never its own again under that row.
ActiveIsLatest ==
    \A i, j \in 1..lastId :
        rows[i].owner = rows[j].owner /\ i < j => ~Active(i)

\* One tenure is bound to one API key, through every move of it: no other key
\* of the same owner can take over its generation.
GenerationBoundToKey ==
    \A i, j \in 1..lastId :
        /\ rows[i].owner = rows[j].owner
        /\ rows[i].generation = rows[j].generation
        => rows[i].key = rows[j].key

\* What has ended stays as it ended, and a row never changes hands.
EndedIsFinal ==
    [][\A i \in 1..lastId :
          /\ rows'[i].owner = rows[i].owner /\ rows'[i].key = rows[i].key
          /\ rows'[i].conn = rows[i].conn
          /\ rows'[i].generation = rows[i].generation
          /\ ~Active(i) => rows'[i] = rows[i]]_leaseVars

-----------------------------------------------------------------------------
(* The lock that the table implements.                                     *)

Tenure(row) == [owner |-> row.owner, key |-> row.key,
                resource |-> row.conn, number |-> row.generation]

Held == {Tenure(rows[i]) : i \in {j \in 1..lastId : Active(j)}}

Given == {<<rows[i].owner, rows[i].generation>> : i \in 1..lastId}

Lock == INSTANCE FencedLock WITH
            Key <- ApiKey, Resource <- Conn, held <- Held, fenced <- Given

\* Whatever transactions run, with whatever timestamps, the table is a fenced
\* lock: a tenure begins with a new number, moves, and ends for good.
ImplementsLock == Lock!Spec
=============================================================================
