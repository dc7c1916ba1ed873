---------------------------- MODULE LeaseRouting ----------------------------
(***************************************************************************)
(* Requests that route through the lease table: the selection policy and   *)
(* claim of src/sse/services/exclusiveConnectionLeasePolicy.ts as          *)
(* getProviderCredentialsWithQuotaPreflight (src/sse/services/auth.ts)     *)
(* calls them, the fence chatCore asserts before it dispatches, and the    *)
(* lifecycle calls of a client (app/api/v1/session-leases/route.ts).       *)
(*                                                                         *)
(* A request selects a connection, awaits the live quota preflight, claims *)
(* the lease, awaits its slots, passes the fence and dispatches.  Each     *)
(* synchronous stretch between two awaits is one action; everything else   *)
(* may happen in between.                                                  *)
(***************************************************************************)
EXTENDS ExclusiveLease

CONSTANTS
    Request,   \* concurrent requests
    KeyOf,     \* the managed API key of each owner
    Unmanaged  \* stands for the owner of a request without a lease

ASSUME RoutingAssumption == KeyOf \in [Owner -> ApiKey] /\ Unmanaged \notin Owner

VARIABLES
    stage,   \* "idle", "selected", "claimed" or "dispatched"
    ctx,     \* what the request carries: owner, mode, generation, connection
    granted  \* the generation a client holds by its last acquire (0: none)

routingVars == <<rows, lastId, now, stage, ctx, granted>>

NoContext == [owner |-> Unmanaged, mode |-> "request", generation |-> 0]

RoutingInit ==
    /\ Init
    /\ stage = [q \in Request |-> "idle"]
    /\ ctx = [q \in Request |-> NoContext]
    /\ granted = [o \in Owner |-> 0]

Goes(q, s) == stage' = [stage EXCEPT ![q] = s]

\* The request ends, or starts its selection over.
Drops(q) == Goes(q, "idle") /\ ctx' = [ctx EXCEPT ![q] = NoContext]

-----------------------------------------------------------------------------
(* Selection: applyExclusiveConnectionLeasePolicy over the connections the *)
(* ordinary rules leave eligible.                                          *)

\* Connections not leased to another owner.
Free(table, o, eligible) ==
    {c \in eligible : \A i \in ActiveOn(table, c) : table[i].owner = o}

\* The eligible connection the owner's active lease is bound to.
Binding(table, o, eligible) ==
    {c \in eligible : \E i \in ActiveOf(table, o) : table[i].conn = c}

\* leaseRequired, leaseFenceStale: the request presents a tenure that is not
\* the owner's active one, or the active lease is another key's.
PolicyRefuses(table, o, mode, g) ==
    \/ mode = "request" /\ \A i \in ActiveOf(table, o) : table[i].generation # g
    \/ \E i \in ActiveOf(table, o) : table[i].key # KeyOf[o]

\* leaseConnectionMismatch: a request that is forced to a connection, as any may
\* be, is not moved from the one its lease is bound to.
Mismatch(mode, bound) == mode = "request" /\ bound = {}

Select(q, o, mode, eligible, t) ==
    LET table == Expired(t)
        g == IF mode = "request" THEN granted[o] ELSE 1
        free == Free(table, o, eligible)
        bound == Binding(table, o, eligible)
    IN  /\ stage[q] = "idle"
        /\ mode = "request" => granted[o] > 0
        /\ \/ /\ PolicyRefuses(table, o, mode, g) \/ Mismatch(mode, bound)
              /\ Commit(table)
              /\ UNCHANGED <<now, stage, ctx>>
           \/ /\ ~PolicyRefuses(table, o, mode, g)
              /\ free = {}
              /\ IF mode = "request" THEN Invalidate(o, KeyOf[o], g, t)
                                     ELSE Commit(table) /\ UNCHANGED now
              /\ UNCHANGED <<stage, ctx>>
           \/ /\ ~PolicyRefuses(table, o, mode, g)
              /\ \E c \in IF bound # {} THEN bound ELSE free :
                   ctx' = [ctx EXCEPT ![q] = [owner |-> o, mode |-> mode,
                                              generation |-> g, conn |-> c]]
              /\ Goes(q, "selected")
              /\ Commit(table)
              /\ UNCHANGED now
        /\ UNCHANGED granted

\* The ordinary rules leave no connection, or none that has quota: before the
\* policy is asked the request's tenure is given up.
NoneEligible(q, o, t) ==
    /\ stage[q] = "idle" /\ granted[o] > 0
    /\ Invalidate(o, KeyOf[o], granted[o], t)
    /\ UNCHANGED <<stage, ctx, granted>>

\* The live preflight refuses the connection: the next candidate is selected.
PreflightBlocks(q) ==
    /\ stage[q] = "selected"
    /\ Drops(q)
    /\ UNCHANGED <<rows, lastId, now, granted>>

\* A request without a managed key takes a connection nobody leases.
SelectUnmanaged(q, c, t) ==
    /\ stage[q] = "idle"
    /\ ActiveOn(Expired(t), c) = {}
    /\ ctx' = [ctx EXCEPT ![q] = [owner |-> Unmanaged, mode |-> "request",
                                  generation |-> 0, conn |-> c]]
    /\ Goes(q, "claimed")
    /\ Commit(Expired(t))
    /\ UNCHANGED <<now, granted>>

-----------------------------------------------------------------------------
(* commitLease: the owner's active lease is read again, and                *)
(* mutateExclusiveConnectionLease moves it, or acquires one.               *)

\* CLAIMED: an acquisition answers its client, a request goes on to dispatch.
Claimed(q, g) ==
    IF ctx[q].mode = "acquire"
    THEN Drops(q) /\ granted' = [granted EXCEPT ![ctx[q].owner] = g]
    ELSE Goes(q, "claimed") /\ UNCHANGED <<ctx, granted>>

ClaimByTransition(q, t, ttl) ==
    LET o == ctx[q].owner   c == ctx[q].conn   table == Expired(t)
    IN  \E i \in ActiveOf(table, o) :
          LET g == IF ctx[q].mode = "acquire" THEN table[i].generation
                                              ELSE ctx[q].generation
              wins == /\ i \in Current(table, o, KeyOf[o], g)
                      /\ table[i].conn = c \/ ActiveOn(table, c) = {}
          IN  /\ Transition(o, KeyOf[o], g, c, t, ttl)
              /\ IF wins THEN Claimed(q, g) ELSE Drops(q) /\ UNCHANGED granted

ClaimByAcquire(q, t, ttl) ==
    LET o == ctx[q].owner   c == ctx[q].conn   table == Expired(t)
    IN  /\ ActiveOf(table, o) = {}
        /\ Acquire(o, KeyOf[o], c, t, ttl)
        /\ IF ActiveOn(table, c) = {} THEN Claimed(q, rows'[lastId'].generation)
                                      ELSE Drops(q) /\ UNCHANGED granted

CommitLease(q, t, ttl) ==
    /\ stage[q] = "selected"
    /\ ClaimByTransition(q, t, ttl) \/ ClaimByAcquire(q, t, ttl)

-----------------------------------------------------------------------------
(* assertManagedLeaseFence, then the call to the provider.                 *)

\* Faulty: any tenure of the owner passes.
PassesAnyTenure(q, table) ==
    LET x == ctx[q]
    IN  x.owner = Unmanaged
        \/ Fence(table, x.owner, KeyOf[x.owner], x.generation, x.conn)
             \in {"VALID", "STALE"}

PassesFence(q, table) ==
    LET x == ctx[q]
    IN  x.owner = Unmanaged
        \/ Fence(table, x.owner, KeyOf[x.owner], x.generation, x.conn) = "VALID"

Dispatch(q, t) ==
    /\ stage[q] = "claimed"
    /\ IF PassesFence(q, Expired(t)) THEN Goes(q, "dispatched") /\ UNCHANGED ctx
                                     ELSE Drops(q)
    /\ IF ctx[q].owner = Unmanaged THEN UNCHANGED <<rows, lastId>>
                                   ELSE Commit(Expired(t))
    /\ UNCHANGED <<now, granted>>

Finish(q) ==
    /\ stage[q] = "dispatched"
    /\ Drops(q)
    /\ UNCHANGED <<rows, lastId, now, granted>>

-----------------------------------------------------------------------------
(* The client's lifecycle calls; acquire is a Select in acquire mode.      *)

RenewLease(o, t, ttl) ==
    /\ granted[o] > 0
    /\ Renew(o, KeyOf[o], granted[o], t, ttl)
    /\ UNCHANGED <<stage, ctx, granted>>

\* The client is through with the lease, whatever the answer.
ReleaseLease(o, t) ==
    /\ granted[o] > 0
    /\ Release(o, KeyOf[o], granted[o], t)
    /\ granted' = [granted EXCEPT ![o] = 0]
    /\ UNCHANGED <<stage, ctx>>

RoutingTick == Tick /\ UNCHANGED <<stage, ctx, granted>>

Eligible == (SUBSET Conn) \ {{}}

RequestStep(q, t) ==
    \/ \E o \in Owner, mode \in {"acquire", "request"}, e \in Eligible :
         Select(q, o, mode, e, t)
    \/ \E o \in Owner : NoneEligible(q, o, t)
    \/ \E c \in Conn : SelectUnmanaged(q, c, t)
    \/ PreflightBlocks(q)
    \/ \E ttl \in Ttl : CommitLease(q, t, ttl)
    \/ Dispatch(q, t)
    \/ Finish(q)

ClientStep(o, t) == ReleaseLease(o, t) \/ \E ttl \in Ttl : RenewLease(o, t, ttl)

RoutingNext ==
    \/ RoutingTick
    \/ \E t \in Timestamp : \/ \E q \in Request : RequestStep(q, t)
                            \/ \E o \in Owner : ClientStep(o, t)

RoutingSpec == RoutingInit /\ [][RoutingNext]_routingVars

-----------------------------------------------------------------------------
(* Properties.                                                             *)

RoutingTypeOK ==
    /\ TypeOK
    /\ stage \in [Request -> {"idle", "selected", "claimed", "dispatched"}]
    /\ \A q \in Request : stage[q] # "idle" =>
         ctx[q] \in [owner : Owner \cup {Unmanaged}, mode : {"acquire", "request"},
                     generation : Nat, conn : Conn]
    /\ granted \in [Owner -> Nat]

Dispatches(q) == stage[q] # "dispatched" /\ stage'[q] = "dispatched"

Managed(q) == ctx[q].owner # Unmanaged

\* A tenure that was released, invalidated for good or superseded reaches no
\* provider again: whatever was awaited between selection and dispatch, a
\* managed request that dispatches does so in the latest tenure of its owner,
\* on the connection that tenure is bound to, and no one released it.
DispatchInTenure ==
    [][\A q \in Request : Dispatches(q) /\ Managed(q) =>
          LET mine == {i \in 1..lastId : rows[i].owner = ctx[q].owner}
          IN  /\ \E i \in mine : /\ rows'[i].state = "ACTIVE"
                                 /\ rows[i].conn = ctx[q].conn
                                 /\ \A j \in mine : j <= i
              /\ \A i \in mine : rows[i].generation <= ctx[q].generation
              /\ ~\E i \in mine : /\ rows[i].state = "RELEASED"
                                  /\ rows[i].generation = ctx[q].generation
      ]_routingVars

\* Two owners have requests in flight on one connection only after a tenure
\* of one of them there has ended: the later was not let in beside a live one.
DispatchedTogether ==
    /\ RoutingTypeOK
    /\ \A p, q \in Request :
        /\ stage[p] = "dispatched" /\ stage[q] = "dispatched"
        /\ Managed(p) /\ Managed(q) /\ ctx[p].owner # ctx[q].owner
        /\ ctx[p].conn = ctx[q].conn
        => \E i \in 1..lastId : /\ rows[i].conn = ctx[p].conn
                                /\ rows[i].state # "ACTIVE"
                                /\ \/ rows[i].owner = ctx[p].owner
                                   \/ rows[i].owner = ctx[q].owner
=============================================================================
