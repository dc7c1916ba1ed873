--------------------------- MODULE AdaptiveAdmission ---------------------------
(***************************************************************************)
(* AdaptiveAdmissionController (open-sse/services/admission/controller.ts, *)
(* adaptation.ts) in mode "enforce": requests of a weight are admitted     *)
(* while the active weight stays within a limit that adapts to pressure    *)
(* and latency, and otherwise wait, in the fair queue or, with virtual     *)
(* lanes, in a lane of their tenant.                                       *)
(*                                                                         *)
(* Every method runs to its end in one turn of the event loop, so each is  *)
(* one action, the dispatch at its end included.                           *)
(***************************************************************************)
EXTENDS FairCostQueue

CONSTANTS
    Request,      \* requests, each acquiring again and again
    TenantOf,     \* the tenant of each request
    CostOf,       \* the weight of each request
    DefaultTenant,\* "_default": requests without a session, never in a lane
    LaneModes,    \* the values of config.virtualLanes to consider
    MinLimit, MaxLimit, InitialLimit,
    Caps,         \* maxQueueCount and maxQueueCost
    MaxLanes,     \* ADMISSION_LANE_MAX_SESSIONS
    Decrease(_),  \* limit |-> floor(limit * decreaseFactor)
    Critical(_),  \* limit |-> floor(limit * criticalDecreaseFactor)
    Step          \* min(increaseStep, maxIncreasePerWindow)

ASSUME AdmissionAssumption ==
    /\ IsFiniteSet(Request)
    /\ TenantOf \in [Request -> Tenant] /\ CostOf \in [Request -> Nat \ {0}]
    /\ DefaultTenant \in Tenant /\ LaneModes \in (SUBSET BOOLEAN) \ {{}}
    /\ {MinLimit, MaxLimit, InitialLimit} \subseteq Nat \ {0}
    /\ MinLimit <= InitialLimit /\ InitialLimit <= MaxLimit
    /\ Caps \in [maxCount : Nat \ {0}, maxCost : Nat \ {0}]
    /\ MaxLanes \in Nat \ {0} /\ Step \in Nat \ {0}
    /\ \A n \in 1..MaxLimit : Critical(n) \in 0..n /\ Decrease(n) \in Critical(n)..n

VARIABLES
    queue,      \* the shared fair queue
    lanes,      \* the queue of each tenant's lane, empty when there is none
    laneOrder,  \* the lanes there are, in the order of their creation
    active,     \* the requests that hold a lease
    activeCost, \* the counter of their weight
    overdue,    \* queued requests whose deadline has passed
    limit,      \* adaptation.currentLimit
    adaptation, \* pressure, and what the open window has seen
    shutDown,
    virtualLanes \* config.virtualLanes, given at the start

queueVars == <<queue, lanes, laneOrder, overdue>>
admissionVars == <<queueVars, active, activeCost, limit, adaptation, shutDown, virtualLanes>>

QuietWindow == [pressure |-> "normal", consumed |-> FALSE, freeze |-> FALSE,
                completed |-> FALSE]

Init ==
    /\ queue = EmptyQueue
    /\ lanes = [t \in Tenant |-> EmptyQueue]
    /\ laneOrder = <<>>
    /\ active = {} /\ activeCost = 0
    /\ overdue = {}
    /\ limit = InitialLimit
    /\ adaptation = QuietWindow
    /\ shutDown = FALSE
    /\ virtualLanes \in LaneModes

-----------------------------------------------------------------------------
(* dispatch, on the books that it changes.                                 *)

Books == [queue |-> queue, lanes |-> lanes, active |-> active, cost |-> activeCost,
          overdue |-> overdue]

\* admit
Admitted(b, r) == [b EXCEPT !.active = @ \cup {r}, !.cost = @ + CostOf[r]]

\* An entry that was taken: past its deadline it is rejected.
Settled(b, r) ==
    IF r \in b.overdue THEN [b EXCEPT !.overdue = @ \ {r}] ELSE Admitted(b, r)

\* Nothing can be taken from the queue q with these books: it is empty, or who
\* is next in it does not fit.
Blocked(b, q, lim) == q.count = 0 \/ lim - b.cost <= 0 \/ Choice(q, lim - b.cost) = {}

\* The place in q that is taken.
Chosen(b, q, lim) == CHOOSE i \in Choice(q, lim - b.cost) : TRUE

\* One turn of the loop of dispatch.
ServeNext(b, lim) ==
    IF Blocked(b, b.queue, lim) THEN b
    ELSE LET i == Chosen(b, b.queue, lim)
         IN  Settled([b EXCEPT !.queue = Dequeue(@, i)], HeadAt(b.queue, i).id)

\* The loop, which has no more turns than there are entries.
QueueServed(b, lim) ==
    LET turn[n \in 0..b.queue.count] == IF n = 0 THEN b ELSE ServeNext(turn[n - 1], lim)
    IN  turn[b.queue.count]

\* One turn of the loop over lane t, unless one of it was admitted since b.
LaneNext(b, x, lim, t) ==
    IF x.active # b.active \/ Blocked(x, x.lanes[t], lim) THEN x
    ELSE LET i == Chosen(x, x.lanes[t], lim)
         IN  Settled([x EXCEPT !.lanes[t] = Dequeue(@, i)], HeadAt(x.lanes[t], i).id)

\* From lane t goes what is overdue, and one that fits.
LaneServed(b, lim, t) ==
    LET turn[n \in 0..b.lanes[t].count] == IF n = 0 THEN b ELSE LaneNext(b, turn[n - 1], lim, t)
    IN  turn[b.lanes[t].count]

\* dispatchLanes
LanesServed(b, order, lim) ==
    LET round[n \in 0..Len(order)] == IF n = 0 THEN b ELSE LaneServed(round[n - 1], lim, order[n])
    IN  round[Len(order)]

Dispatch(b, order, lim) ==
    LET served == QueueServed(b, lim)
    IN  IF served.queue.count = 0 THEN LanesServed(served, order, lim) ELSE served

\* The books become the state; lanes without entries are removed.
Keep(b, order) ==
    /\ queue' = Reranked(b.queue)
    /\ lanes' = b.lanes
    /\ laneOrder' = Only(order, {t \in Tenant : b.lanes[t].count > 0})
    /\ active' = b.active
    /\ activeCost' = b.cost
    /\ overdue' = b.overdue

KeepDispatched(b, order, lim) == Keep(IF shutDown THEN b ELSE Dispatch(b, order, lim), order)

\* enqueue dispatches twice, before and after it arms the timer.
KeepEntered(b, order) == Keep(Dispatch(Dispatch(b, order, limit), order, limit), order)

-----------------------------------------------------------------------------
(* acquire                                                                 *)

Queued(r) == \E e \in Entries(queue) \cup Entries(lanes[TenantOf[r]]) : e.id = r

Idle(r) == r \notin active /\ ~Queued(r)

EntryOf(r, stamp) == [id |-> r, cost |-> CostOf[r], at |-> stamp, skips |-> 0]

InLane(r) == virtualLanes /\ TenantOf[r] # DefaultTenant

\* shouldAdmitSolo
AdmitsSolo(r) ==
    /\ CostOf[r] <= MaxLimit
    /\ active = {}
    /\ queue.count = 0
    /\ laneOrder = <<>>
    /\ adaptation.pressure = "normal"

\* Faulty: the queue is not looked at, a newcomer that fits goes ahead.
AdmitsJumping(r) ==
    IF CostOf[r] > limit THEN AdmitsSolo(r) ELSE activeCost + CostOf[r] <= limit

\* Faulty: a request over the limit may run whatever else runs.
AdmitsOversized(r) ==
    IF CostOf[r] > limit THEN CostOf[r] <= MaxLimit /\ queue.count = 0
    ELSE queue.count = 0 /\ activeCost + CostOf[r] <= limit

\* Admitted on arrival: over the limit alone, within it when nothing is queued.
Admits(r) ==
    IF CostOf[r] > limit THEN AdmitsSolo(r)
    ELSE queue.count = 0 /\ activeCost + CostOf[r] <= limit

Rejects(r) == CostOf[r] > limit \/ ~CanAccept(queue, CostOf[r], Caps)

AcquireNow(r) ==
    /\ ~shutDown /\ Idle(r) /\ Admits(r)
    /\ active' = active \cup {r}
    /\ activeCost' = activeCost + CostOf[r]
    /\ UNCHANGED <<queueVars, limit, adaptation, shutDown, virtualLanes>>

\* SHUTDOWN, OVERSIZED and QUEUE_FULL.
AcquireRejected(r) ==
    /\ Idle(r)
    /\ shutDown \/ (~Admits(r) /\ Rejects(r))
    /\ UNCHANGED admissionVars

\* enqueue into the shared queue.
AcquireQueued(r) ==
    /\ ~shutDown /\ Idle(r) /\ ~Admits(r) /\ ~Rejects(r) /\ ~InLane(r)
    /\ \E stamp \in NextStamps(queue) :
          KeepEntered([Books EXCEPT !.queue = Enqueue(@, TenantOf[r], EntryOf(r, stamp))],
                      laneOrder)
    /\ UNCHANGED <<limit, adaptation, shutDown, virtualLanes>>

\* deleteLane: whoever waits in it is rejected.
Deleted(b, gone) ==
    [b EXCEPT !.lanes = [t \in Tenant |-> IF t \in gone THEN EmptyQueue ELSE @[t]],
              !.overdue = @ \ {e.id : e \in UNION {Entries(b.lanes[t]) : t \in gone}}]

\* getOrCreateLane at the cap: the lane used longest ago goes, which the model
\* leaves open.
Evictable(t) ==
    IF lanes[t].count = 0 /\ Len(laneOrder) >= MaxLanes
    THEN {{u} : u \in Range(laneOrder)} ELSE {{}}

\* enqueue into the lane of the tenant, created if there is none; a lane that
\* is full rejects.
AcquireInLane(r) ==
    LET t == TenantOf[r]
    IN  /\ ~shutDown /\ Idle(r) /\ ~Admits(r) /\ ~Rejects(r) /\ InLane(r)
        /\ \E gone \in Evictable(t) :
             LET b == Deleted(Books, gone)
                 order == IF lanes[t].count = 0 THEN Append(laneOrder, t) ELSE laneOrder
             IN  IF CanAccept(lanes[t], CostOf[r], Caps)
                 THEN KeepEntered([b EXCEPT !.lanes[t] = Enqueue(@, t, EntryOf(r, 0))], order)
                 ELSE Keep(b, order)
        /\ UNCHANGED <<limit, adaptation, shutDown, virtualLanes>>

-----------------------------------------------------------------------------
(* The end of a wait and the end of a lease.                               *)

Overdue(r) ==
    /\ Queued(r) /\ r \notin overdue
    /\ overdue' = overdue \cup {r}
    /\ UNCHANGED <<queue, lanes, laneOrder, active, activeCost, limit, adaptation,
                   shutDown, virtualLanes>>

\* Faulty: the room that a removal makes is left to the next event.
ExpireUndispatched(r) ==
    LET t == TenantOf[r]
    IN  /\ Queued(r)
        /\ Keep([Books EXCEPT !.queue = RemoveId(@, t, r),
                              !.lanes[t] = RemoveId(@, t, r),
                              !.overdue = @ \ {r}], laneOrder)
        /\ UNCHANGED <<limit, adaptation, shutDown, virtualLanes>>

\* expireEntry: the deadline timer, or the client goes away.
ExpireEntry(r) ==
    LET t == TenantOf[r]
    IN  /\ Queued(r)
        /\ KeepDispatched([Books EXCEPT !.queue = RemoveId(@, t, r),
                                        !.lanes[t] = RemoveId(@, t, r),
                                        !.overdue = @ \ {r}], laneOrder, limit)
        /\ UNCHANGED <<limit, adaptation, shutDown, virtualLanes>>

\* releaseLease, once: a failed or timed-out call freezes growth.
ReleaseLease(r, failed) ==
    /\ r \in active
    /\ KeepDispatched([Books EXCEPT !.active = @ \ {r}, !.cost = @ - CostOf[r]],
                      laneOrder, limit)
    /\ adaptation' = [adaptation EXCEPT !.completed = TRUE, !.freeze = @ \/ failed]
    /\ UNCHANGED <<limit, shutDown, virtualLanes>>

-----------------------------------------------------------------------------
(* The limit.                                                              *)

Severity(p) == CASE p = "normal" -> 0 [] p = "high" -> 1 [] p = "critical" -> 2

Clamped(n) == IF n < MinLimit THEN MinLimit ELSE IF n > MaxLimit THEN MaxLimit ELSE n

\* observePressure: the first critical one of a window lowers the limit.
ObservePressure(p) ==
    LET falls == p = "critical" /\ ~adaptation.consumed
        lower == IF Critical(limit) < MinLimit THEN MinLimit ELSE Critical(limit)
    IN  /\ Severity(p) > Severity(adaptation.pressure) \/ falls
        /\ adaptation' = [adaptation EXCEPT
                !.pressure = IF Severity(p) > Severity(@) THEN p ELSE @,
                !.consumed = @ \/ falls]
        /\ limit' = IF falls THEN lower ELSE limit
        /\ IF falls THEN KeepDispatched(Books, laneOrder, lower)
           ELSE UNCHANGED <<queueVars, active, activeCost>>
        /\ UNCHANGED <<shutDown, virtualLanes>>

\* applyIdleRecovery
Recovered(n) ==
    IF adaptation.pressure # "critical" /\ ~adaptation.freeze /\ ~adaptation.completed
       /\ limit < InitialLimit
    THEN IF n + Step < InitialLimit THEN n + Step ELSE InitialLimit
    ELSE n

\* closeAdaptationWindow: steep says that the latency gradient is over its
\* threshold, load how much of the limit was in use.
NextLimit(steep, load) ==
    LET a == adaptation
        n == IF a.pressure = "critical" THEN IF a.consumed THEN limit ELSE Critical(limit)
             ELSE IF a.pressure = "high" \/ (a.completed /\ steep) THEN Decrease(limit)
             ELSE IF ~a.freeze /\ load = "high" /\ a.completed THEN limit + Step
             ELSE limit
    IN  Clamped(IF load = "low" THEN Recovered(n) ELSE n)

\* A window in which no lease was held was not loaded.
Loads == IF active = {} /\ ~adaptation.completed THEN {"low"} ELSE {"low", "medium", "high"}

\* tick: lanes idle for a minute go, the window closes, the queue is served.
Tick(steep, load, gone) ==
    /\ ~shutDown
    /\ limit' = NextLimit(steep, load)
    /\ adaptation' = QuietWindow
    /\ KeepDispatched(Deleted(Books, gone),
                      Only(laneOrder, Tenant \ gone), limit')
    /\ UNCHANGED <<shutDown, virtualLanes>>

\* The lane timer: evictIdleLanes.
EvictIdleLanes(gone) ==
    /\ gone # {}
    /\ Keep(Deleted(Books, gone), laneOrder)
    /\ UNCHANGED <<limit, adaptation, shutDown, virtualLanes>>

\* shutdown: whoever waits is rejected; leases are released as ever.
Shutdown ==
    /\ ~shutDown /\ shutDown' = TRUE
    /\ Keep([Books EXCEPT !.queue = EmptyQueue, !.overdue = {},
                          !.lanes = [t \in Tenant |-> EmptyQueue]], <<>>)
    /\ UNCHANGED <<limit, adaptation, virtualLanes>>

-----------------------------------------------------------------------------
Acquire(r) == AcquireNow(r) \/ AcquireRejected(r) \/ AcquireQueued(r) \/ AcquireInLane(r)

Ends(r) == \E failed \in BOOLEAN : ReleaseLease(r, failed)

Ticks == \E steep \in BOOLEAN, load \in Loads, gone \in SUBSET Range(laneOrder) :
             Tick(steep, load, gone)

Next ==
    \/ \E r \in Request : Acquire(r) \/ Overdue(r) \/ ExpireEntry(r) \/ Ends(r)
    \/ \E p \in {"high", "critical"} : ObservePressure(p)
    \/ Ticks
    \/ \E gone \in SUBSET Range(laneOrder) : EvictIdleLanes(gone)
    \/ Shutdown

Spec == Init /\ [][Next]_admissionVars

\* Requests end: their calls answer, fail or time out.  That is weak fairness
\* of Ends(r), which can happen whenever r is active and nothing else ends it.
\* Deadline timers are not relied on.
Fairness == \A r \in Request : []<>(r \notin active)

-----------------------------------------------------------------------------
(* Properties.                                                             *)

EntryType == [id : Request, cost : Nat, at : Nat, skips : 0..MaxSkips]

TypeOK ==
    /\ \A q \in {queue} \cup {lanes[t] : t \in Tenant} :
          /\ q.order \in Seq(Tenant) /\ q.cursor \in Nat
          /\ \A t \in Tenant : q.bucket[t] \in Seq(EntryType)
    /\ laneOrder \in Seq(Tenant)
    /\ active \subseteq Request /\ activeCost \in Nat
    /\ overdue \subseteq Request
    /\ limit \in MinLimit..MaxLimit
    /\ adaptation \in [pressure : {"normal", "high", "critical"}, consumed : BOOLEAN,
                       freeze : BOOLEAN, completed : BOOLEAN]
    /\ shutDown \in BOOLEAN /\ virtualLanes \in LaneModes

\* The sum of their weights, unit by unit.
TotalCost(rs) == Cardinality(UNION {{r} \X (1..CostOf[r]) : r \in rs})

InQueue(q) == {e.id : e \in Entries(q)}

\* The counters agree with what is queued, the rotation names each tenant with
\* a bucket once and its cursor points into it, and a request is in one place.
Tidy(q) ==
    /\ q.count = Cardinality(InQueue(q))
    /\ q.cost = TotalCost(InQueue(q))
    /\ IsInjective(q.order)
    /\ Range(q.order) = {t \in Tenant : q.bucket[t] # <<>>}
    /\ IF q.order = <<>> THEN q.cursor = 0 ELSE q.cursor < Len(q.order)

BooksAgree ==
    /\ TypeOK
    /\ Tidy(queue) /\ \A t \in Tenant : Tidy(lanes[t])
    /\ IsInjective(laneOrder)
    /\ Range(laneOrder) = {t \in Tenant : lanes[t].count > 0}
    /\ activeCost = TotalCost(active)
    /\ \A r \in Request :
          /\ ~(r \in active /\ Queued(r))
          /\ ~(r \in InQueue(queue) /\ r \in InQueue(lanes[TenantOf[r]]))
          /\ r \in overdue => Queued(r)

\* No admission takes the weight of the active requests over the limit of that
\* moment, except a single one within the healthy ceiling while all is idle.
AdmitsWithinLimit ==
    [][active' \ active # {} =>
          \/ activeCost' <= limit'
          \/ /\ active = {} /\ Cardinality(active') = 1
             /\ activeCost' <= MaxLimit /\ adaptation.pressure = "normal"
             /\ \A r \in Request : ~Queued(r)]_admissionVars

\* After every operation, however limit and leases have changed, the next in
\* turn of the shared queue does not fit.  A lane may hold back one that fits,
\* but not while nothing else is active or queued.
NoFittingHead ==
    /\ queue.count > 0 => Choice(queue, limit - activeCost) = {}
    /\ queue.count = 0 /\ active = {} =>
          \A t \in Tenant : lanes[t].count > 0 => Choice(lanes[t], limit) = {}

\* The head of a tenant that was passed over MaxSkips times is reserved:
\* until it is gone, nobody who came later is admitted.
Reserved(t) == queue.bucket[t] # <<>> /\ Head(queue.bucket[t]).skips >= MaxSkips

ReservedFirst ==
    [][\A t \in Tenant :
          LET h == Head(queue.bucket[t])
          IN  Reserved(t) /\ h.id \in InQueue(queue)' =>
                \A r \in active' \ active :
                    \E e \in Entries(queue) : e.id = r /\ e.at <= h.at]_admissionVars

\* If the limit in the end stays where every request fits, a reserved head is
\* admitted or turned away without help from its deadline, whatever the others
\* ask for meanwhile.
Roomy == \A r \in Request : CostOf[r] <= limit

ReservedServed ==
    <>[]Roomy => \A t \in Tenant : Reserved(t) ~> ~Reserved(t)
=============================================================================
