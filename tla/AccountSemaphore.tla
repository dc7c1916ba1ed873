-------------------------- MODULE AccountSemaphore --------------------------
(***************************************************************************)
(* The hierarchical concurrency gates of open-sse/services/                *)
(* accountSemaphore.ts.  A request names the gates it must pass ("global", *)
(* "provider:P", "P:account") and is admitted only when every one of them  *)
(* has room; otherwise it waits in the queue of each of them at once, and  *)
(* a waiter counts in no gate.                                             *)
(*                                                                         *)
(* The module runs in one event loop: each action is one synchronous turn  *)
(* (a call, a timer callback or an abort listener), drainQueues included.  *)
(* Wall-clock deadlines are abstracted to the turn in which the clock has  *)
(* passed them: a request's timer is TimeOut, a gate's blockedUntil is     *)
(* BlockLapses.                                                            *)
(***************************************************************************)
EXTENDS Naturals, FiniteSets, Sequences, SequencesExt, Queues

CONSTANTS
    Req,        \* callers; each makes one acquisition at a time
    Key,        \* gate keys
    KeySets,    \* the sets of enabled keys an acquisition may name
    CapChoices, \* the limits (Key -> positive) an acquisition may carry
    Policies,   \* its failFast flag and its maxQueueSize (0 = no limit)
    Blockable   \* the keys markBlocked is called for

ASSUME SemaphoreAssumption ==
    /\ IsFiniteSet(Req)
    /\ KeySets \subseteq (SUBSET Key) \ {{}}
    /\ CapChoices \subseteq [Key -> Nat \ {0}]
    /\ Policies \subseteq [failFast : BOOLEAN, maxQueueSize : Nat]
    /\ Blockable \subseteq Key

VARIABLES
    gates,  \* the Map of gates: a function whose domain is the keys present
    queued, \* queuedRequests, a Set iterated in insertion order
    phase,  \* "idle", "waiting" (queued) or "holding" (release fn handed out)
    keysOf, \* the keys of a request's current acquisition
    stray,  \* keys with a pending cleanup callback of a gate reset() deleted
    forgotten, \* history: the keys of a holder whose gate was reset since
    robbed  \* history: keys whose gate took back a slot it had not given

history == <<forgotten, robbed>>
vars == <<gates, queued, phase, keysOf, stray, history>>

NewGate(cap) == [running |-> 0, maxConcurrency |-> cap, queue |-> <<>>,
                 blocked |-> FALSE, cleanup |-> FALSE]

Init ==
    /\ gates = <<>>
    /\ queued = <<>>
    /\ phase = [r \in Req |-> "idle"]
    /\ keysOf = [r \in Req |-> {}]
    /\ stray = {}
    /\ forgotten = [r \in Req |-> {}]
    /\ robbed = {}

Idle(gate) == gate.running = 0 /\ gate.queue = <<>>

\* Faulty: a full gate still has room for one more.
HasRoomForOneMore(gate) == ~gate.blocked /\ gate.running <= gate.maxConcurrency

HasRoom(gate) == ~gate.blocked /\ gate.running < gate.maxConcurrency

\* Apply F to the gates of keys that exist.
OnGates(g, keys, F(_)) == [k \in DOMAIN g |-> IF k \in keys THEN F(g[k]) ELSE g[k]]

\* ensureGate and clearCleanupTimer for every key of an acquisition.
EnsureGates(g, keys, caps) ==
    [k \in DOMAIN g \cup keys |->
        IF k \notin keys THEN g[k]
        ELSE IF k \notin DOMAIN g THEN NewGate(caps[k])
        ELSE [g[k] EXCEPT !.maxConcurrency = caps[k], !.cleanup = FALSE]]

\* scheduleCleanup for those of keys whose gate is idle.
ScheduleCleanup(g, keys) ==
    LET Arm(gate) == [gate EXCEPT !.cleanup = @ \/ Idle(gate)]
    IN  OnGates(g, keys, Arm)

\* Faulty: a gate with holders but no waiter is dropped too.
CleanupIfUnqueued(g, keys) ==
    LET gone == {k \in keys \cap DOMAIN g : g[k].queue = <<>> /\ ~g[k].blocked}
    IN  [k \in DOMAIN g \ gone |-> g[k]]

\* cleanupGateIfIdle: drop the gates of keys that nobody uses.
CleanupIfIdle(g, keys) ==
    LET gone == {k \in keys \cap DOMAIN g : Idle(g[k]) /\ ~g[k].blocked}
    IN  [k \in DOMAIN g \ gone |-> g[k]]

\* Faulty: whoever leaves, it is the first waiter that is unlinked.
UnlinkFirst(g, r, keys) ==
    LET Unlink(gate) == [gate EXCEPT !.queue = IF @ = <<>> THEN @ ELSE Tail(@)]
    IN  ScheduleCleanup(OnGates(g, keys, Unlink), keys)

\* Faulty: a gate left idle by a waiter is not scheduled for cleanup.
RemoveWithoutCleanup(g, r, keys) ==
    LET Unlink(gate) == [gate EXCEPT !.queue = Only(@, Req \ {r})]
    IN  OnGates(g, keys, Unlink)

\* removeRequest, for each of the requests out, which wait for some of keys.
RemoveRequests(g, out, keys) ==
    LET Unlink(gate) == [gate EXCEPT !.queue = Only(@, Req \ out)]
    IN  ScheduleCleanup(OnGates(g, keys, Unlink), keys)

\* removeRequest: out of the queue of every gate it waits for.
RemoveRequest(g, r, keys) == RemoveRequests(g, {r}, keys)

TakeSlots(g, keys) ==
    LET Take(gate) == [gate EXCEPT !.running = @ + 1]
    IN  OnGates(g, keys, Take)

CanAcquire(g, r, keys) ==
    \A k \in keys : /\ k \in DOMAIN g
                    /\ HasRoom(g[k])
                    /\ g[k].queue # <<>>
                    /\ Head(g[k].queue) = r

-----------------------------------------------------------------------------
(* drainQueues: while some queued request can be admitted, admit the first *)
(* one in insertion order.  A state of the loop is the gates, the queued   *)
(* requests and the requests admitted so far.                              *)

AdmitFirst(s, need) ==
    LET ready == Only(s.queued, {r \in Req : CanAcquire(s.gates, r, need[r])})
        r == Head(ready)
    IN  IF ready = <<>> THEN s
        ELSE [gates    |-> TakeSlots(RemoveRequest(s.gates, r, need[r]), need[r]),
              queued   |-> Only(s.queued, Req \ {r}),
              admitted |-> s.admitted \cup {r}]

\* Faulty: the loop ends after the first admission.
DrainOne(g, q, need) ==
    AdmitFirst([gates |-> g, queued |-> q, admitted |-> {}], need)

DrainQueues(g, q, need) ==
    LET turn[n \in 0..Len(q)] ==
            IF n = 0 THEN [gates |-> g, queued |-> q, admitted |-> {}]
                     ELSE AdmitFirst(turn[n - 1], need)
    IN  turn[Len(q)]

\* The admitted requests get their release functions.
Admit(ph, admitted) == [r \in Req |-> IF r \in admitted THEN "holding" ELSE ph[r]]

-----------------------------------------------------------------------------
(* acquireMany: acquire at once, be rejected, or wait.                     *)

\* Faulty: a newcomer passes the waiters of a gate that has room.
CanBarge(keys, g) == \A k \in keys : HasRoom(g[k])

\* Every gate has room and nobody waits at it.
CanAcquireImmediately(keys, g) ==
    \A k \in keys : g[k].queue = <<>> /\ HasRoom(g[k])

\* findQueueRejection: fail-fast, or a queue at its limit (0 = no limit).
QueueRejects(keys, g, policy) ==
    \/ policy.failFast
    \/ /\ policy.maxQueueSize > 0
       /\ \E k \in keys : Len(g[k].queue) >= policy.maxQueueSize

AcquireNow(r, keys, g) ==
    /\ CanAcquireImmediately(keys, g)
    /\ gates' = TakeSlots(g, keys)
    /\ phase' = [phase EXCEPT ![r] = "holding"]
    /\ keysOf' = [keysOf EXCEPT ![r] = keys]
    /\ UNCHANGED <<queued, stray, history>>

\* A rejected caller leaves behind what ensureGate did to the gates.
AcquireRejected(keys, g, policy) ==
    /\ ~CanAcquireImmediately(keys, g)
    /\ QueueRejects(keys, g, policy)
    /\ gates' = g
    /\ UNCHANGED <<queued, phase, keysOf, stray, history>>

AcquireQueued(r, keys, g, policy) ==
    LET Push(gate) == [gate EXCEPT !.queue = Append(@, r)]
        need == [keysOf EXCEPT ![r] = keys]
        s == DrainQueues(OnGates(g, keys, Push), Append(queued, r), need)
    IN  /\ ~CanAcquireImmediately(keys, g)
        /\ ~QueueRejects(keys, g, policy)
        /\ gates' = s.gates
        /\ queued' = s.queued
        /\ keysOf' = need
        /\ phase' = Admit([phase EXCEPT ![r] = "waiting"], s.admitted)
        /\ UNCHANGED <<stray, history>>

AcquireMany(r, keys, caps, policy) ==
    /\ phase[r] = "idle"
    /\ LET g == EnsureGates(gates, keys, caps)
       IN  \/ AcquireNow(r, keys, g)
           \/ AcquireRejected(keys, g, policy)
           \/ AcquireQueued(r, keys, g, policy)

Acquire(r) ==
    \E keys \in KeySets, caps \in CapChoices, policy \in Policies :
       AcquireMany(r, keys, caps, policy)

-----------------------------------------------------------------------------
(* The end of a wait or of a hold.                                         *)

\* Faulty: whoever gives up lets nobody in that it stood before.
GiveUpUndrained(r) ==
    /\ phase[r] = "waiting"
    /\ gates' = RemoveRequest(gates, r, keysOf[r])
    /\ queued' = Only(queued, Req \ {r})
    /\ phase' = [phase EXCEPT ![r] = "idle"]
    /\ keysOf' = [keysOf EXCEPT ![r] = {}]
    /\ UNCHANGED <<stray, history>>

\* The request's timer fires or its signal aborts: it leaves every queue and
\* the queues are drained.
GiveUp(r) ==
    /\ phase[r] = "waiting"
    /\ LET s == DrainQueues(RemoveRequest(gates, r, keysOf[r]),
                            Only(queued, Req \ {r}), keysOf)
       IN  /\ gates' = s.gates
           /\ queued' = s.queued
           /\ phase' = Admit([phase EXCEPT ![r] = "idle"], s.admitted)
    /\ keysOf' = [keysOf EXCEPT ![r] = {}]
    /\ UNCHANGED <<stray, history>>

TimeOut(r) == GiveUp(r)
Abort(r) == GiveUp(r)

\* Faulty: the slot of a gate with waiters is kept for the first of them, and
\* counted again when drainQueues admits it.
HandOver(g, keys) ==
    LET Give(gate) == [gate EXCEPT !.running =
                           IF @ > 0 /\ gate.queue = <<>> THEN @ - 1 ELSE @]
    IN  OnGates(g, keys, Give)

GiveSlots(g, keys) ==
    LET Give(gate) == [gate EXCEPT !.running = IF @ > 0 THEN @ - 1 ELSE @]
    IN  OnGates(g, keys, Give)

\* Faulty: the queues are drained before the slots are given back.
ReleaseAfterDrain(r) ==
    /\ phase[r] = "holding"
    /\ LET s == DrainQueues(gates, queued, keysOf)
       IN  /\ gates' = ScheduleCleanup(GiveSlots(s.gates, keysOf[r]), keysOf[r])
           /\ queued' = s.queued
           /\ phase' = Admit([phase EXCEPT ![r] = "idle"], s.admitted)
    /\ keysOf' = [keysOf EXCEPT ![r] = {}]
    /\ forgotten' = [forgotten EXCEPT ![r] = {}]
    /\ robbed' = robbed \cup (forgotten[r] \cap DOMAIN gates)
    /\ UNCHANGED stray

\* The release function, first call.  A gate may be gone, or be a new one
\* under the same key, if the gates were reset meanwhile.
Release(r) ==
    /\ phase[r] = "holding"
    /\ LET s == DrainQueues(GiveSlots(gates, keysOf[r]), queued, keysOf)
       IN  /\ gates' = ScheduleCleanup(s.gates, keysOf[r])
           /\ queued' = s.queued
           /\ phase' = Admit([phase EXCEPT ![r] = "idle"], s.admitted)
    /\ keysOf' = [keysOf EXCEPT ![r] = {}]
    /\ forgotten' = [forgotten EXCEPT ![r] = {}]
    /\ robbed' = robbed \cup (forgotten[r] \cap DOMAIN gates)
    /\ UNCHANGED stray

-----------------------------------------------------------------------------
(* Cleanup timers, and the blocking of a gate after an upstream 429.       *)

CleanupFires(k) ==
    /\ k \in DOMAIN gates /\ gates[k].cleanup
    /\ gates' = CleanupIfIdle([gates EXCEPT ![k].cleanup = FALSE], {k})
    /\ UNCHANGED <<queued, phase, keysOf, stray, history>>

StrayCleanupFires(k) ==
    /\ k \in stray
    /\ stray' = stray \ {k}
    /\ gates' = CleanupIfIdle(gates, {k})
    /\ UNCHANGED <<queued, phase, keysOf, history>>

MarkBlocked(k) ==
    /\ k \in Blockable
    /\ LET cap == IF k \in DOMAIN gates THEN gates[k].maxConcurrency ELSE 1
           g == EnsureGates(gates, {k}, [x \in {k} |-> cap])
       IN  gates' = [g EXCEPT ![k].blocked = TRUE]
    /\ UNCHANGED <<queued, phase, keysOf, stray, history>>

\* The clock reaches blockedUntil.  isBlocked notices when it is next asked:
\* no timer is armed, so nobody drains the queues at this moment.
BlockLapses(k) ==
    /\ k \in DOMAIN gates /\ gates[k].blocked
    /\ gates' = [gates EXCEPT ![k].blocked = FALSE]
    /\ UNCHANGED <<queued, phase, keysOf, stray, history>>

Unblock(k) ==
    /\ k \in DOMAIN gates
    /\ LET s == DrainQueues([gates EXCEPT ![k].blocked = FALSE], queued, keysOf)
       IN  /\ gates' = CleanupIfIdle(s.gates, {k})
           /\ queued' = s.queued
           /\ phase' = Admit(phase, s.admitted)
    /\ UNCHANGED <<keysOf, stray, history>>

-----------------------------------------------------------------------------
(* Operator resets: every waiter of the gate is rejected, the gate is      *)
(* dropped, and whoever holds a slot of it keeps its release function.     *)

Forget(keys) ==
    [r \in Req |-> IF phase[r] = "holding" THEN forgotten[r] \cup (keys \cap keysOf[r])
                   ELSE forgotten[r]]

\* The reset key's own cleanup callback, if removeRequest armed one, outlives
\* the gate.
Reset(k) ==
    /\ k \in DOMAIN gates
    /\ LET out == ToSet(gates[k].queue)
           g == RemoveRequests([gates EXCEPT ![k].cleanup = FALSE], out,
                               UNION {keysOf[r] : r \in out})
           left == [x \in DOMAIN g \ {k} |-> g[x]]
           s == DrainQueues(left, Only(queued, Req \ out), keysOf)
       IN  /\ gates' = s.gates
           /\ queued' = s.queued
           /\ phase' = Admit([r \in Req |-> IF r \in out THEN "idle" ELSE phase[r]],
                             s.admitted)
           /\ keysOf' = [r \in Req |-> IF r \in out THEN {} ELSE keysOf[r]]
           /\ stray' = IF g[k].cleanup THEN stray \cup {k} ELSE stray
           /\ forgotten' = Forget({k})
           /\ UNCHANGED robbed

ResetAll ==
    /\ gates' = <<>>
    /\ queued' = <<>>
    /\ phase' = [r \in Req |-> IF phase[r] = "waiting" THEN "idle" ELSE phase[r]]
    /\ keysOf' = [r \in Req |-> IF phase[r] = "waiting" THEN {} ELSE keysOf[r]]
    /\ forgotten' = Forget(Key)
    /\ UNCHANGED <<stray, robbed>>

-----------------------------------------------------------------------------
Steady ==
    \/ \E r \in Req : Acquire(r) \/ TimeOut(r) \/ Abort(r) \/ Release(r)
    \/ \E k \in Key : CleanupFires(k) \/ MarkBlocked(k) \/ BlockLapses(k) \/ Unblock(k)

Operator == ResetAll \/ \E k \in Key : Reset(k) \/ StrayCleanupFires(k)

Next == Steady \/ Operator

Spec == Init /\ [][Next]_vars

-----------------------------------------------------------------------------
(* Properties.                                                             *)

\* Every variable has its type; a gate's limit is positive.
TypeOK ==
    /\ DOMAIN gates \subseteq Key
    /\ \A k \in DOMAIN gates :
         gates[k] \in [running : Nat, maxConcurrency : Nat \ {0},
                       queue : Seq(Req), blocked : BOOLEAN, cleanup : BOOLEAN]
    /\ queued \in Seq(Req)
    /\ phase \in [Req -> {"idle", "waiting", "holding"}]
    /\ keysOf \in [Req -> SUBSET Key]
    /\ stray \subseteq Key
    /\ forgotten \in [Req -> SUBSET Key]
    /\ robbed \subseteq Key

Waiting == {r \in Req : phase[r] = "waiting"}

\* The requests admitted through k's present gate that have not released.
Holders(k) == {r \in Req : phase[r] = "holding" /\ k \in keysOf[r] \ forgotten[r]}

\* The queues of the gates are the same line seen from different doors: each
\* is the insertion order of queuedRequests restricted to the requests that
\* need the gate, and every waiter stands in all of its queues.  So the oldest
\* waiter is first at each of its gates and no two waiters block one another.
QueuesAgree ==
    /\ TypeOK
    /\ ToSet(queued) = Waiting
    /\ Len(queued) = Cardinality(Waiting)
    /\ \A r \in Waiting : keysOf[r] \subseteq DOMAIN gates
    /\ \A k \in DOMAIN gates :
         gates[k].queue = Only(queued, {r \in Req : k \in keysOf[r]})

\* A gate counts exactly the requests that hold it, and a gate somebody holds
\* is never swept away by a cleanup timer; only the release function of a
\* request whose gate was reset may put the count wrong.
SlotsAccounted ==
    /\ \A k \in DOMAIN gates \ robbed : gates[k].running = Cardinality(Holders(k))
    /\ \A r \in Req : phase[r] = "holding" =>
          keysOf[r] \ (forgotten[r] \cup robbed) \subseteq DOMAIN gates

\* Whatever operators reset, a gate never counts a slot nobody holds: a slot
\* cannot leak and leave the gate saturated.
NoLeakedSlot ==
    \A k \in DOMAIN gates : gates[k].running <= Cardinality(Holders(k))

\* A request is admitted only when no gate it passes is blocked and every one
\* has room for it, counted over the requests that really hold the gate;
\* again, but for the release functions of requests whose gate was reset.
AdmitsWithRoom ==
    [][\A r \in Req : phase[r] # "holding" /\ phase'[r] = "holding" =>
          \A k \in keysOf'[r] :
             /\ ~gates'[k].blocked
             /\ k \in robbed' \/ Cardinality(Holders(k)') <= gates'[k].maxConcurrency]_vars

\* No request is admitted past an older one that still waits for one of the
\* same gates.
NoOvertaking ==
    [][\A r, q \in Req :
          /\ phase[r] # "holding" /\ phase'[r] = "holding"
          /\ phase[q] = "waiting" /\ phase'[q] = "waiting"
          /\ keysOf[q] \cap keysOf'[r] # {}
          => Precedes(queued, r, q)]_vars

\* When no turn is running, no waiter could be admitted: each turn that frees
\* a slot or unlinks a waiter drains the queues before it returns.
NoAdmissibleWaiter ==
    \A r \in Waiting : ~CanAcquire(gates, r, keysOf[r])

\* A block that lapses and a limit that a rejected caller raises drain no queue
\* and may leave waiters that could be admitted.  They are stranded no longer
\* than until the next request anywhere queues, gives up or releases: that
\* turn admits everybody who can be, however many they are.
LapseRepaired ==
    [][(\E r \in Req : /\ phase'[r] # phase[r]
                       /\ phase[r] = "idle" => phase'[r] = "waiting")
       => NoAdmissibleWaiter']_vars

\* A gate nobody uses or waits for has a cleanup timer that will drop it.
IdleGatesReclaimed ==
    \A k \in DOMAIN gates : Idle(gates[k]) => gates[k].cleanup
=============================================================================
