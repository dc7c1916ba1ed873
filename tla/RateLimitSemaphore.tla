------------------------- MODULE RateLimitSemaphore -------------------------
(***************************************************************************)
(* The per-model gate of open-sse/services/rateLimitSemaphore.ts, which    *)
(* the round-robin combo, the quota-share strategy and the NVIDIA executor *)
(* use: a bounded number of requests at a time, a FIFO queue, and a        *)
(* cooldown after an upstream rate limit.  Gates of different models share *)
(* nothing, so the module has one model.                                   *)
(*                                                                         *)
(* A gate is deleted when nobody uses it and made anew on the next call,   *)
(* but the callbacks of its cooldown timers keep the old object: gate      *)
(* objects have identities.                                                *)
(***************************************************************************)
EXTENDS Integers, FiniteSets, Sequences, SequencesExt

CONSTANTS
    Req,        \* callers
    MaxChoices, \* the maxConcurrency values a call may carry
    QueueSizes, \* the maxQueueSize values a call may carry; Unlimited = omitted
    Cooldowns,  \* the cooldownMs values markRateLimited may carry
    Slack,      \* the buffer added to the cooldown timer (50 ms)
    MaxTime,    \* bound of the clock
    MaxGates    \* bound of the gate objects known at a time: the live one and
                \* the dead ones that a cooldown callback still refers to

Unlimited == -1

ASSUME RateLimitAssumption ==
    /\ IsFiniteSet(Req)
    /\ MaxChoices \subseteq Nat \ {0}
    /\ QueueSizes \subseteq Nat \cup {Unlimited}
    /\ Cooldowns \subseteq Nat \ {0}
    /\ Slack \in Nat /\ MaxTime \in Nat \ {0} /\ MaxGates \in Nat

VARIABLES
    gate,    \* the model's gate: [id, running, max, queue]; id 0 when absent
    until,   \* rateLimitedUntil of each gate object (0 = null)
    timers,  \* pending cooldown callbacks: [gate, at]
    phase,   \* "idle", "waiting" or "holding"
    now,     \* the clock, from 1
    cooling  \* history: when the last cooldown asked of the present gate ends

vars == <<gate, until, timers, phase, now, cooling>>

GateIds == 1..MaxGates

NoGate == [id |-> 0, running |-> 0, max |-> 1, queue |-> <<>>]

Init ==
    /\ gate = NoGate
    /\ until = [id \in GateIds |-> 0]
    /\ timers = {}
    /\ phase = [r \in Req |-> "idle"]
    /\ now = 1
    /\ cooling = 0

\* Nothing refers to the gate object any more: its identity can be used again.
Unused(id) == id # gate.id /\ \A t \in timers : t.gate # id

FreshIds == {id \in GateIds : Unused(id) /\ \A i \in GateIds : Unused(i) => id <= i}

\* getGate: the present gate or a new one, with the caller's limit.
GetGate(m) == IF gate.id # 0 THEN {[gate EXCEPT !.max = m]}
              ELSE {[NoGate EXCEPT !.id = id, !.max = m] : id \in FreshIds}

\* A gate just made has no cooldown.
Untils(g) == IF gate.id = 0 THEN [until EXCEPT ![g.id] = 0] ELSE until

RateLimited(u, id) == u[id] > now

\* isRateLimited clears a cooldown that has passed, on every gate it looks at.
Noticed(u, id) == IF u[id] <= now THEN [u EXCEPT ![id] = 0] ELSE u

\* Faulty: waiters do not keep a gate.
InUseByHolder(g) == g.running > 0

InUse(g) == g.running > 0 \/ g.queue # <<>>

Kept(g) == IF InUse(g) THEN g ELSE NoGate

Serve(g, n) == [g EXCEPT !.running = @ + n, !.queue = SubSeq(@, n + 1, Len(@))]

\* Faulty: whoever leaves is replaced, cooldown or not.
DrainInCooldown(g, u) ==
    LET room == g.max - g.running
        n == IF room <= 0 THEN 0 ELSE IF Len(g.queue) < room THEN Len(g.queue) ELSE room
    IN  gate' = Kept(Serve(g, n)) /\ until' = u

\* drainQueue: admit from the head of the queue while there is room, and drop
\* the gate if it is not in use.
Drain(g, u) ==
    LET looks == g.queue # <<>> /\ g.running < g.max
        room == g.max - g.running
        n == IF ~looks \/ RateLimited(u, g.id) THEN 0
             ELSE IF Len(g.queue) < room THEN Len(g.queue) ELSE room
    IN  /\ gate' = Kept(Serve(g, n))
        /\ until' = IF looks THEN Noticed(u, g.id) ELSE u

\* A gate that is dropped takes its cooldown with it.
CoolingKept == cooling' = IF gate'.id = 0 THEN 0 ELSE cooling

Admitted(ph) ==
    [r \in Req |-> IF r \in ToSet(gate.queue) \ ToSet(gate'.queue) /\ ph[r] = "waiting"
                   THEN "holding" ELSE ph[r]]

-----------------------------------------------------------------------------
\* Fast path: there is room and no cooldown; the queue is not looked at.
AcquireNow(r, g) ==
    /\ g.running < g.max
    /\ ~RateLimited(Untils(g), g.id)
    /\ gate' = [g EXCEPT !.running = @ + 1]
    /\ until' = Noticed(Untils(g), g.id)
    /\ phase' = [phase EXCEPT ![r] = "holding"]

QueueFull(g, size) == size # Unlimited /\ Len(g.queue) >= size

\* SEMAPHORE_QUEUE_FULL or the end of the queue.
AcquireLater(r, g, size) ==
    /\ ~(g.running < g.max /\ ~RateLimited(Untils(g), g.id))
    /\ until' = Untils(g)
    /\ IF QueueFull(g, size)
       THEN gate' = Kept(g) /\ UNCHANGED phase
       ELSE /\ gate' = [g EXCEPT !.queue = Append(@, r)]
            /\ phase' = [phase EXCEPT ![r] = "waiting"]

Acquire(r) ==
    /\ phase[r] = "idle"
    /\ \E m \in MaxChoices, size \in QueueSizes : \E g \in GetGate(m) :
         AcquireNow(r, g) \/ AcquireLater(r, g, size)
    /\ CoolingKept /\ UNCHANGED <<timers, now>>

\* The queue timer: the waiter leaves, nothing is drained.
TimeOut(r) ==
    /\ phase[r] = "waiting"
    /\ \E i \in DOMAIN gate.queue :
         gate.queue[i] = r /\ gate' = [gate EXCEPT !.queue = RemoveAt(@, i)]
    /\ phase' = [phase EXCEPT ![r] = "idle"]
    /\ UNCHANGED <<until, timers, now, cooling>>

\* Faulty: the queue is drained only when the slot of a full gate comes free.
ReleaseOfFull(r) ==
    /\ phase[r] = "holding"
    /\ LET g == [gate EXCEPT !.running = @ - 1]
       IN  IF InUse(g) /\ gate.running = gate.max THEN Drain(g, until)
           ELSE gate' = Kept(g) /\ UNCHANGED until
    /\ phase' = Admitted([phase EXCEPT ![r] = "idle"])
    /\ CoolingKept /\ UNCHANGED <<timers, now>>

Release(r) ==
    /\ phase[r] = "holding"
    /\ LET g == [gate EXCEPT !.running = @ - 1]
       IN  IF gate.running > 0 /\ InUse(g) THEN Drain(g, until)
           ELSE /\ gate' = IF gate.running > 0 THEN NoGate ELSE gate
                /\ UNCHANGED until
    /\ phase' = Admitted([phase EXCEPT ![r] = "idle"])
    /\ CoolingKept /\ UNCHANGED <<timers, now>>

-----------------------------------------------------------------------------
\* Faulty: a second cooldown arms no timer while the first one's is pending.
MarkWithOneTimer(r) ==
    /\ phase[r] = "holding"
    /\ \E ms \in Cooldowns :
         /\ now + ms + Slack <= MaxTime
         /\ until' = [until EXCEPT ![gate.id] = now + ms]
         /\ timers' = IF \E t \in timers : t.gate = gate.id THEN timers
                      ELSE timers \cup {[gate |-> gate.id, at |-> now + ms + Slack]}
         /\ cooling' = now + ms
    /\ UNCHANGED <<gate, phase, now>>

\* A holder reports a rate limit (the combo does so before it releases); the
\* gate keeps its limit.  Only cooldowns that the clock can run out are asked for.
MarkRateLimited(r) ==
    /\ phase[r] = "holding"
    /\ \E ms \in Cooldowns :
         /\ now + ms + Slack <= MaxTime
         /\ until' = [until EXCEPT ![gate.id] = now + ms]
         /\ timers' = timers \cup {[gate |-> gate.id, at |-> now + ms + Slack]}
         /\ cooling' = now + ms
    /\ UNCHANGED <<gate, phase, now>>

\* The cooldown callback of a gate object, live or dead; it drains the live one.
CooldownTimer(t) ==
    /\ t \in timers /\ t.at <= now
    /\ timers' = timers \ {t}
    /\ IF until[t.gate] # 0 /\ now >= until[t.gate] /\ gate.id # 0
       THEN /\ Drain(gate, [until EXCEPT ![t.gate] = 0])
            /\ phase' = Admitted(phase)
       ELSE /\ until' = IF now >= until[t.gate] THEN [until EXCEPT ![t.gate] = 0] ELSE until
            /\ UNCHANGED <<gate, phase>>
    /\ CoolingKept /\ UNCHANGED now

Tick ==
    /\ now < MaxTime
    /\ now' = now + 1
    /\ UNCHANGED <<gate, until, timers, phase, cooling>>

Next ==
    \/ \E r \in Req : Acquire(r) \/ TimeOut(r) \/ Release(r) \/ MarkRateLimited(r)
    \/ \E t \in timers : CooldownTimer(t)
    \/ Tick

Spec == Init /\ [][Next]_vars

\* Holders release (the callers do so in a finally block), the clock runs and
\* due callbacks are run by the event loop.
FairSpec ==
    /\ Spec
    /\ \A r \in Req : WF_vars(Release(r))
    /\ WF_vars(Tick)
    /\ WF_vars(\E t \in timers : CooldownTimer(t))

-----------------------------------------------------------------------------
(* Properties.                                                             *)

TypeOK ==
    /\ gate.id # 0 => gate.max \in MaxChoices
    /\ gate \in [id : {0} \cup GateIds, running : Nat, max : Nat \ {0}, queue : Seq(Req)]
    /\ until \in [GateIds -> Nat]
    /\ timers \subseteq [gate : GateIds, at : Nat]
    /\ phase \in [Req -> {"idle", "waiting", "holding"}]
    /\ now \in 1..MaxTime /\ cooling \in Nat

Holders == {r \in Req : phase[r] = "holding"}
Waiting == {r \in Req : phase[r] = "waiting"}

\* Through deletions and re-creations of the gate its books stay right: the
\* gate counts its holders, its queue is the waiters, and a gate is dropped
\* only when it has neither.
BooksMatch ==
    /\ TypeOK
    /\ gate.running = Cardinality(Holders)
    /\ ToSet(gate.queue) = Waiting /\ Len(gate.queue) = Cardinality(Waiting)
    /\ gate.id = 0 => Holders = {} /\ Waiting = {}

Admits(r) == phase[r] # "holding" /\ phase'[r] = "holding"

\* A request is let in, at once or from the queue, only while the holders, it
\* included, are within the limit that holds then, and after the last cooldown
\* asked of the gate it enters, whichever timers are still pending.
AdmitsWhenFree ==
    [][(\E r \in Req : Admits(r)) => Cardinality(Holders') <= gate'.max /\ now >= cooling]_vars

\* Waiters are served in the order in which they came.
WaitersInOrder ==
    [][\A i, j \in DOMAIN gate.queue :
          i < j /\ Admits(gate.queue[j]) => phase'[gate.queue[i]] # "waiting"]_vars

\* Whoever waits has somebody to wait for: a holder, whose release drains the
\* queue, or the timer of the last cooldown, which has still to lift it.  Other
\* timers and newcomers that lift it earlier leave nobody behind.
WaiterAwaited ==
    gate.queue # <<>> =>
        \/ gate.running > 0
        \/ until[gate.id] # 0 /\ \E t \in timers : t.gate = gate.id /\ t.at >= until[gate.id]

\* From some time on the callers agree on the limit of a gate in use and report
\* no rate limit.
LimitSettles == <>[][gate.id # 0 /\ gate'.id # 0 => gate'.max = gate.max]_vars

CooldownsEnd == <>[][timers' \subseteq timers]_vars

\* Then a waiter is served or gives up, though no time-out is fair here,
\* whatever newcomers come: they find the queue drained before them.
WaiterServed ==
    LimitSettles /\ CooldownsEnd => \A r \in Req : phase[r] = "waiting" ~> phase[r] # "waiting"
=============================================================================
