--------------------------- MODULE RateLimitProofs ---------------------------
(***************************************************************************)
(* Machine-checked proofs about RateLimitSemaphore, for any callers and    *)
(* limits: the books of the gate are right through its deletions, nobody   *)
(* is let in over the limit or into a cooldown, the queue is served in its *)
(* order, and who waits has somebody to wait for.                          *)
(***************************************************************************)
EXTENDS RateLimitSemaphore, SequenceTheorems, FunctionTheorems, FiniteSetTheorems, TLAPS

Phase == {"idle", "waiting", "holding"}

GateType == [id : {0} \cup GateIds, running : Nat, max : Nat \ {0}, queue : Seq(Req)]

\* The gate's part of the types.
GateTyped == gate \in GateType /\ (gate.id # 0 => gate.max \in MaxChoices)

\* Nobody stands in the queue twice, and it is the waiters.
EachOnce == \A i, j \in 1..Len(gate.queue) : gate.queue[i] = gate.queue[j] => i = j

QueueIsWaiting ==
    \A r \in Req : phase[r] = "waiting" <=> \E i \in 1..Len(gate.queue) : gate.queue[i] = r

CountsHolders == gate.running = Cardinality(Holders)

EmptyIfGone == gate.id = 0 => gate.running = 0 /\ gate.queue = <<>>

Books == GateTyped /\ EachOnce /\ QueueIsWaiting /\ CountsHolders /\ EmptyIfGone

\* The cooldown asked of the present gate is in force or over.
CooldownKnown ==
    /\ gate.id = 0 => cooling = 0
    /\ gate.id # 0 => until[gate.id] = cooling \/ cooling <= now

Clocked ==
    /\ until \in [GateIds -> Nat] /\ timers \subseteq [gate : GateIds, at : Nat]
    /\ now \in 1..MaxTime /\ cooling \in Nat

PhaseTyped == phase \in [Req -> Phase]

RateInv == Books /\ PhaseTyped /\ Clocked /\ CooldownKnown

\* What a step may do to callers: let them in within the limit and out of any
\* cooldown, and from the queue only those at its head.
LetsInWhenFree ==
    (\E r \in Req : Admits(r)) => gate'.running <= gate'.max /\ now >= cooling

InOrder ==
    \A i, j \in 1..Len(gate.queue) :
       i < j /\ Admits(gate.queue[j]) => phase'[gate.queue[i]] # "waiting"

StepOK == RateInv' /\ LetsInWhenFree /\ InOrder

-----------------------------------------------------------------------------
(* The queue.                                                              *)

\* The first n of a queue in which nobody stands twice are n.
LEMMA FirstOfQueue ==
    ASSUME NEW q \in Seq(Req), NEW n \in 0..Len(q),
           \A i, j \in 1..Len(q) : q[i] = q[j] => i = j
    PROVE  LET first == {q[i] : i \in 1..n}
           IN  IsFiniteSet(first) /\ Cardinality(first) = n
<1> DEFINE first == {q[i] : i \in 1..n}
           f == [i \in 1..n |-> q[i]]
<1>0. n \in Nat /\ 1..n \subseteq 1..Len(q)
  BY LenProperties
<1>1. f \in Bijection(1..n, first)
  <2>1. f \in [1..n -> first] /\ \A i, j \in 1..n : f[i] = f[j] => i = j
    BY <1>0
  <2>2. \A x \in first : \E i \in 1..n : f[i] = x
    OBVIOUS
  <2> QED BY <2>1, <2>2, Fun_IsBij
<1>2. ExistsBijection(1..n, first)
  BY <1>1 DEF ExistsBijection
<1>3. IsFiniteSet(1..n) /\ Cardinality(1..n) = n
  BY <1>0, FS_Interval
<1> QED BY <1>2, <1>3, FS_Bijection

\* The holders are finitely many, as the callers are.
LEMMA FiniteReq == \A T \in SUBSET Req : IsFiniteSet(T) /\ Cardinality(T) \in Nat
BY RateLimitAssumption, FS_Subset, FS_CardinalityType

\* Serving the first n of the queue keeps the books of a gate whose holders are
\* those of ph, and lets in exactly these n.
LEMMA Served ==
    ASSUME Books, NEW g \in GateType, NEW n \in 0..Len(gate.queue), NEW ph \in [Req -> Phase],
           g.queue = gate.queue, g.id # 0, g.max \in MaxChoices,
           \A r \in Req : ph[r] = "waiting" <=> phase[r] = "waiting",
           g.running = Cardinality({r \in Req : ph[r] = "holding"}),
           gate' = Kept(Serve(g, n)), phase' = Admitted(ph)
    PROVE  /\ Books'
           /\ phase' \in [Req -> Phase]
           /\ \A i \in 1..Len(gate.queue) :
                 phase'[gate.queue[i]] = IF i <= n THEN "holding" ELSE "waiting"
           /\ \A r \in Req : ph[r] # "waiting" => phase'[r] = ph[r]
           /\ n > 0 => gate'.id = g.id /\ gate'.max = g.max /\ gate'.running = g.running + n
<1> DEFINE q == gate.queue
           rest == SubSeq(q, n + 1, Len(q))
<1>0. q \in Seq(Req) /\ Len(q) \in Nat /\ n \in Nat /\ n <= Len(q)
  BY LenProperties DEF Books, GateTyped, GateType
<1>1. /\ rest \in Seq(Req) /\ Len(rest) = Len(q) - n
      /\ \A i \in 1..Len(rest) : rest[i] = q[n + i]
  <2>1. \A i \in (n + 1)..Len(q) : q[i] \in Req
    BY <1>0, ElementOfSeq
  <2> QED BY <1>0, <2>1, SubSeqProperties
<1>2. Serve(g, n) = [g EXCEPT !.running = g.running + n, !.queue = rest]
  BY DEF Serve
<1>3. g.running \in Nat /\ g.running + n \in Nat
  BY <1>0 DEF GateType
<1>4. /\ gate' \in GateType /\ gate'.queue = rest /\ gate'.running = g.running + n
      /\ gate'.id = 0 => gate'.running = 0 /\ rest = <<>>
      /\ gate'.id # 0 => gate'.id = g.id /\ gate'.max = g.max
      /\ n > 0 => gate'.id # 0
  <2>1. CASE InUse(Serve(g, n))
    BY <1>0, <1>1, <1>2, <1>3, <2>1 DEF Kept, GateType
  <2>2. CASE ~InUse(Serve(g, n))
    <3>1. rest = <<>> /\ g.running + n = 0 /\ gate' = NoGate
      BY <1>0, <1>2, <1>3, <2>2 DEF Kept, InUse, GateType
    <3> QED BY <1>0, <1>3, <3>1, EmptySeq DEF NoGate, GateType
  <2> QED BY <2>1, <2>2
<1>4a. gate'.queue = rest
  BY <1>4
<1>5. EachOnce'
  <2> HIDE DEF rest
  <2> SUFFICES ASSUME NEW i \in 1..Len(rest), NEW j \in 1..Len(rest), rest[i] = rest[j]
               PROVE  i = j
    BY <1>4a DEF EachOnce
  <2>1. n + i \in 1..Len(q) /\ n + j \in 1..Len(q)
    BY <1>0, <1>1
  <2>2. q[n + i] = q[n + j]
    BY <1>1
  <2>3. n + i = n + j
    BY <2>1, <2>2 DEF Books, EachOnce
  <2> QED BY <1>0, <2>3
<1>6. ToSet(q) \ ToSet(gate'.queue) = {q[i] : i \in 1..n}
  <2>1. ToSet(q) = {q[i] : i \in 1..Len(q)} /\ ToSet(rest) = {rest[i] : i \in 1..Len(rest)}
    BY <1>0, <1>1, LenProperties DEF ToSet
  <2>2. ASSUME NEW i \in 1..Len(q) PROVE q[i] \in ToSet(rest) <=> i > n
    <3>1. ASSUME i > n PROVE q[i] \in ToSet(rest)
      <4>1. i - n \in 1..Len(rest) /\ rest[i - n] = q[i]
        BY <1>0, <1>1, <3>1
      <4> QED BY <2>1, <4>1
    <3>2. ASSUME NEW j \in 1..Len(rest), q[i] = rest[j] PROVE i > n
      <4>1. n + j \in 1..Len(q) /\ q[i] = q[n + j]
        BY <1>0, <1>1, <3>2
      <4>2. i = n + j
        BY <4>1 DEF Books, EachOnce
      <4> QED BY <1>0, <4>2
    <3> QED BY <2>1, <3>1, <3>2
  <2>3. \A i \in 1..n : i \in 1..Len(q) /\ q[i] \in ToSet(q) /\ q[i] \notin ToSet(rest)
    BY <1>0, <2>1, <2>2
  <2>4. ASSUME NEW x \in ToSet(q), x \notin ToSet(rest) PROVE x \in {q[i] : i \in 1..n}
    <3>1. PICK i \in 1..Len(q) : q[i] = x
      BY <2>1
    <3>2. i \in 1..n
      BY <1>0, <2>2, <2>4, <3>1
    <3> QED BY <3>1, <3>2
  <2>5. gate'.queue = rest
    BY <1>4
  <2> QED BY <2>3, <2>4, <2>5
<1>7. /\ phase' \in [Req -> Phase]
      /\ \A i \in 1..Len(q) : phase'[q[i]] = IF i <= n THEN "holding" ELSE "waiting"
      /\ \A r \in Req : ph[r] # "waiting" => phase'[r] = ph[r]
  <2>1. \A r \in Req : phase'[r] = IF r \in {q[i] : i \in 1..n} /\ ph[r] = "waiting"
                                   THEN "holding" ELSE ph[r]
    BY <1>6 DEF Admitted
  <2>2. phase' \in [Req -> Phase]
    BY <1>6 DEF Admitted, Phase
  <2>3. \A i \in 1..Len(q) : /\ q[i] \in Req /\ ph[q[i]] = "waiting"
                             /\ q[i] \in {q[j] : j \in 1..n} <=> i <= n
    BY <1>0, ElementOfSeq DEF Books, QueueIsWaiting, EachOnce
  <2> QED BY <2>1, <2>2, <2>3
<1>8. QueueIsWaiting'
  <2> HIDE DEF rest
  <2> SUFFICES ASSUME NEW r \in Req
               PROVE  phase'[r] = "waiting" <=> \E i \in 1..Len(rest) : rest[i] = r
    BY <1>4a DEF QueueIsWaiting
  <2>1. ASSUME phase'[r] = "waiting" PROVE \E i \in 1..Len(rest) : rest[i] = r
    <3>1. ph[r] = "waiting"
      BY <1>7, <2>1 
    <3>2. PICK i \in 1..Len(q) : q[i] = r
      BY <3>1 DEF Books, QueueIsWaiting
    <3>3. i > n
      BY <1>0, <1>7, <2>1, <3>2
    <3>4. i - n \in 1..Len(rest) /\ n + (i - n) = i
      BY <1>0, <1>1, <3>3
    <3>5. rest[i - n] = r
      BY <1>1, <3>2, <3>4
    <3> QED BY <3>4, <3>5
  <2>2. ASSUME NEW i \in 1..Len(rest), rest[i] = r PROVE phase'[r] = "waiting"
    <3>1. n + i \in 1..Len(q) /\ q[n + i] = r /\ ~(n + i <= n)
      BY <1>0, <1>1, <2>2
    <3> QED BY <1>7, <3>1
  <2> QED BY <2>1, <2>2
<1>9. CountsHolders'
  <2> DEFINE old == {r \in Req : ph[r] = "holding"}
             first == {q[i] : i \in 1..n}
  <2>1. IsFiniteSet(first) /\ Cardinality(first) = n
    BY <1>0, FirstOfQueue DEF Books, EachOnce
  <2>2. IsFiniteSet(old) /\ Cardinality(old) = g.running
    BY FiniteReq
  <2>3. \A i \in 1..n : q[i] \in Req /\ ph[q[i]] = "waiting"
    BY <1>0, ElementOfSeq DEF Books, QueueIsWaiting
  <2>4. old \cap first = {}
    BY <2>3
  <2>5. Holders' = old \cup first
    BY <1>6, <2>3 DEF Holders, Admitted, Phase
  <2>6. Cardinality(old \cup first) = g.running + n
    <3>1. Cardinality(old \cup first) = Cardinality(old) + Cardinality(first) - Cardinality({})
      <4> HIDE DEF old, first
      <4> QED BY <2>1, <2>2, <2>4, FS_Union
    <3> QED BY <1>0, <1>3, <2>1, <2>2, <3>1, FS_EmptySet
  <2> QED BY <1>4, <2>5, <2>6 DEF CountsHolders
<1>10. GateTyped' /\ EmptyIfGone'
  BY <1>4 DEF GateTyped, EmptyIfGone
<1> QED BY <1>4, <1>5, <1>7, <1>8, <1>9, <1>10 DEF Books
-----------------------------------------------------------------------------
(* The operations.                                                         *)

\* What the steps use of the queue.
LEMMA QueueTyped ==
    Books => /\ gate.queue \in Seq(Req) /\ Len(gate.queue) \in Nat
             /\ gate.running \in Nat /\ gate.max \in Nat \ {0}
             /\ DOMAIN gate.queue = 1..Len(gate.queue)
             /\ \A i \in 1..Len(gate.queue) : /\ gate.queue[i] \in Req
                                             /\ phase[gate.queue[i]] = "waiting"
BY LenProperties, ElementOfSeq DEF Books, GateTyped, GateType, QueueIsWaiting

\* A holder's gate is there and counts it.
LEMMA HolderCounted ==
    ASSUME Books, PhaseTyped, NEW r \in Req, phase[r] = "holding"
    PROVE  /\ gate.running \in Nat \ {0} /\ gate.id \in GateIds
           /\ gate.running - 1 = Cardinality(Holders \ {r})
<1>1. Holders \in SUBSET Req /\ r \in Holders
  BY DEF Holders
<1>2. Cardinality(Holders \ {r}) = gate.running - 1 /\ Cardinality(Holders \ {r}) \in Nat
  BY <1>1, FiniteReq, FS_RemoveElement DEF Books, CountsHolders
<1>3. gate.running \in Nat \ {0}
  BY <1>2, QueueTyped
<1> QED BY <1>2, <1>3 DEF Books, EmptyIfGone, GateTyped, GateType

\* drainQueue keeps everything, and lets in only from the head of the queue,
\* within the limit and out of the cooldown of the gate drained.
LEMMA Drained ==
    ASSUME RateInv, NEW g \in GateType, NEW u \in [GateIds -> Nat], NEW ph \in [Req -> Phase],
           g.queue = gate.queue, g.id # 0, g.id = gate.id, g.max = gate.max,
           \A r \in Req : ph[r] = phase[r] \/ (phase[r] = "holding" /\ ph[r] = "idle"),
           g.running = Cardinality({r \in Req : ph[r] = "holding"}),
           u[g.id] = until[g.id] \/ (u[g.id] = 0 /\ until[g.id] <= now),
           Drain(g, u), phase' = Admitted(ph), CoolingKept,
           timers' \subseteq timers, now' = now
    PROVE  StepOK
<1> USE DEF RateInv
<1> DEFINE q == gate.queue
           looks == g.queue # <<>> /\ g.running < g.max
           room == g.max - g.running
           n == IF ~looks \/ RateLimited(u, g.id) THEN 0
                ELSE IF Len(g.queue) < room THEN Len(g.queue) ELSE room
<1>1. /\ g.running \in Nat /\ g.max \in Nat \ {0} /\ g.id \in GateIds /\ g.max \in MaxChoices
      /\ q \in Seq(Req) /\ Len(q) \in Nat
  BY QueueTyped DEF GateType, Books, GateTyped
<1>2. n \in 0..Len(q) /\ (n > 0 => g.running + n <= g.max /\ u[g.id] <= now)
  BY <1>1 DEF RateLimited, Clocked
<1>3. \A r \in Req : ph[r] = "waiting" <=> phase[r] = "waiting"
  OBVIOUS
<1>4. gate' = Kept(Serve(g, n)) /\ until' = IF looks THEN Noticed(u, g.id) ELSE u
  BY DEF Drain
<1> HIDE DEF n
<1>5. /\ Books' /\ phase' \in [Req -> Phase]
      /\ \A i \in 1..Len(q) : phase'[q[i]] = IF i <= n THEN "holding" ELSE "waiting"
      /\ \A r \in Req : ph[r] # "waiting" => phase'[r] = ph[r]
      /\ n > 0 => gate'.id = g.id /\ gate'.max = g.max /\ gate'.running = g.running + n
  BY <1>1, <1>2, <1>3, <1>4, Served
<1>6. u[g.id] = 0 \/ u[g.id] <= now => cooling <= now
  BY <1>1 DEF CooldownKnown, Clocked
<1>7. gate'.id = g.id \/ gate'.id = 0
  BY <1>4 DEF Kept, Serve, NoGate, GateType
<1>8. Clocked' /\ CooldownKnown'
  <2>1. until' \in [GateIds -> Nat] /\ (until'[g.id] = u[g.id] \/ (u[g.id] <= now))
    BY <1>1, <1>4 DEF Noticed
  <2>2. cooling' = IF gate'.id = 0 THEN 0 ELSE cooling
    BY DEF CoolingKept
  <2>3. Clocked'
    BY <2>1, <2>2 DEF Clocked
  <2>4. CooldownKnown'
    BY <1>1, <1>6, <1>7, <2>1, <2>2 DEF CooldownKnown, Clocked
  <2> QED BY <2>3, <2>4
<1>9. LetsInWhenFree
  <2> SUFFICES ASSUME NEW r \in Req, Admits(r)
               PROVE  gate'.running <= gate'.max /\ now >= cooling
    BY DEF LetsInWhenFree
  <2>1. ph[r] = "waiting" /\ phase[r] = "waiting"
    BY <1>5 DEF Admits, PhaseTyped, Phase
  <2>2. PICK i \in 1..Len(q) : q[i] = r
    BY <2>1 DEF Books, QueueIsWaiting
  <2>3. n > 0
    BY <1>1, <1>2, <1>5, <2>2 DEF Admits
  <2> QED BY <1>1, <1>2, <1>5, <1>6, <2>3 DEF Clocked
<1>10. InOrder
  BY <1>1, <1>2, <1>5 DEF InOrder, Admits
<1> QED BY <1>5, <1>8, <1>9, <1>10 DEF StepOK, PhaseTyped

LEMMA ReleaseStep == ASSUME RateInv, NEW r \in Req, Release(r) PROVE StepOK
<1> USE DEF RateInv
<1> DEFINE g == [gate EXCEPT !.running = @ - 1]
           ph == [phase EXCEPT ![r] = "idle"]
<1>1. phase[r] = "holding" /\ phase' = Admitted(ph) /\ CoolingKept /\ timers' = timers /\ now' = now
  BY DEF Release
<1>2. gate.running \in Nat \ {0} /\ gate.id \in GateIds /\ gate.running - 1 = Cardinality(Holders \ {r})
  BY <1>1, HolderCounted
<1>3. /\ g \in GateType /\ g.queue = gate.queue /\ g.id # 0 /\ g.id = gate.id /\ g.max = gate.max
      /\ g.running = gate.running - 1
  BY <1>2 DEF GateIds, GateType, Books, GateTyped
<1>4. ph \in [Req -> Phase] /\ {s \in Req : ph[s] = "holding"} = Holders \ {r}
  BY DEF PhaseTyped, Phase, Holders
<1>5. CASE InUse(g)
  <2>1. Drain(g, until)
    BY <1>2, <1>5 DEF Release
  <2> HIDE DEF g, ph
  <2>2. \A s \in Req : ph[s] = phase[s] \/ (phase[s] = "holding" /\ ph[s] = "idle")
    BY <1>1 DEF PhaseTyped, ph
  <2>3. g.running = Cardinality({s \in Req : ph[s] = "holding"})
    BY <1>2, <1>3, <1>4
  <2> QED BY <1>1, <1>3, <1>4, <2>1, <2>2, <2>3, Drained DEF Clocked
<1>6. CASE ~InUse(g)
  <2>1. gate' = NoGate /\ until' = until /\ gate.queue = <<>> /\ Cardinality(Holders \ {r}) = 0
    BY <1>2, <1>3, <1>6 DEF Release, InUse
  <2>2. Holders \ {r} = {}
    BY <2>1, FiniteReq, FS_EmptySet DEF Holders
  <2>3. phase' = ph
    BY <1>1, <1>4, <2>1 DEF Admitted, NoGate, ToSet
  <2>4. \A s \in Req : phase'[s] = "idle"
    <3>1. \A s \in Req : phase[s] # "waiting"
      BY <2>1, EmptySeq DEF Books, QueueIsWaiting
    <3> QED BY <1>4, <2>2, <2>3, <3>1 DEF Holders, PhaseTyped, Phase
  <2>5. gate' \in GateType /\ gate'.queue = <<>> /\ gate'.running = 0 /\ gate'.id = 0 /\ Len(<<>>) = 0
    BY <2>1, EmptySeq DEF NoGate, GateType
  <2>6. Holders' = {}
    BY <2>4 DEF Holders
  <2>7. Books'
    BY <2>4, <2>5, <2>6, FS_EmptySet
       DEF Books, GateTyped, EachOnce, QueueIsWaiting, CountsHolders, EmptyIfGone
  <2>8. Clocked' /\ CooldownKnown'
    BY <1>1, <2>1, <2>5 DEF Clocked, CooldownKnown, CoolingKept
  <2> QED BY <1>4, <2>1, <2>3, <2>4, <2>7, <2>8, EmptySeq
          DEF StepOK, PhaseTyped, LetsInWhenFree, InOrder, Admits
<1> QED BY <1>5, <1>6

LEMMA CooldownTimerStep == ASSUME RateInv, NEW t \in timers, CooldownTimer(t) PROVE StepOK
<1> USE DEF RateInv
<1> DEFINE u == [until EXCEPT ![t.gate] = 0]
<1>1. timers' \subseteq timers /\ now' = now /\ CoolingKept /\ t.gate \in GateIds /\ u \in [GateIds -> Nat]
  BY DEF CooldownTimer, Clocked
<1>2. CASE until[t.gate] # 0 /\ now >= until[t.gate] /\ gate.id # 0
  <2>1. Drain(gate, u) /\ phase' = Admitted(phase)
    BY <1>2 DEF CooldownTimer
  <2>2. u[gate.id] = until[gate.id] \/ (u[gate.id] = 0 /\ until[gate.id] <= now)
    BY <1>1, <1>2 DEF Clocked, Books, GateTyped, GateType
  <2>3. gate \in GateType /\ gate.running = Cardinality({r \in Req : phase[r] = "holding"})
    BY DEF Books, GateTyped, CountsHolders, Holders
  <2> HIDE DEF u
  <2> QED BY <1>1, <1>2, <2>1, <2>2, <2>3, Drained DEF PhaseTyped
<1>3. CASE ~(until[t.gate] # 0 /\ now >= until[t.gate] /\ gate.id # 0)
  <2>1. /\ gate' = gate /\ phase' = phase
        /\ until' = IF now >= until[t.gate] THEN u ELSE until
    BY <1>3 DEF CooldownTimer
  <2>2. Books' /\ PhaseTyped'
    BY <2>1 DEF Books, PhaseTyped, GateTyped, EachOnce, QueueIsWaiting, CountsHolders, EmptyIfGone, Holders
  <2>3. Clocked' /\ CooldownKnown'
    BY <1>1, <2>1 DEF Clocked, CooldownKnown, CoolingKept, Books, GateTyped, GateType
  <2> QED BY <2>1, <2>2, <2>3 DEF StepOK, LetsInWhenFree, InOrder, Admits
<1> QED BY <1>2, <1>3

LEMMA MarkStep == ASSUME RateInv, NEW r \in Req, MarkRateLimited(r) PROVE StepOK
<1> USE DEF RateInv
<1>1. /\ phase[r] = "holding" /\ gate' = gate /\ phase' = phase /\ now' = now
  BY DEF MarkRateLimited
<1>2. PICK ms \in Cooldowns :
        /\ until' = [until EXCEPT ![gate.id] = now + ms]
        /\ timers' = timers \cup {[gate |-> gate.id, at |-> now + ms + Slack]}
        /\ cooling' = now + ms
  BY DEF MarkRateLimited
<1>3. /\ gate.id \in GateIds /\ gate.id # 0
      /\ now \in Nat /\ now + ms \in Nat /\ now + ms + Slack \in Nat
  <2>1. gate.id \in GateIds
    BY <1>1, HolderCounted
  <2>2. gate.id # 0
    BY <2>1 DEF GateIds
  <2>3. ms \in Nat /\ now \in Nat
    BY RateLimitAssumption DEF Clocked
  <2> QED BY <2>1, <2>2, <2>3, RateLimitAssumption
<1>4. Books' /\ PhaseTyped'
  BY <1>1 DEF Books, PhaseTyped, GateTyped, EachOnce, QueueIsWaiting, CountsHolders, EmptyIfGone, Holders
<1>5. Clocked' /\ CooldownKnown'
  BY <1>1, <1>2, <1>3 DEF Clocked, CooldownKnown
<1> QED BY <1>1, <1>4, <1>5 DEF StepOK, LetsInWhenFree, InOrder, Admits

LEMMA TickStep == ASSUME RateInv, Tick PROVE StepOK
<1>1. Books' /\ PhaseTyped'
  BY DEF RateInv, Tick, Books, PhaseTyped, GateTyped, EachOnce, QueueIsWaiting, CountsHolders,
         EmptyIfGone, Holders
<1>2. Clocked' /\ CooldownKnown'
  BY RateLimitAssumption DEF RateInv, Tick, Clocked, CooldownKnown
<1> QED BY <1>1, <1>2 DEF StepOK, RateInv, LetsInWhenFree, InOrder, Admits, Tick

\* RemoveAt leaves out one element and keeps the order of the others.
LEMMA OneLess ==
    ASSUME NEW q \in Seq(Req), NEW i \in 1..Len(q)
    PROVE  /\ RemoveAt(q, i) \in Seq(Req) /\ Len(RemoveAt(q, i)) = Len(q) - 1
           /\ \A j \in 1..Len(q) - 1 : RemoveAt(q, i)[j] = IF j < i THEN q[j] ELSE q[j + 1]
<1> DEFINE a == SubSeq(q, 1, i - 1)
           b == SubSeq(q, i + 1, Len(q))
<1>1. Len(q) \in Nat /\ \A j \in 1..Len(q) : q[j] \in Req
  BY LenProperties, ElementOfSeq
<1>2. a \in Seq(Req) /\ Len(a) = i - 1 /\ \A j \in 1..i - 1 : a[j] = q[j]
  BY <1>1, SubSeqProperties
<1>3. b \in Seq(Req) /\ Len(b) = Len(q) - i /\ \A j \in 1..Len(q) - i : b[j] = q[i + j]
  BY <1>1, SubSeqProperties
<1>4. RemoveAt(q, i) = a \o b
  BY DEF RemoveAt
<1> HIDE DEF a, b
<1>5. /\ a \o b \in Seq(Req) /\ Len(a \o b) = Len(q) - 1
      /\ \A j \in 1..Len(q) - 1 : (a \o b)[j] = IF j <= i - 1 THEN a[j] ELSE b[j - (i - 1)]
  <2>1. Len(a) + Len(b) = Len(q) - 1
    BY <1>1, <1>2, <1>3
  <2>2. /\ a \o b \in Seq(Req) /\ Len(a \o b) = Len(a) + Len(b)
        /\ \A j \in 1..Len(a) + Len(b) :
              (a \o b)[j] = IF j <= Len(a) THEN a[j] ELSE b[j - Len(a)]
    BY <1>2, <1>3, ConcatProperties
  <2> QED BY <1>2, <2>1, <2>2
<1>6. ASSUME NEW j \in 1..Len(q) - 1 PROVE (a \o b)[j] = IF j < i THEN q[j] ELSE q[j + 1]
  <2>1. CASE j < i
    BY <1>2, <1>5, <2>1
  <2>2. CASE ~(j < i)
    <3>1. j - (i - 1) \in 1..Len(q) - i /\ i + (j - (i - 1)) = j + 1
      BY <1>1, <2>2
    <3>2. b[j - (i - 1)] = q[j + 1]
      BY <1>3, <3>1
    <3> QED BY <1>5, <2>2, <3>2
  <2> QED BY <2>1, <2>2
<1> QED BY <1>4, <1>5, <1>6

LEMMA TimeOutStep == ASSUME RateInv, NEW r \in Req, TimeOut(r) PROVE StepOK
<1> USE DEF RateInv
<1> DEFINE q == gate.queue
<1>1. /\ phase[r] = "waiting" /\ phase' = [phase EXCEPT ![r] = "idle"]
      /\ until' = until /\ timers' = timers /\ now' = now /\ cooling' = cooling
  BY DEF TimeOut
<1>2. PICK i \in 1..Len(q) : q[i] = r /\ gate' = [gate EXCEPT !.queue = RemoveAt(q, i)]
  BY QueueTyped DEF TimeOut
<1>3. q \in Seq(Req) /\ Len(q) \in Nat
  BY QueueTyped
<1> DEFINE rest == RemoveAt(q, i)
<1>4. /\ rest \in Seq(Req) /\ Len(rest) = Len(q) - 1
      /\ \A j \in 1..Len(q) - 1 : rest[j] = IF j < i THEN q[j] ELSE q[j + 1]
  BY <1>3, OneLess
<1> HIDE DEF rest
<1>5. /\ gate' \in GateType /\ gate'.queue = rest /\ gate'.running = gate.running
      /\ gate'.id = gate.id /\ gate'.max = gate.max
  BY <1>2, <1>4 DEF Books, GateTyped, GateType, rest
<1>6. EachOnce'
  <2> SUFFICES ASSUME NEW j \in 1..Len(rest), NEW k \in 1..Len(rest), rest[j] = rest[k]
               PROVE  j = k
    BY <1>5 DEF EachOnce
  <2> DEFINE old(x) == IF x < i THEN x ELSE x + 1
  <2>1. old(j) \in 1..Len(q) /\ old(k) \in 1..Len(q)
    BY <1>3, <1>4
  <2>2. q[old(j)] = q[old(k)]
    BY <1>4
  <2>3. old(j) = old(k)
    BY <2>1, <2>2 DEF Books, EachOnce
  <2> QED BY <1>3, <1>4, <2>3
<1>7. QueueIsWaiting'
  <2>0. gate'.queue = rest
    BY <1>5
  <2> SUFFICES ASSUME NEW s \in Req
               PROVE  phase'[s] = "waiting" <=> \E j \in 1..Len(rest) : rest[j] = s
    BY <2>0 DEF QueueIsWaiting
  <2>1. ASSUME phase'[s] = "waiting" PROVE \E j \in 1..Len(rest) : rest[j] = s
    <3>1. s # r /\ phase[s] = "waiting"
      BY <1>1, <2>1 DEF PhaseTyped
    <3>2. PICK k \in 1..Len(q) : q[k] = s
      BY <3>1 DEF Books, QueueIsWaiting
    <3>3. k # i
      BY <1>2, <3>1, <3>2
    <3>4. CASE k < i
      <4>1. k \in 1..Len(rest) /\ rest[k] = s
        BY <1>3, <1>4, <3>2, <3>4
      <4> QED BY <4>1
    <3>5. CASE k > i
      <4>1. k - 1 \in 1..Len(rest) /\ ~(k - 1 < i) /\ (k - 1) + 1 = k
        BY <1>3, <1>4, <3>5
      <4>2. rest[k - 1] = s
        BY <1>4, <3>2, <4>1
      <4> QED BY <4>1, <4>2
    <3> QED BY <1>3, <3>3, <3>4, <3>5
  <2>2. ASSUME NEW j \in 1..Len(rest), rest[j] = s PROVE phase'[s] = "waiting"
    <3>1. PICK k \in 1..Len(q) : k # i /\ q[k] = s
      <4>1. CASE j < i
        BY <1>3, <1>4, <2>2, <4>1
      <4>2. CASE ~(j < i)
        <5>1. j + 1 \in 1..Len(q) /\ j + 1 # i /\ q[j + 1] = s
          BY <1>3, <1>4, <2>2, <4>2
        <5> QED BY <5>1
      <4> QED BY <4>1, <4>2
    <3>2. phase[s] = "waiting" /\ s # r
      BY <1>2, <3>1 DEF Books, QueueIsWaiting, EachOnce
    <3> QED BY <1>1, <3>2 DEF PhaseTyped
  <2> QED BY <2>1, <2>2
<1>8. Holders' = Holders
  BY <1>1 DEF Holders, PhaseTyped
<1>9. EmptyIfGone'
  <2>1. gate.id # 0
    BY <1>2, <1>3, EmptySeq DEF Books, EmptyIfGone
  <2> QED BY <1>5, <2>1 DEF EmptyIfGone
<1>10. Books' /\ PhaseTyped'
  BY <1>1, <1>5, <1>6, <1>7, <1>8, <1>9 DEF Books, GateTyped, CountsHolders, PhaseTyped, Phase
<1>11. Clocked' /\ CooldownKnown'
  BY <1>1, <1>5 DEF Clocked, CooldownKnown
<1>12. \A s \in Req : ~Admits(s)
  BY <1>1 DEF Admits, PhaseTyped
<1>13. InOrder
  BY <1>3, <1>12, QueueTyped DEF InOrder
<1> QED BY <1>10, <1>11, <1>12, <1>13 DEF StepOK, LetsInWhenFree

\* The gate an acquire works on is the present one or an empty new one.
LEMMA GateGot ==
    ASSUME RateInv, NEW m \in MaxChoices, NEW g \in GetGate(m)
    PROVE  /\ g \in GateType /\ g.id # 0 /\ g.id \in GateIds /\ g.max = m
           /\ g.queue = gate.queue /\ g.running = gate.running
           /\ gate.id # 0 => g.id = gate.id
           /\ Untils(g) \in [GateIds -> Nat]
           /\ Untils(g)[g.id] <= now => cooling <= now
           /\ gate.id # 0 => Untils(g) = until
           /\ gate.id = 0 => cooling = 0
<1> USE DEF RateInv
<1>1. m \in Nat \ {0}
  BY RateLimitAssumption
<1>2. CASE gate.id # 0
  <2>1. g = [gate EXCEPT !.max = m] /\ Untils(g) = until
    BY <1>2 DEF GetGate, Untils
  <2>2. gate \in GateType /\ gate.id \in GateIds
    BY <1>2 DEF Books, GateTyped, GateType
  <2> QED BY <1>1, <1>2, <2>1, <2>2 DEF GateType, CooldownKnown, Clocked
<1>3. CASE gate.id = 0
  <2>1. PICK id \in FreshIds : g = [NoGate EXCEPT !.id = id, !.max = m]
    BY <1>3 DEF GetGate
  <2>2. id \in GateIds /\ id # 0
    BY DEF FreshIds, GateIds
  <2>3. /\ g \in GateType /\ g.id = id /\ g.max = m /\ g.queue = <<>> /\ g.running = 0
    BY <1>1, <2>1, <2>2, EmptySeq DEF NoGate, GateType
  <2>4. Untils(g) = [until EXCEPT ![id] = 0]
    BY <1>3, <2>3 DEF Untils
  <2> QED BY <1>3, <2>2, <2>3, <2>4 DEF Books, EmptyIfGone, CooldownKnown, Clocked
<1> QED BY <1>2, <1>3

LEMMA AcquireNowStep ==
    ASSUME RateInv, NEW r \in Req, phase[r] = "idle", NEW m \in MaxChoices, NEW g \in GetGate(m),
           AcquireNow(r, g), CoolingKept, timers' = timers, now' = now
    PROVE  StepOK
<1> USE DEF RateInv
<1>1. /\ g \in GateType /\ g.id # 0 /\ g.id \in GateIds /\ g.max = m
      /\ g.queue = gate.queue /\ g.running = gate.running
      /\ gate.id # 0 => g.id = gate.id
      /\ Untils(g) \in [GateIds -> Nat]
      /\ Untils(g)[g.id] <= now => cooling <= now
  BY GateGot
<1>2. /\ g.running < g.max /\ Untils(g)[g.id] <= now
      /\ gate' = [g EXCEPT !.running = g.running + 1]
      /\ until' = Noticed(Untils(g), g.id) /\ phase' = [phase EXCEPT ![r] = "holding"]
  BY <1>1 DEF AcquireNow, RateLimited, Clocked
<1>3. /\ gate' \in GateType /\ gate'.id = g.id /\ gate'.max = m /\ gate'.queue = gate.queue
      /\ gate'.running = gate.running + 1 /\ gate'.running <= gate'.max
  BY <1>1, <1>2 DEF GateType
<1>4. Holders' = Holders \cup {r} /\ r \notin Holders
  BY <1>2 DEF Holders, PhaseTyped, Phase
<1>5. CountsHolders'
  <2>1. IsFiniteSet(Holders)
    BY FiniteReq DEF Holders
  <2>2. Cardinality(Holders') = Cardinality(Holders) + 1
    BY <1>4, <2>1, FS_AddElement
  <2> QED BY <1>3, <2>2 DEF CountsHolders, Books
<1>6. EachOnce'
  BY <1>3 DEF Books, EachOnce
<1>7. \A s \in Req : phase'[s] = "waiting" <=> phase[s] = "waiting"
  BY <1>2 DEF PhaseTyped
<1>8. QueueIsWaiting'
  BY <1>3, <1>7 DEF Books, QueueIsWaiting
<1>9. Books' /\ PhaseTyped'
  BY <1>1, <1>2, <1>3, <1>5, <1>6, <1>8 DEF Books, GateTyped, EmptyIfGone, PhaseTyped, Phase
<1>10. Clocked' /\ CooldownKnown'
  BY <1>1, <1>2, <1>3 DEF Clocked, CooldownKnown, CoolingKept, Noticed
<1>11. LetsInWhenFree
  BY <1>1, <1>2, <1>3 DEF LetsInWhenFree, Clocked
<1>12. InOrder
  BY <1>2, QueueTyped DEF InOrder, Admits, PhaseTyped
<1> QED BY <1>9, <1>10, <1>11, <1>12 DEF StepOK

LEMMA AcquireLaterStep ==
    ASSUME RateInv, NEW r \in Req, phase[r] = "idle", NEW m \in MaxChoices, NEW g \in GetGate(m),
           NEW size, AcquireLater(r, g, size), CoolingKept, timers' = timers, now' = now
    PROVE  StepOK
<1> USE DEF RateInv
<1> DEFINE q == gate.queue
<1>1. /\ g \in GateType /\ g.id # 0 /\ g.id \in GateIds /\ g.max = m
      /\ g.queue = q /\ g.running = gate.running
      /\ gate.id # 0 => g.id = gate.id /\ Untils(g) = until
      /\ Untils(g) \in [GateIds -> Nat]
      /\ gate.id = 0 => cooling = 0
  BY GateGot
<1>2. until' = Untils(g)
  BY DEF AcquireLater
<1>3. q \in Seq(Req) /\ Len(q) \in Nat
  BY QueueTyped
<1>4. \A s \in Req : ~Admits(s)
  BY DEF AcquireLater, Admits, PhaseTyped
<1>5. InOrder /\ LetsInWhenFree
  BY <1>4, QueueTyped DEF InOrder, LetsInWhenFree
<1>6. gate'.id = g.id \/ gate'.id = 0
  BY <1>1 DEF AcquireLater, Kept, NoGate, GateType
<1>7. Clocked' /\ CooldownKnown'
  BY <1>1, <1>2, <1>6 DEF Clocked, CooldownKnown, CoolingKept
<1>8. CASE QueueFull(g, size)
  <2>1. gate' = Kept(g) /\ phase' = phase
    BY <1>8 DEF AcquireLater
  <2>2. /\ gate' \in GateType /\ gate'.queue = q /\ gate'.running = gate.running
        /\ gate'.id # 0 => gate'.max = m
        /\ gate'.id = 0 => gate'.running = 0 /\ gate'.queue = <<>>
    <3>1. CASE InUse(g)
      BY <1>1, <2>1, <3>1 DEF Kept
    <3>2. CASE ~InUse(g)
      <4>1. gate' = NoGate /\ q = <<>> /\ gate.running = 0
        BY <1>1, <2>1, <3>2 DEF Kept, InUse, GateType
      <4> QED BY <4>1, EmptySeq DEF NoGate, GateType
    <3> QED BY <3>1, <3>2
  <2>3. Books' /\ PhaseTyped'
    BY <2>1, <2>2 DEF Books, GateTyped, EachOnce, QueueIsWaiting, CountsHolders, EmptyIfGone,
                      Holders, PhaseTyped
  <2> QED BY <1>5, <1>7, <2>3 DEF StepOK
<1>9. CASE ~QueueFull(g, size)
  <2> DEFINE more == Append(q, r)
  <2>1. gate' = [g EXCEPT !.queue = more] /\ phase' = [phase EXCEPT ![r] = "waiting"]
    BY <1>1, <1>9 DEF AcquireLater
  <2>2. /\ more \in Seq(Req) /\ Len(more) = Len(q) + 1
        /\ \A i \in 1..Len(q) : more[i] = q[i]
        /\ more[Len(q) + 1] = r
    BY <1>3, AppendProperties
  <2> HIDE DEF more
  <2>3. /\ gate' \in GateType /\ gate'.queue = more /\ gate'.running = gate.running
        /\ gate'.id = g.id /\ gate'.max = m
    BY <1>1, <2>1, <2>2 DEF GateType
  <2>4. \A i \in 1..Len(q) : q[i] # r
    BY QueueTyped
  <2>5. EachOnce'
    <3> SUFFICES ASSUME NEW i \in 1..Len(more), NEW j \in 1..Len(more), more[i] = more[j]
                 PROVE  i = j
      BY <2>3 DEF EachOnce
    <3>1. CASE i \in 1..Len(q) /\ j \in 1..Len(q)
      BY <2>2, <3>1 DEF Books, EachOnce
    <3>2. CASE i = Len(q) + 1 \/ j = Len(q) + 1
      BY <1>3, <2>2, <2>4, <3>2
    <3> QED BY <1>3, <2>2, <3>1, <3>2
  <2>6. QueueIsWaiting'
    <3>1. gate'.queue = more
      BY <2>3
    <3> SUFFICES ASSUME NEW s \in Req
                 PROVE  phase'[s] = "waiting" <=> \E i \in 1..Len(more) : more[i] = s
      BY <3>1 DEF QueueIsWaiting
    <3>2. CASE s = r
      <4>1. Len(q) + 1 \in 1..Len(more)
        BY <1>3, <2>2
      <4> QED BY <2>1, <2>2, <3>2, <4>1 DEF PhaseTyped
    <3>3. CASE s # r
      <4>1. phase'[s] = "waiting" <=> \E i \in 1..Len(q) : q[i] = s
        BY <2>1, <3>3 DEF Books, QueueIsWaiting, PhaseTyped
      <4>2. \A i \in 1..Len(more) : i \in 1..Len(q) \/ more[i] = r
        BY <1>3, <2>2
      <4>3. \A i \in 1..Len(q) : i \in 1..Len(more) /\ more[i] = q[i]
        BY <1>3, <2>2
      <4> QED BY <3>3, <4>1, <4>2, <4>3
    <3> QED BY <3>2, <3>3
  <2>7. Holders' = Holders
    BY <2>1 DEF Holders, PhaseTyped
  <2>8. Books' /\ PhaseTyped'
    BY <1>1, <2>1, <2>3, <2>5, <2>6, <2>7
       DEF Books, GateTyped, CountsHolders, EmptyIfGone, PhaseTyped, Phase
  <2> QED BY <1>5, <1>7, <2>8 DEF StepOK
<1> QED BY <1>8, <1>9

-----------------------------------------------------------------------------
(* The theorems.                                                           *)

LEMMA InitOK == Init => RateInv
<1> SUFFICES ASSUME Init PROVE RateInv
  OBVIOUS
<1>1. Holders = {}
  BY DEF Init, Holders
<1>2. Books
  BY <1>1, EmptySeq, FS_EmptySet
     DEF Init, NoGate, Books, GateTyped, GateType, EachOnce, QueueIsWaiting, CountsHolders, EmptyIfGone
<1> QED BY <1>2, RateLimitAssumption
        DEF Init, NoGate, RateInv, PhaseTyped, Phase, Clocked, CooldownKnown

LEMMA StepLemma == RateInv /\ [Next]_vars => StepOK
<1> SUFFICES ASSUME RateInv, [Next]_vars PROVE StepOK
  OBVIOUS
<1>1. ASSUME NEW r \in Req, Acquire(r) PROVE StepOK
  <2>1. PICK m \in MaxChoices, size \in QueueSizes :
          \E g \in GetGate(m) : AcquireNow(r, g) \/ AcquireLater(r, g, size)
    BY <1>1 DEF Acquire
  <2>2. PICK g \in GetGate(m) : AcquireNow(r, g) \/ AcquireLater(r, g, size)
    BY <2>1
  <2>3. phase[r] = "idle" /\ CoolingKept /\ timers' = timers /\ now' = now
    BY <1>1 DEF Acquire
  <2> QED BY <2>2, <2>3, AcquireNowStep, AcquireLaterStep
<1>2. CASE UNCHANGED vars
  <2>1. RateInv'
    BY <1>2 DEF vars, RateInv, Books, PhaseTyped, Clocked, CooldownKnown, GateTyped, EachOnce,
                QueueIsWaiting, CountsHolders, EmptyIfGone, Holders
  <2> QED BY <1>2, <2>1 DEF vars, StepOK, LetsInWhenFree, InOrder, Admits
<1> QED BY <1>1, <1>2, TimeOutStep, ReleaseStep, MarkStep, CooldownTimerStep, TickStep DEF Next

THEOREM RateInvariant == Spec => []RateInv
<1>1. RateInv /\ [Next]_vars => RateInv'
  BY StepLemma DEF StepOK
<1> QED BY InitOK, <1>1, PTL DEF Spec

\* The books of the gate are right whatever is acquired, released, timed out or
\* put in a cooldown, and a gate is dropped only when nobody uses it.
THEOREM BooksOfGate == Spec => []BooksMatch
<1>1. RateInv => BooksMatch
  <2> SUFFICES ASSUME RateInv PROVE BooksMatch
    OBVIOUS
  <2> DEFINE q == gate.queue
  <2>1. q \in Seq(Req) /\ Len(q) \in Nat /\ DOMAIN q = 1..Len(q)
    BY QueueTyped DEF RateInv
  <2>2. ToSet(q) = {q[i] : i \in 1..Len(q)}
    BY <2>1 DEF ToSet
  <2>3. Waiting = {q[i] : i \in 1..Len(q)}
    BY QueueTyped DEF RateInv, Books, QueueIsWaiting, Waiting
  <2>4. Cardinality(Waiting) = Len(q)
    <3>1. Len(q) \in 0..Len(q) /\ \A i, j \in 1..Len(q) : q[i] = q[j] => i = j
      BY <2>1 DEF RateInv, Books, EachOnce
    <3> HIDE DEF q
    <3>2. Cardinality({q[i] : i \in 1..Len(q)}) = Len(q)
      BY <2>1, <3>1, FirstOfQueue
    <3> QED BY <2>3, <3>2
  <2>5. gate.id = 0 => Holders = {} /\ Waiting = {}
    <3>1. gate.id = 0 => Cardinality(Holders) = 0 /\ Len(q) = 0
      BY EmptySeq DEF RateInv, Books, EmptyIfGone, CountsHolders
    <3>2. IsFiniteSet(Holders) /\ IsFiniteSet(Waiting)
      BY FiniteReq DEF Holders, Waiting
    <3> QED BY <2>4, <3>1, <3>2, FS_EmptySet
  <2>6. TypeOK
    BY DEF RateInv, Books, GateTyped, GateType, PhaseTyped, Phase, Clocked, TypeOK
  <2> QED BY <2>2, <2>3, <2>4, <2>5, <2>6 DEF BooksMatch, RateInv, Books, CountsHolders
<1> QED BY RateInvariant, <1>1, PTL

\* Nobody is let in over the limit, nor before the last cooldown asked of the
\* gate it enters has passed.
THEOREM LetInWhenFree == Spec => AdmitsWhenFree
<1>1. RateInv /\ [Next]_vars =>
        [(\E r \in Req : Admits(r)) => Cardinality(Holders') <= gate'.max /\ now >= cooling]_vars
  BY StepLemma DEF StepOK, LetsInWhenFree, RateInv, Books, CountsHolders
<1> QED BY RateInvariant, <1>1, PTL DEF Spec, AdmitsWhenFree

\* Who came first is served first, or has left.
THEOREM ServedInOrder == Spec => WaitersInOrder
<1>1. RateInv /\ [Next]_vars =>
        [\A i, j \in DOMAIN gate.queue :
            i < j /\ Admits(gate.queue[j]) => phase'[gate.queue[i]] # "waiting"]_vars
  BY StepLemma, QueueTyped DEF StepOK, InOrder, RateInv
<1> QED BY RateInvariant, <1>1, PTL DEF Spec, WaitersInOrder

-----------------------------------------------------------------------------
(***************************************************************************)
(* Whom a waiter waits for.  The timer of the last cooldown is not due     *)
(* before that has passed, and as long as the cooldown is not lifted the   *)
(* timer is still to come; it is what an idle gate with a queue has left,  *)
(* for whoever lifts the cooldown earlier comes to hold a slot.            *)
(***************************************************************************)

Lifted(id) == until[id] # 0 => \E t \in timers : t.gate = id /\ t.at >= until[id]

AwaitInv ==
    /\ gate.id # 0 => Lifted(gate.id)
    /\ gate.queue # <<>> /\ gate.running = 0 => until[gate.id] # 0

\* A drain leaves the gate idle only with an empty queue or in a cooldown.
LEMMA DrainAwaits ==
    ASSUME RateInv, NEW g \in GateType, NEW u \in [GateIds -> Nat],
           g.queue = gate.queue, g.id # 0, g.id \in GateIds, Drain(g, u),
           u[g.id] # 0 => \E t \in timers' : t.gate = g.id /\ t.at >= u[g.id]
    PROVE  AwaitInv'
<1> DEFINE q == gate.queue
           looks == g.queue # <<>> /\ g.running < g.max
           room == g.max - g.running
           n == IF ~looks \/ RateLimited(u, g.id) THEN 0
                ELSE IF Len(g.queue) < room THEN Len(g.queue) ELSE room
<1>1. /\ q \in Seq(Req) /\ Len(q) \in Nat /\ g.running \in Nat /\ g.max \in Nat \ {0}
      /\ q = <<>> <=> Len(q) = 0
  BY QueueTyped, EmptySeq DEF RateInv, GateType
<1>2. /\ n \in 0..Len(q)
      /\ gate' = Kept(Serve(g, n)) /\ until' = IF looks THEN Noticed(u, g.id) ELSE u
  BY <1>1 DEF Drain
<1>3. looks /\ ~RateLimited(u, g.id) => n > 0
  BY <1>1
<1> HIDE DEF n
<1>4. /\ gate'.id # 0 => gate'.id = g.id
      /\ gate'.queue # <<>> => /\ gate'.id = g.id /\ gate'.running = g.running + n
                               /\ gate'.queue = SubSeq(q, n + 1, Len(q))
  <2>1. Serve(g, n) = [g EXCEPT !.running = g.running + n, !.queue = SubSeq(q, n + 1, Len(q))]
    BY DEF Serve
  <2>2. \/ gate' = NoGate
        \/ /\ gate'.id = g.id /\ gate'.running = g.running + n
           /\ gate'.queue = SubSeq(q, n + 1, Len(q))
    BY <1>2, <2>1 DEF Kept, GateType
  <2> QED BY <2>2 DEF NoGate
<1>5. gate'.id # 0 => Lifted(gate.id)'
  BY <1>2, <1>4 DEF Lifted, Noticed
<1>6. ASSUME gate'.queue # <<>>, gate'.running = 0 PROVE until'[gate'.id] # 0
  <2>1. n = 0 /\ g.running = 0 /\ gate'.id = g.id
    BY <1>1, <1>2, <1>4, <1>6
  <2>2. q # <<>>
    <3> SUFFICES ASSUME q = <<>> PROVE FALSE
      OBVIOUS
    <3>1. Len(q) = 0 /\ n + 1 = 1
      BY <1>1, <2>1
    <3>2. SubSeq(q, 1, 0) = <<>>
      BY <1>1, SubSeqProperties, EmptySeq
    <3>3. SubSeq(q, n + 1, Len(q)) = <<>>
      BY <3>1, <3>2
    <3> QED BY <1>4, <1>6, <3>3
  <2>3. looks
    BY <1>1, <2>1, <2>2
  <2>4. u[g.id] > now
    BY <1>3, <2>1, <2>3 DEF RateLimited
  <2>5. now \in Nat /\ now > 0
    BY DEF RateInv, Clocked
  <2> QED BY <1>2, <2>1, <2>4, <2>5 DEF Noticed
<1> QED BY <1>5, <1>6 DEF AwaitInv

LEMMA AcquireAwaits ==
    ASSUME RateInv, AwaitInv, NEW r \in Req, Acquire(r)
    PROVE  AwaitInv'
<1> USE DEF RateInv
<1>1. PICK m \in MaxChoices, size \in QueueSizes :
        \E g \in GetGate(m) : AcquireNow(r, g) \/ AcquireLater(r, g, size)
  BY DEF Acquire
<1>2. PICK g \in GetGate(m) : AcquireNow(r, g) \/ AcquireLater(r, g, size)
  BY <1>1
<1>3. /\ g \in GateType /\ g.id # 0 /\ g.id \in GateIds /\ g.max = m /\ m \in Nat \ {0}
      /\ g.queue = gate.queue /\ g.running = gate.running /\ g.running \in Nat
      /\ gate.id # 0 => g.id = gate.id /\ Untils(g) = until
      /\ Untils(g) \in [GateIds -> Nat]
      /\ timers' = timers /\ now \in Nat
  BY <1>2, GateGot, RateLimitAssumption DEF Acquire, GateType, Clocked
<1>4. Untils(g)[g.id] # 0 => \E t \in timers : t.gate = g.id /\ t.at >= Untils(g)[g.id]
  <2>1. CASE gate.id # 0
    BY <1>3, <2>1 DEF AwaitInv, Lifted
  <2>2. CASE gate.id = 0
    <3>1. Untils(g) = [until EXCEPT ![g.id] = 0] /\ until \in [GateIds -> Nat]
      BY <2>2 DEF Untils, Clocked
    <3> QED BY <1>3, <3>1
  <2> QED BY <2>1, <2>2
<1>5. CASE AcquireNow(r, g)
  <2>1. gate' = [g EXCEPT !.running = g.running + 1] /\ until' = Noticed(Untils(g), g.id)
    BY <1>5 DEF AcquireNow
  <2>2. gate'.id = g.id /\ gate'.running = g.running + 1
    BY <1>3, <2>1 DEF GateType
  <2> QED BY <1>3, <1>4, <2>1, <2>2 DEF AwaitInv, Lifted, Noticed
<1>6. CASE AcquireLater(r, g, size)
  <2>1. until' = Untils(g) /\ ~(g.running < g.max /\ ~RateLimited(Untils(g), g.id))
    BY <1>6 DEF AcquireLater
  <2>2. g.running = 0 => Untils(g)[g.id] # 0
    BY <1>3, <2>1 DEF RateLimited
  <2>3. gate' = NoGate \/ (gate'.id = g.id /\ gate'.running = g.running)
    BY <1>3, <1>6 DEF AcquireLater, Kept, GateType
  <2> QED BY <1>3, <1>4, <2>1, <2>2, <2>3 DEF AwaitInv, Lifted, NoGate
<1> QED BY <1>2, <1>5, <1>6

LEMMA ReleaseAwaits ==
    ASSUME RateInv, AwaitInv, NEW r \in Req, Release(r)
    PROVE  AwaitInv'
<1> USE DEF RateInv
<1> DEFINE g == [gate EXCEPT !.running = @ - 1]
<1>0. phase[r] = "holding" /\ timers' = timers /\ until \in [GateIds -> Nat]
  BY DEF Release, Clocked
<1>1. gate.running \in Nat \ {0} /\ gate.id \in GateIds /\ gate.id # 0
  <2>1. gate.running \in Nat \ {0} /\ gate.id \in GateIds
    BY <1>0, HolderCounted
  <2> QED BY <2>1 DEF GateIds
<1>2. g \in GateType /\ g.queue = gate.queue /\ g.id = gate.id
  BY <1>1 DEF GateType, Books, GateTyped
<1>3. CASE InUse(g)
  <2>1. Drain(g, until)
    BY <1>1, <1>3 DEF Release
  <2> HIDE DEF g
  <2> QED BY <1>0, <1>1, <1>2, <2>1, DrainAwaits DEF AwaitInv, Lifted
<1>4. CASE ~InUse(g)
  BY <1>1, <1>4 DEF Release, NoGate, AwaitInv
<1> QED BY <1>3, <1>4

LEMMA CooldownTimerAwaits ==
    ASSUME RateInv, AwaitInv, NEW t \in timers, CooldownTimer(t)
    PROVE  AwaitInv'
<1> USE DEF RateInv
<1> DEFINE u == [until EXCEPT ![t.gate] = 0]
<1>1. /\ timers' = timers \ {t} /\ t.at <= now /\ t.at \in Nat /\ t.gate \in GateIds
      /\ until \in [GateIds -> Nat] /\ now \in Nat /\ gate \in GateType
      /\ \A s \in timers : s.at \in Nat
  BY DEF CooldownTimer, Clocked, Books, GateTyped
<1>2. gate.id # 0 => gate.id \in GateIds
  BY <1>1 DEF GateType
<1>3. CASE until[t.gate] # 0 /\ now >= until[t.gate] /\ gate.id # 0
  <2>1. Drain(gate, u) /\ u \in [GateIds -> Nat]
    BY <1>1, <1>3 DEF CooldownTimer
  <2>2. u[gate.id] # 0 => \E s \in timers' : s.gate = gate.id /\ s.at >= u[gate.id]
    BY <1>1, <1>2, <1>3 DEF AwaitInv, Lifted
  <2> HIDE DEF u
  <2> QED BY <1>1, <1>2, <1>3, <2>1, <2>2, DrainAwaits
<1>4. CASE ~(until[t.gate] # 0 /\ now >= until[t.gate] /\ gate.id # 0)
  <2>1. gate' = gate /\ until' = IF now >= until[t.gate] THEN u ELSE until
    BY <1>4 DEF CooldownTimer
  <2>2. gate.id # 0 => until'[gate.id] = until[gate.id]
    BY <1>1, <1>2, <1>4, <2>1
  <2>3. gate.queue # <<>> => gate.id # 0
    BY DEF Books, EmptyIfGone
  <2>4. gate.id # 0 => Lifted(gate.id)'
    <3> SUFFICES ASSUME gate.id # 0, until[gate.id] # 0
                 PROVE  \E s \in timers' : s.gate = gate.id /\ s.at >= until[gate.id]
      BY <2>1, <2>2 DEF Lifted
    <3>1. PICK s \in timers : s.gate = gate.id /\ s.at >= until[gate.id]
      BY DEF AwaitInv, Lifted
    <3>2. s # t
      BY <1>1, <1>2, <1>4, <3>1
    <3> QED BY <1>1, <3>1, <3>2
  <2> QED BY <2>1, <2>2, <2>3, <2>4 DEF AwaitInv
<1> QED BY <1>3, <1>4

\* A report counts for the cooldown it asks for; who reports holds a slot.
LEMMA MarkAwaits ==
    ASSUME RateInv, AwaitInv, NEW r \in Req, MarkRateLimited(r)
    PROVE  AwaitInv'
<1> USE DEF RateInv
<1>1. PICK ms \in Cooldowns :
        /\ until' = [until EXCEPT ![gate.id] = now + ms] /\ gate' = gate
        /\ timers' = timers \cup {[gate |-> gate.id, at |-> now + ms + Slack]}
  BY DEF MarkRateLimited
<1>2. /\ gate.running # 0 /\ gate.id \in GateIds /\ now + ms \in Nat /\ Slack \in Nat
      /\ until \in [GateIds -> Nat]
  <2>1. phase[r] = "holding"
    BY DEF MarkRateLimited
  <2>2. gate.running \in Nat \ {0} /\ gate.id \in GateIds
    BY <2>1, HolderCounted
  <2> QED BY <2>2, RateLimitAssumption DEF Clocked
<1>3. until'[gate.id] = now + ms
  BY <1>1, <1>2
<1>4. [gate |-> gate.id, at |-> now + ms + Slack].at >= now + ms
  BY <1>2
<1> QED BY <1>1, <1>2, <1>3, <1>4 DEF AwaitInv, Lifted

LEMMA TimeOutAwaits ==
    ASSUME RateInv, AwaitInv, NEW r \in Req, TimeOut(r)
    PROVE  AwaitInv'
<1> USE DEF RateInv
<1>1. PICK i \in 1..Len(gate.queue) : gate' = [gate EXCEPT !.queue = RemoveAt(@, i)]
  BY QueueTyped DEF TimeOut
<1>2. gate'.id = gate.id /\ gate'.running = gate.running /\ UNCHANGED <<until, timers>>
  BY <1>1 DEF TimeOut, Books, GateTyped, GateType
<1>3. gate.queue # <<>>
  BY <1>1, EmptySeq
<1> QED BY <1>2, <1>3 DEF AwaitInv, Lifted

\* A waiter is never left with nobody to wait for, whatever cooldowns overlap,
\* whoever lifts them and whichever timers still refer to gates that are gone.
THEOREM SomebodyAwaited == Spec => []WaiterAwaited
<1>1. Init => AwaitInv
  BY DEF Init, NoGate, AwaitInv, Lifted
<1>2. RateInv /\ AwaitInv /\ [Next]_vars => AwaitInv'
  <2> SUFFICES ASSUME RateInv, AwaitInv, [Next]_vars PROVE AwaitInv'
    OBVIOUS
  <2>1. CASE Tick \/ UNCHANGED vars
    BY <2>1 DEF Tick, vars, AwaitInv, Lifted
  <2> QED BY <2>1, AcquireAwaits, TimeOutAwaits, ReleaseAwaits, MarkAwaits, CooldownTimerAwaits
          DEF Next
<1>3. RateInv /\ AwaitInv => WaiterAwaited
  BY QueueTyped DEF RateInv, Books, EmptyIfGone, AwaitInv, Lifted, WaiterAwaited
<1> QED BY <1>1, <1>2, <1>3, RateInvariant, PTL DEF Spec
==============================================================================
