----------------------- MODULE AccountSemaphoreProofs -----------------------
(***************************************************************************)
(* Machine-checked proofs about AccountSemaphore and CalmSemaphore, for    *)
(* any callers, keys and limits.                                           *)
(***************************************************************************)
EXTENDS CalmSemaphore, QueueLemmas

GateType == [running : Nat, maxConcurrency : Nat \ {0}, queue : Seq(Req),
             blocked : BOOLEAN, cleanup : BOOLEAN]

\* The requests that need gate k.
Needing(need, k) == {r \in Req : k \in need[r]}

\* The queues of the gates g are the line q seen from different doors.
Lines(g, q, need) ==
    /\ g \in [DOMAIN g -> GateType]
    /\ q \in Seq(Req) /\ NoRepeats(q)
    /\ need \in [Req -> SUBSET Key]
    /\ \A r \in ToSet(q) : need[r] \subseteq DOMAIN g
    /\ \A k \in DOMAIN g : g[k].queue = Only(q, Needing(need, k))

-----------------------------------------------------------------------------
(* One turn of drainQueues, and all of them.                               *)

LoopState(g) == [gates : [DOMAIN g -> GateType], queued : Seq(Req), admitted : SUBSET Req]

\* What draining g and q has done to a gate when it has admitted these requests.
GateServed(old, new, admitted) ==
    /\ new.running = old.running + Cardinality(admitted)
    /\ new.maxConcurrency = old.maxConcurrency /\ new.blocked = old.blocked
    /\ admitted = {} => new = old
    /\ admitted # {} => ~new.blocked /\ new.running <= new.maxConcurrency

\* Nobody is admitted past somebody who still waits for one of the same gates.
InOrder(q, need, s) ==
    \A r \in s.admitted, w \in ToSet(s.queued) :
       need[r] \cap need[w] # {} => Precedes(q, r, w)

Served(g, q, need, s) ==
    /\ s \in LoopState(g)
    /\ s.admitted \subseteq ToSet(q)
    /\ s.queued = Only(q, Req \ s.admitted)
    /\ \A k \in DOMAIN g :
         /\ GateServed(g[k], s.gates[k], s.admitted \cap Needing(need, k))
         /\ s.gates[k].queue = Only(s.queued, Needing(need, k))
    /\ InOrder(q, need, s)

Stuck(s, need) == \A r \in ToSet(s.queued) : ~CanAcquire(s.gates, r, need[r])

LEMMA ServedLines ==
    ASSUME NEW g, NEW q, NEW need, NEW s, Lines(g, q, need), Served(g, q, need, s)
    PROVE  Lines(s.gates, s.queued, need)
<1>1. s.gates \in [DOMAIN g -> GateType] /\ DOMAIN s.gates = DOMAIN g
  BY DEF Served, LoopState
<1>2. /\ s.queued \in Seq(Req)
      /\ ToSet(s.queued) = ToSet(q) \cap (Req \ s.admitted)
      /\ \A a, b : Precedes(s.queued, a, b) => Precedes(q, a, b)
  <2>1. q \in Seq(Req) /\ s.queued = Only(q, Req \ s.admitted)
    BY DEF Lines, Served
  <2>2. /\ Only(q, Req \ s.admitted) \in Seq(Req)
        /\ ToSet(Only(q, Req \ s.admitted)) = ToSet(q) \cap (Req \ s.admitted)
        /\ \A a, b : Precedes(Only(q, Req \ s.admitted), a, b) => Precedes(q, a, b)
    BY <2>1, OnlyProperties
  <2> QED BY <2>1, <2>2
<1>3. NoRepeats(s.queued)
  BY <1>2 DEF Lines, NoRepeats
<1>4. \A r \in ToSet(s.queued) : need[r] \subseteq DOMAIN s.gates
  BY <1>1, <1>2 DEF Lines
<1>5. \A k \in DOMAIN s.gates : s.gates[k].queue = Only(s.queued, Needing(need, k))
  BY <1>1 DEF Served
<1> QED BY <1>1, <1>2, <1>3, <1>4, <1>5 DEF Lines

\* What admitting r does to the gates D.
SlotsTaken(D, old, new, r, keys) ==
    /\ new \in [D -> GateType]
    /\ \A k \in D :
         /\ k \notin keys => new[k] = old[k]
         /\ k \in keys => /\ new[k].running = old[k].running + 1
                          /\ new[k].maxConcurrency = old[k].maxConcurrency
                          /\ new[k].blocked = old[k].blocked
                          /\ new[k].queue = Only(old[k].queue, Req \ {r})

LEMMA GatesAfterAdmission ==
    ASSUME NEW D, NEW g \in [D -> GateType], NEW r \in Req, NEW keys \in SUBSET Key
    PROVE  SlotsTaken(D, g, TakeSlots(RemoveRequest(g, r, keys), keys), r, keys)
<1> DEFINE unlinked == [k \in D |->
                           IF k \in keys THEN [g[k] EXCEPT !.queue = Only(@, Req \ {r})] ELSE g[k]]
           removed == [k \in D |->
                           IF k \in keys
                           THEN [unlinked[k] EXCEPT !.cleanup = @ \/ Idle(unlinked[k])]
                           ELSE unlinked[k]]
           new == [k \in D |->
                           IF k \in keys THEN [removed[k] EXCEPT !.running = @ + 1] ELSE removed[k]]
<1>1. RemoveRequest(g, r, keys) = removed
  BY DEF RemoveRequest, RemoveRequests, ScheduleCleanup, OnGates
<1>2. TakeSlots(RemoveRequest(g, r, keys), keys) = new
  BY <1>1 DEF TakeSlots, OnGates
<1>3. ASSUME NEW k \in D, k \in keys
      PROVE  /\ new[k] \in GateType
             /\ new[k].running = g[k].running + 1
             /\ new[k].maxConcurrency = g[k].maxConcurrency
             /\ new[k].blocked = g[k].blocked
             /\ new[k].queue = Only(g[k].queue, Req \ {r})
  <2>1. g[k] \in GateType /\ g[k].queue \in Seq(Req)
    BY DEF GateType
  <2>2. Only(g[k].queue, Req \ {r}) \in Seq(Req)
    BY <2>1, OnlyProperties
  <2>3. unlinked[k] = [g[k] EXCEPT !.queue = Only(@, Req \ {r})]
    BY <1>3
  <2>4. /\ unlinked[k] \in GateType /\ unlinked[k].queue = Only(g[k].queue, Req \ {r})
        /\ unlinked[k].running = g[k].running /\ unlinked[k].blocked = g[k].blocked
        /\ unlinked[k].maxConcurrency = g[k].maxConcurrency
    BY <2>1, <2>2, <2>3 DEF GateType
  <2> HIDE DEF unlinked
  <2>5. removed[k] = [unlinked[k] EXCEPT !.cleanup = @ \/ Idle(unlinked[k])]
    BY <1>3
  <2>6. (unlinked[k].cleanup \/ Idle(unlinked[k])) \in BOOLEAN
    OBVIOUS
  <2>7. /\ removed[k] \in GateType /\ removed[k].queue = unlinked[k].queue
        /\ removed[k].running = unlinked[k].running /\ removed[k].blocked = unlinked[k].blocked
        /\ removed[k].maxConcurrency = unlinked[k].maxConcurrency
    BY <2>4, <2>5, <2>6 DEF GateType
  <2> HIDE DEF removed
  <2>8. new[k] = [removed[k] EXCEPT !.running = @ + 1]
    BY <1>3
  <2>9. removed[k].running + 1 \in Nat
    BY <2>7 DEF GateType
  <2>10. /\ new[k] \in GateType /\ new[k].queue = removed[k].queue
         /\ new[k].running = removed[k].running + 1 /\ new[k].blocked = removed[k].blocked
         /\ new[k].maxConcurrency = removed[k].maxConcurrency
    BY <2>7, <2>8, <2>9 DEF GateType
  <2> HIDE DEF new
  <2> QED BY <2>4, <2>7, <2>10
<1>4. ASSUME NEW k \in D, k \notin keys PROVE new[k] = g[k] /\ new[k] \in GateType
  BY <1>4
<1> HIDE DEF new
<1>5. new \in [D -> GateType]
  BY <1>3, <1>4 DEF new
<1> QED BY <1>2, <1>3, <1>4, <1>5 DEF SlotsTaken

LEMMA FiniteRequests == \A R \in SUBSET Req : IsFiniteSet(R) /\ Cardinality(R) \in Nat
BY SemaphoreAssumption, FS_Subset, FS_CardinalityType

\* The first waiter that can be admitted stands before everybody else who needs
\* one of its gates, as it is at the head of each of them.
LEMMA FirstIsOldest ==
    ASSUME NEW g, NEW q, NEW need, Lines(g, q, need), NEW r \in ToSet(q),
           CanAcquire(g, r, need[r]), NEW w \in ToSet(q), w # r, need[r] \cap need[w] # {}
    PROVE  Precedes(q, r, w)
<1>1. PICK k : k \in need[r] /\ k \in need[w]
  OBVIOUS
<1>2. /\ k \in DOMAIN g /\ g[k].queue # <<>> /\ Head(g[k].queue) = r
      /\ g[k].queue = Only(q, Needing(need, k)) /\ q \in Seq(Req)
  BY <1>1 DEF CanAcquire, Lines
<1> DEFINE line == Only(q, Needing(need, k))
<1>3. /\ line \in Seq(Req) /\ ToSet(line) = ToSet(q) \cap Needing(need, k)
      /\ \A a, b : Precedes(line, a, b) => Precedes(q, a, b)
  BY <1>2, OnlyProperties
<1>4. w \in ToSet(line)
  <2>1. w \in Req
    BY <1>2, HeadPrecedes
  <2> QED BY <1>1, <1>3, <2>1 DEF Needing
<1>5. Precedes(line, r, w)
  <2> HIDE DEF line
  <2>1. line # <<>> /\ Head(line) = r
    BY <1>2 DEF line
  <2> QED BY <1>3, <1>4, <2>1, HeadPrecedes
<1> QED BY <1>3, <1>5

\* A turn of the loop keeps what the drain promises, and admits somebody unless
\* nobody can be admitted.
LEMMA OneTurn ==
    ASSUME NEW g, NEW q, NEW need, NEW s, Lines(g, q, need), Served(g, q, need, s)
    PROVE  /\ Served(g, q, need, AdmitFirst(s, need))
           /\ Stuck(s, need) => AdmitFirst(s, need) = s
           /\ ~Stuck(s, need) =>
                 Cardinality(AdmitFirst(s, need).admitted) = Cardinality(s.admitted) + 1
<1> DEFINE able == {r \in Req : CanAcquire(s.gates, r, need[r])}
           ready == Only(s.queued, able)
           r == Head(ready)
           t == [gates    |-> TakeSlots(RemoveRequest(s.gates, r, need[r]), need[r]),
                 queued   |-> Only(s.queued, Req \ {r}),
                 admitted |-> s.admitted \cup {r}]
<1>0. /\ Lines(s.gates, s.queued, need) /\ s.queued \in Seq(Req)
      /\ s.gates \in [DOMAIN g -> GateType] /\ DOMAIN s.gates = DOMAIN g
      /\ q \in Seq(Req) /\ ToSet(q) \subseteq Req /\ need \in [Req -> SUBSET Key]
      /\ s.admitted \subseteq ToSet(q) /\ s.queued = Only(q, Req \ s.admitted)
  BY ServedLines, HeadPrecedes DEF Lines, Served, LoopState
<1>1. AdmitFirst(s, need) = IF ready = <<>> THEN s ELSE t
  BY DEF AdmitFirst
<1>2. ready \in Seq(Req) /\ ToSet(ready) = ToSet(s.queued) \cap able
  BY <1>0, OnlyProperties
<1>3. CASE ready = <<>>
  <2>1. ToSet(s.queued) \cap able = {}
    BY <1>2, <1>3, NothingQueued
  <2>2. ToSet(s.queued) \subseteq Req
    BY <1>0, HeadPrecedes
  <2>3. Stuck(s, need)
    BY <2>1, <2>2 DEF Stuck
  <2> QED BY <1>1, <1>3, <2>3
<1>4. CASE ready # <<>>
  <2> HIDE DEF ready, t
  <2>1. AdmitFirst(s, need) = t
    BY <1>1, <1>4
  <2>2. r \in ToSet(s.queued) /\ r \in able
    BY <1>2, <1>4, HeadPrecedes
  <2>3. r \in Req /\ CanAcquire(s.gates, r, need[r]) /\ need[r] \subseteq Key
    BY <1>0, <2>2
  <2> HIDE DEF able, r
  <2>4. r \in ToSet(q) /\ r \notin s.admitted
    BY <1>0, <2>2, OnlyProperties
  <2>5. /\ t.queued = Only(s.queued, Req \ {r}) /\ t.admitted = s.admitted \cup {r}
        /\ t.gates = TakeSlots(RemoveRequest(s.gates, r, need[r]), need[r])
    BY DEF t
  <2>6. /\ t.gates \in [DOMAIN g -> GateType]
        /\ \A k \in DOMAIN g :
             /\ k \notin need[r] => t.gates[k] = s.gates[k]
             /\ k \in need[r] => /\ t.gates[k].running = s.gates[k].running + 1
                                 /\ t.gates[k].maxConcurrency = s.gates[k].maxConcurrency
                                 /\ t.gates[k].blocked = s.gates[k].blocked
                                 /\ t.gates[k].queue = Only(s.gates[k].queue, Req \ {r})
    <3>1. s.gates \in [DOMAIN g -> GateType] /\ r \in Req /\ need[r] \in SUBSET Key
      BY <1>0, <2>3
    <3>2. SlotsTaken(DOMAIN g, s.gates, t.gates, r, need[r])
      BY <2>5, <3>1, GatesAfterAdmission
    <3> QED BY <3>2 DEF SlotsTaken
  <2>7. /\ t.queued \in Seq(Req) /\ ToSet(t.queued) = ToSet(s.queued) \ {r}
        /\ t.admitted \subseteq ToSet(q) /\ t \in LoopState(g)
    <3>1. t.queued \in Seq(Req) /\ ToSet(t.queued) = ToSet(s.queued) \ {r}
      <4>1. ToSet(s.queued) \subseteq Req
        BY <1>0, HeadPrecedes
      <4> QED BY <1>0, <2>5, <4>1, OnlyProperties
    <3>2. t.admitted \subseteq ToSet(q)
      BY <1>0, <2>4, <2>5
    <3>3. t = [gates |-> t.gates, queued |-> t.queued, admitted |-> t.admitted]
      BY DEF t
    <3>4. t \in LoopState(g)
      BY <1>0, <2>6, <3>1, <3>2, <3>3 DEF LoopState
    <3> QED BY <3>1, <3>2, <3>4
  <2>8. t.queued = Only(q, Req \ t.admitted)
    <3> DEFINE before == Req \ s.admitted
               others == Req \ {r}
    <3>1. q \in Seq(Req) /\ s.queued = Only(q, before) /\ t.queued = Only(s.queued, others)
      BY <1>0, <2>5
    <3>2. before \cap others = Req \ t.admitted
      BY <2>5
    <3> HIDE DEF before, others
    <3>3. Only(Only(q, before), others) = Only(q, before \cap others)
      BY <3>1, OnlyOnly
    <3> QED BY <3>1, <3>2, <3>3
  <2>9. ASSUME NEW k \in DOMAIN g
        PROVE  /\ GateServed(g[k], t.gates[k], t.admitted \cap Needing(need, k))
               /\ t.gates[k].queue = Only(t.queued, Needing(need, k))
    <3> DEFINE mine == Needing(need, k)
    <3>1. /\ GateServed(g[k], s.gates[k], s.admitted \cap mine)
          /\ s.gates[k].queue = Only(s.queued, mine)
          /\ g[k] \in GateType /\ s.gates[k] \in GateType
      BY <1>0 DEF Served, Lines
    <3>2. Only(t.queued, mine) = Only(s.queued, (Req \ {r}) \cap mine)
      BY <1>0, <2>5, OnlyOnly
    <3>3. CASE k \in need[r]
      <4>1. t.gates[k].queue = Only(t.queued, mine)
        <5>1. Only(Only(s.queued, mine), Req \ {r}) = Only(s.queued, mine \cap (Req \ {r}))
          BY <1>0, OnlyOnly
        <5>2. mine \cap (Req \ {r}) = (Req \ {r}) \cap mine
          OBVIOUS
        <5> QED BY <2>6, <3>1, <3>2, <3>3, <5>1, <5>2
      <4>2. t.admitted \cap mine = (s.admitted \cap mine) \cup {r} /\ r \notin s.admitted \cap mine
        BY <2>3, <2>4, <2>5, <3>3 DEF Needing
      <4>3. /\ Cardinality(s.admitted \cap mine) \in Nat
            /\ Cardinality(t.admitted \cap mine) = Cardinality(s.admitted \cap mine) + 1
        <5>1. IsFiniteSet(s.admitted \cap mine) /\ Cardinality(s.admitted \cap mine) \in Nat
          BY <1>0, FiniteRequests
        <5> QED BY <4>2, <5>1, FS_AddElement
      <4>4. ~s.gates[k].blocked /\ s.gates[k].running < s.gates[k].maxConcurrency
        BY <2>3, <3>3 DEF CanAcquire, HasRoom
      <4>5. GateServed(g[k], t.gates[k], t.admitted \cap mine)
        <5> DEFINE new == t.gates[k]
                   mid == s.gates[k]
        <5>1. /\ new.running = mid.running + 1 /\ new.maxConcurrency = mid.maxConcurrency
              /\ new.blocked = mid.blocked
          BY <2>6, <3>3
        <5>2. /\ mid.running = g[k].running + Cardinality(s.admitted \cap mine)
              /\ mid.maxConcurrency = g[k].maxConcurrency /\ mid.blocked = g[k].blocked
          BY <3>1 DEF GateServed
        <5>3. mid.running \in Nat /\ mid.maxConcurrency \in Nat /\ g[k].running \in Nat
          BY <3>1 DEF GateType
        <5>4. t.admitted \cap mine # {}
          BY <4>2
        <5> HIDE DEF new, mid, mine
        <5>5. new.running = g[k].running + Cardinality(t.admitted \cap mine)
          BY <4>3, <5>1, <5>2, <5>3
        <5>6. ~new.blocked /\ new.running <= new.maxConcurrency
          BY <4>4, <5>1, <5>3 DEF mid
        <5> QED BY <5>1, <5>2, <5>4, <5>5, <5>6 DEF GateServed, new
      <4> QED BY <4>1, <4>5
    <3>4. CASE k \notin need[r]
      <4>1. r \notin mine
        BY <3>4 DEF Needing
      <4>2. t.admitted \cap mine = s.admitted \cap mine
        BY <2>5, <4>1
      <4>3. (Req \ {r}) \cap mine = mine
        BY <4>1 DEF Needing
      <4>4. t.gates[k] = s.gates[k]
        BY <2>6, <3>4
      <4> QED BY <3>1, <3>2, <4>2, <4>3, <4>4
    <3> QED BY <3>3, <3>4
  <2>10. InOrder(q, need, t)
    <3> SUFFICES ASSUME NEW a \in t.admitted, NEW w \in ToSet(t.queued), need[a] \cap need[w] # {}
                 PROVE  Precedes(q, a, w)
      BY DEF InOrder
    <3>1. w \in ToSet(s.queued) /\ w # r
      BY <2>7
    <3>2. CASE a \in s.admitted
      BY <3>1, <3>2 DEF Served, InOrder
    <3>3. CASE a = r
      <4>1. Precedes(s.queued, r, w)
        BY <1>0, <2>2, <2>3, <3>1, <3>3, FirstIsOldest
      <4> QED BY <1>0, <3>3, <4>1, OnlyProperties
    <3> QED BY <2>5, <3>2, <3>3
  <2>11. Cardinality(t.admitted) = Cardinality(s.admitted) + 1
    <3>1. IsFiniteSet(s.admitted)
      BY <1>0, FiniteRequests
    <3> QED BY <2>4, <2>5, <3>1, FS_AddElement
  <2>12. Served(g, q, need, t)
    BY <2>7, <2>8, <2>9, <2>10 DEF Served
  <2>13. ~Stuck(s, need)
    BY <2>2, <2>3 DEF Stuck
  <2> QED BY <2>1, <2>11, <2>12, <2>13
<1> QED BY <1>3, <1>4

\* The whole loop: there are as many turns as waiters, so that at the end nobody
\* can be admitted.
LEMMA Drained ==
    ASSUME NEW g, NEW q, NEW need, Lines(g, q, need)
    PROVE  Served(g, q, need, DrainQueues(g, q, need)) /\ Stuck(DrainQueues(g, q, need), need)
<1> DEFINE N == Len(q)
           V == {s \in LoopState(g) : Served(g, q, need, s)}
           c == [gates |-> g, queued |-> q, admitted |-> {}]
           D == [p \in V \X (1..N) |-> AdmitFirst(p[1], need)]
           T(f) == f = [n \in 0..N |-> IF n = 0 THEN c ELSE AdmitFirst(f[n - 1], need)]
           turn == CHOOSE f : T(f)
<1>0. /\ g \in [DOMAIN g -> GateType] /\ q \in Seq(Req) /\ NoRepeats(q) /\ N \in Nat
      /\ ToSet(q) \subseteq Req
      /\ \A k \in DOMAIN g : g[k] \in GateType
  BY LenProperties, HeadPrecedes DEF Lines
<1>1. c \in V
  <2>1. c \in LoopState(g)
    BY <1>0 DEF LoopState
  <2>2. Only(q, Req \ {}) = q
    BY <1>0, OnlyAll
  <2>3. ASSUME NEW k \in DOMAIN g
        PROVE  /\ GateServed(g[k], g[k], {} \cap Needing(need, k))
               /\ g[k].queue = Only(q, Needing(need, k))
    <3>1. {} \cap Needing(need, k) = {} /\ Cardinality({}) = 0
      BY FS_EmptySet
    <3>2. g[k].running + 0 = g[k].running
      BY <1>0 DEF GateType
    <3>3. GateServed(g[k], g[k], {})
      BY <3>1, <3>2 DEF GateServed
    <3> QED BY <3>1, <3>3 DEF Lines
  <2>4. InOrder(q, need, c)
    BY DEF InOrder
  <2>5. Served(g, q, need, c)
    BY <2>1, <2>2, <2>3, <2>4 DEF Served
  <2> QED BY <2>1, <2>5
<1>2. ASSUME NEW s \in V
      PROVE  /\ AdmitFirst(s, need) \in V
             /\ Stuck(s, need) => AdmitFirst(s, need) = s
             /\ ~Stuck(s, need) =>
                   Cardinality(AdmitFirst(s, need).admitted) = Cardinality(s.admitted) + 1
  <2>1. Served(g, q, need, AdmitFirst(s, need))
    BY OneTurn
  <2>2. AdmitFirst(s, need) \in LoopState(g)
    BY <2>1 DEF Served
  <2> QED BY <2>1, <2>2, OneTurn
<1>3. D \in [V \X (1..N) -> V]
  <2> HIDE DEF V
  <2> QED BY <1>2
<1>4. PICK f : f \in [0..N -> V] /\ Iterates(f, N, c, D)
  <2> HIDE DEF V, c, D, N
  <2> QED BY <1>0, <1>1, <1>3, Recursion
<1>5. T(f)
  <2>1. ASSUME NEW n \in 0..N PROVE f[n] = IF n = 0 THEN c ELSE AdmitFirst(f[n - 1], need)
    <3>1. CASE n = 0
      BY <1>4, <3>1 DEF Iterates
    <3>2. CASE n \in 1..N
      <4>1. f[n - 1] \in V /\ n # 0
        <5>1. n - 1 \in 0..N
          BY <1>0, <3>2
        <5> QED BY <1>0, <1>4, <3>2, <5>1
      <4>2. f[n] = D[<<f[n - 1], n>>]
        BY <1>4, <3>2 DEF Iterates
      <4> HIDE DEF V
      <4> QED BY <3>2, <4>1, <4>2
    <3> QED BY <1>0, <3>1, <3>2
  <2>2. f = [n \in 0..N |-> f[n]]
    BY <1>4
  <2> HIDE DEF c, V, N
  <2> QED BY <2>1, <2>2, Zenon
<1>6. T(turn)
  <2> HIDE DEF T
  <2> QED BY <1>5
<1>7. DrainQueues(g, q, need) = turn[N]
  BY DEF DrainQueues
<1> HIDE DEF turn, D
<1>8. /\ turn[0] = c
      /\ \A n \in 1..N : turn[n] = AdmitFirst(turn[n - 1], need)
  <2> HIDE DEF c
  <2>1. 0 \in 0..N /\ \A n \in 1..N : n \in 0..N /\ n # 0
    BY <1>0
  <2> QED BY <1>6, <2>1
<1> DEFINE S == {n \in 0..N : turn[n] \in V /\ (\/ Stuck(turn[n], need)
                                               \/ Cardinality(turn[n].admitted) = n)}
<1> HIDE DEF V, T
<1>9. 0 \in S
  <2>1. 0 \in 0..N /\ turn[0] \in V
    BY <1>0, <1>1, <1>8
  <2>2. Cardinality(turn[0].admitted) = 0
    <3>1. turn[0].admitted = {}
      BY <1>8
    <3> QED BY <3>1, FS_EmptySet
  <2> HIDE DEF c, N
  <2> QED BY <2>1, <2>2
<1>10. ASSUME NEW n \in 0..N - 1, n \in S PROVE n + 1 \in S
  <2>1. n + 1 \in 1..N /\ n + 1 \in 0..N /\ (n + 1) - 1 = n
    BY <1>0
  <2>2. turn[n + 1] = AdmitFirst(turn[n], need)
    BY <1>8, <2>1
  <2>3. turn[n] \in V /\ (Stuck(turn[n], need) \/ Cardinality(turn[n].admitted) = n)
    BY <1>10
  <2>4. turn[n + 1] \in V
    BY <1>2, <2>2, <2>3
  <2> HIDE DEF N
  <2>5. CASE Stuck(turn[n], need)
    <3>1. Stuck(turn[n + 1], need)
      BY <1>2, <2>2, <2>3, <2>5
    <3> QED BY <2>1, <2>4, <3>1
  <2>6. CASE ~Stuck(turn[n], need)
    <3>1. Cardinality(turn[n + 1].admitted) = n + 1
      BY <1>2, <2>2, <2>3, <2>6
    <3> QED BY <2>1, <2>4, <3>1
  <2> QED BY <2>5, <2>6
<1> HIDE DEF S, N, c
<1>11. N \in S
  <2>1. 0..N \subseteq S
    BY <1>0, <1>9, <1>10, Induction
  <2> QED BY <1>0, <2>1
<1> DEFINE s == turn[N]
<1>12. Served(g, q, need, s) /\ (Stuck(s, need) \/ Cardinality(s.admitted) = N)
  BY <1>11 DEF S, V
<1>13. ASSUME Cardinality(s.admitted) = N PROVE Stuck(s, need)
  <2>1. IsFiniteSet(ToSet(q)) /\ Cardinality(ToSet(q)) = N
    BY <1>0, LenIsCardinality DEF N
  <2>2. s.admitted = ToSet(q)
    <3>1. s.admitted \in SUBSET ToSet(q)
      BY <1>12 DEF Served
    <3> QED BY <1>13, <2>1, <3>1, FS_Subset
  <2>3. ToSet(s.queued) = {}
    <3>1. s.queued = Only(q, Req \ s.admitted)
      BY <1>12 DEF Served
    <3> QED BY <1>0, <2>2, <3>1, OnlyProperties
  <2> QED BY <2>3 DEF Stuck
<1> QED BY <1>7, <1>12, <1>13

-----------------------------------------------------------------------------
(* The books: what the gates, the line, the callers and the history say of *)
(* one another.  They are stated of values, so that they can be followed   *)
(* through the steps inside an action.                                     *)

Phases == {"idle", "waiting", "holding"}

HoldersOf(ph, need, fg, k) == {r \in Req : ph[r] = "holding" /\ k \in need[r] \ fg[r]}

Callers(q, ph, fg) ==
    /\ ph \in [Req -> Phases] /\ fg \in [Req -> SUBSET Key]
    /\ ToSet(q) = {r \in Req : ph[r] = "waiting"}
    /\ \A r \in Req : ph[r] # "holding" => fg[r] = {}

Counts(g, ph, need, fg, rb) ==
    /\ rb \subseteq Key
    /\ \A r \in Req : ph[r] = "holding" => need[r] \ (fg[r] \cup rb) \subseteq DOMAIN g
    /\ \A k \in DOMAIN g :
         /\ g[k].running <= Cardinality(HoldersOf(ph, need, fg, k))
         /\ k \notin rb => g[k].running = Cardinality(HoldersOf(ph, need, fg, k))

Books(g, q, ph, need, fg, rb) ==
    /\ DOMAIN g \subseteq Key
    /\ Lines(g, q, need)
    /\ Callers(q, ph, fg)
    /\ Counts(g, ph, need, fg, rb)

\* The inductive invariant.
SemaphoreInv == Books(gates, queued, phase, keysOf, forgotten, robbed) /\ stray \subseteq Key

\* No gate of these requests is blocked or has let in more than it may.
Fits(g, ph, need, fg, rb, admitted) ==
    \A r \in admitted : \A k \in need[r] :
       /\ k \in DOMAIN g /\ g[k].running > 0 /\ ~g[k].blocked
       /\ k \in rb \/ Cardinality(HoldersOf(ph, need, fg, k)) <= g[k].maxConcurrency

LEMMA HoldersFinite ==
    \A ph, need, fg, k : /\ IsFiniteSet(HoldersOf(ph, need, fg, k))
                         /\ Cardinality(HoldersOf(ph, need, fg, k)) \in Nat
BY FiniteRequests DEF HoldersOf

\* The books do not depend on limits, blocks and cleanup timers.
LEMMA BooksSameCounts ==
    ASSUME NEW g, NEW q, NEW ph, NEW need, NEW fg, NEW rb, Books(g, q, ph, need, fg, rb),
           NEW h \in [DOMAIN g -> GateType],
           \A k \in DOMAIN g : h[k].running = g[k].running /\ h[k].queue = g[k].queue
    PROVE  Books(h, q, ph, need, fg, rb)
<1>1. DOMAIN h = DOMAIN g /\ h \in [DOMAIN h -> GateType]
  OBVIOUS
<1>2. Lines(h, q, need)
  BY <1>1 DEF Books, Lines
<1>3. Counts(h, ph, need, fg, rb)
  BY <1>1 DEF Books, Counts
<1> QED BY <1>1, <1>2, <1>3 DEF Books

\* Nor on the keys of callers that neither wait nor hold.
LEMMA BooksSameNeeds ==
    ASSUME NEW g, NEW q, NEW ph, NEW need, NEW fg, NEW rb, Books(g, q, ph, need, fg, rb),
           NEW new \in [Req -> SUBSET Key],
           \A r \in Req : ph[r] # "idle" => new[r] = need[r]
    PROVE  /\ Books(g, q, ph, new, fg, rb)
           /\ \A k : HoldersOf(ph, new, fg, k) = HoldersOf(ph, need, fg, k)
<1>1. \A r \in ToSet(q) : r \in Req /\ new[r] = need[r]
  BY DEF Books, Callers
<1>2. ASSUME NEW k \in DOMAIN g PROVE g[k].queue = Only(q, Needing(new, k))
  <2>1. q \in Seq(Req) /\ g[k].queue = Only(q, Needing(need, k))
    BY DEF Books, Lines
  <2>2. \A r \in ToSet(q) : r \in Needing(need, k) <=> r \in Needing(new, k)
    BY <1>1 DEF Needing
  <2> QED BY <2>1, <2>2, OnlySame
<1>3. Lines(g, q, new)
  BY <1>1, <1>2 DEF Books, Lines
<1>4. \A k : HoldersOf(ph, new, fg, k) = HoldersOf(ph, need, fg, k)
  BY DEF HoldersOf
<1>5. Counts(g, ph, new, fg, rb)
  BY <1>4 DEF Books, Counts
<1> QED BY <1>3, <1>4, <1>5 DEF Books

\* h is g without those of keys that nobody uses or waits for.
Dropped(g, h, keys) ==
    /\ DOMAIN h \subseteq DOMAIN g
    /\ \A k \in DOMAIN h : h[k] = g[k]
    /\ \A k \in DOMAIN g \ DOMAIN h : k \in keys /\ Idle(g[k]) /\ ~g[k].blocked
    /\ \A k \in DOMAIN h \cap keys : ~Idle(g[k]) \/ g[k].blocked

LEMMA BooksDropped ==
    ASSUME NEW g, NEW q, NEW ph, NEW need, NEW fg, NEW rb, Books(g, q, ph, need, fg, rb),
           NEW keys
    PROVE  /\ Books(CleanupIfIdle(g, keys), q, ph, need, fg, rb)
           /\ Dropped(g, CleanupIfIdle(g, keys), keys)
<1> DEFINE gone == {k \in keys \cap DOMAIN g : Idle(g[k]) /\ ~g[k].blocked}
           h == [k \in DOMAIN g \ gone |-> g[k]]
<1>0. CleanupIfIdle(g, keys) = h
  BY DEF CleanupIfIdle
<1>1. DOMAIN h = DOMAIN g \ gone /\ \A k \in DOMAIN h : h[k] = g[k]
  OBVIOUS
<1>2. h \in [DOMAIN h -> GateType]
  BY DEF Books, Lines
<1> HIDE DEF h
<1>3. ASSUME NEW k \in gone
      PROVE  /\ \A r \in ToSet(q) : k \notin need[r]
             /\ k \notin rb => HoldersOf(ph, need, fg, k) = {}
  <2>1. k \in DOMAIN g /\ g[k].running = 0 /\ g[k].queue = <<>>
    BY DEF Idle
  <2>2. ToSet(g[k].queue) = ToSet(q) \cap Needing(need, k) /\ ToSet(q) \subseteq Req
    BY <2>1, OnlyProperties, HeadPrecedes DEF Books, Lines
  <2>3. \A r \in ToSet(q) : k \notin need[r]
    BY <2>1, <2>2, NothingQueued DEF Needing
  <2>4. k \notin rb => Cardinality(HoldersOf(ph, need, fg, k)) = 0
    BY <2>1 DEF Books, Counts
  <2> QED BY <2>3, <2>4, HoldersFinite, FS_EmptySet
<1>4. Lines(h, q, need)
  <2>1. \A r \in ToSet(q) : need[r] \subseteq DOMAIN h
    BY <1>1, <1>3 DEF Books, Lines
  <2> QED BY <1>1, <1>2, <2>1 DEF Books, Lines
<1>5. Counts(h, ph, need, fg, rb)
  <2>1. ASSUME NEW r \in Req, ph[r] = "holding", NEW k \in need[r] \ (fg[r] \cup rb)
        PROVE  k \in DOMAIN h
    <3>1. k \in DOMAIN g /\ r \in HoldersOf(ph, need, fg, k)
      BY <2>1 DEF Books, Counts, HoldersOf
    <3>2. k \notin gone
      BY <1>3, <2>1, <3>1
    <3> QED BY <1>1, <3>1, <3>2
  <2> QED BY <1>1, <2>1 DEF Books, Counts
<1>6. Books(h, q, ph, need, fg, rb)
  BY <1>1, <1>4, <1>5 DEF Books
<1>7. Dropped(g, h, keys)
  BY <1>1 DEF Dropped
<1> QED BY <1>0, <1>6, <1>7

LEMMA DrainBooks ==
    ASSUME NEW g, NEW q, NEW ph, NEW need, NEW fg, NEW rb, Books(g, q, ph, need, fg, rb),
           NEW s, s = DrainQueues(g, q, need)
    PROVE  /\ Books(s.gates, s.queued, Admit(ph, s.admitted), need, fg, rb)
           /\ Fits(s.gates, Admit(ph, s.admitted), need, fg, rb, s.admitted)
           /\ Served(g, q, need, s) /\ Stuck(s, need)
<1> DEFINE now == Admit(ph, s.admitted)
<1>1. Lines(g, q, need) /\ q \in Seq(Req) /\ DOMAIN g \subseteq Key
  BY DEF Books, Lines
<1>2. Served(g, q, need, s) /\ Stuck(s, need)
  BY <1>1, Drained
<1>3. Lines(s.gates, s.queued, need)
  BY <1>1, <1>2, ServedLines
<1>4. /\ s.gates \in [DOMAIN g -> GateType] /\ DOMAIN s.gates = DOMAIN g
      /\ s.admitted \subseteq ToSet(q)
      /\ ToSet(s.queued) = ToSet(q) \ s.admitted
  <2>1. ToSet(q) \subseteq Req
    BY <1>1, HeadPrecedes
  <2> QED BY <1>1, <1>2, <2>1, OnlyProperties DEF Served, LoopState
<1>5. \A r \in s.admitted : r \in Req /\ ph[r] = "waiting" /\ fg[r] = {}
  BY <1>4 DEF Books, Callers
<1>6. /\ now \in [Req -> Phases]
      /\ \A r \in Req : now[r] = IF r \in s.admitted THEN "holding" ELSE ph[r]
  BY DEF Admit, Books, Callers, Phases
<1> HIDE DEF now
<1>7. Callers(s.queued, now, fg)
  <2>1. ToSet(s.queued) = {r \in Req : now[r] = "waiting"}
    BY <1>4, <1>5, <1>6 DEF Books, Callers
  <2>2. \A r \in Req : now[r] # "holding" => fg[r] = {}
    BY <1>6 DEF Books, Callers
  <2> QED BY <1>6, <2>1, <2>2 DEF Books, Callers
<1>8. ASSUME NEW k \in DOMAIN g
      PROVE  LET mine == s.admitted \cap Needing(need, k)
                 before == Cardinality(HoldersOf(ph, need, fg, k))
             IN  /\ Cardinality(mine) \in Nat /\ before \in Nat
                 /\ Cardinality(HoldersOf(now, need, fg, k)) = before + Cardinality(mine)
                 /\ s.gates[k].running = g[k].running + Cardinality(mine)
                 /\ g[k].running \in Nat
  <2> DEFINE mine == s.admitted \cap Needing(need, k)
             holders == HoldersOf(ph, need, fg, k)
  <2>1. HoldersOf(now, need, fg, k) = holders \cup mine /\ holders \cap mine = {}
    BY <1>5, <1>6 DEF HoldersOf, Needing
  <2>2. /\ IsFiniteSet(holders) /\ Cardinality(holders) \in Nat
        /\ IsFiniteSet(mine) /\ Cardinality(mine) \in Nat
    <3>1. mine \in SUBSET Req
      BY <1>5
    <3> QED BY <3>1, FiniteRequests, HoldersFinite
  <2>3. s.gates[k].running = g[k].running + Cardinality(mine)
    BY <1>2 DEF Served, GateServed
  <2>4. g[k].running \in Nat
    BY DEF Books, Lines, GateType
  <2>5. Cardinality(holders \cup mine) = Cardinality(holders) + Cardinality(mine)
    <3> HIDE DEF holders, mine
    <3>1. Cardinality(holders \cup mine)
             = Cardinality(holders) + Cardinality(mine) - Cardinality({})
      BY <2>1, <2>2, FS_Union
    <3> QED BY <2>2, <3>1, FS_EmptySet
  <2> QED BY <2>1, <2>2, <2>3, <2>4, <2>5
<1>9. Counts(s.gates, now, need, fg, rb)
  <2>1. ASSUME NEW r \in Req, now[r] = "holding"
        PROVE  need[r] \ (fg[r] \cup rb) \subseteq DOMAIN s.gates
    <3>1. CASE r \in s.admitted
      <4>1. r \in ToSet(q)
        BY <1>4, <3>1
      <4> QED BY <1>1, <1>4, <4>1 DEF Lines
    <3>2. CASE r \notin s.admitted
      BY <1>4, <1>6, <2>1, <3>2 DEF Books, Counts
    <3> QED BY <3>1, <3>2
  <2>2. ASSUME NEW k \in DOMAIN s.gates
        PROVE  /\ s.gates[k].running <= Cardinality(HoldersOf(now, need, fg, k))
               /\ k \notin rb => s.gates[k].running = Cardinality(HoldersOf(now, need, fg, k))
    <3>1. k \in DOMAIN g
      BY <1>4
    <3> DEFINE added == Cardinality(s.admitted \cap Needing(need, k))
               before == Cardinality(HoldersOf(ph, need, fg, k))
               after == Cardinality(HoldersOf(now, need, fg, k))
    <3>2. g[k].running <= before /\ (k \notin rb => g[k].running = before)
      BY <3>1 DEF Books, Counts
    <3>3. /\ added \in Nat /\ before \in Nat /\ after = before + added
          /\ s.gates[k].running = g[k].running + added /\ g[k].running \in Nat
      BY <1>8, <3>1
    <3> HIDE DEF added, before
    <3>4. /\ s.gates[k].running <= after
          /\ k \notin rb => s.gates[k].running = after
      BY <3>2, <3>3
    <3> QED BY <3>4
  <2> QED BY <2>1, <2>2 DEF Books, Counts
<1>10. Fits(s.gates, now, need, fg, rb, s.admitted)
  <2> SUFFICES ASSUME NEW r \in s.admitted, NEW k \in need[r]
               PROVE  /\ k \in DOMAIN s.gates /\ s.gates[k].running > 0 /\ ~s.gates[k].blocked
                      /\ \/ k \in rb
                         \/ Cardinality(HoldersOf(now, need, fg, k)) <= s.gates[k].maxConcurrency
    BY DEF Fits
  <2>1. k \in DOMAIN g
    <3>1. r \in ToSet(q)
      BY <1>4
    <3> QED BY <1>1, <3>1 DEF Lines
  <2> DEFINE mine == s.admitted \cap Needing(need, k)
  <2>2. r \in mine
    BY <1>5 DEF Needing
  <2>3. /\ ~s.gates[k].blocked /\ s.gates[k].running <= s.gates[k].maxConcurrency
        /\ s.gates[k].running = g[k].running + Cardinality(mine)
    BY <1>2, <2>1, <2>2 DEF Served, GateServed
  <2>4. Cardinality(mine) \in Nat /\ Cardinality(mine) # 0 /\ g[k].running \in Nat
    <3>1. IsFiniteSet(mine)
      BY <1>5, FiniteRequests
    <3> QED BY <1>8, <2>1, <2>2, <3>1, FS_EmptySet
  <2> HIDE DEF mine
  <2>5. s.gates[k].running > 0
    BY <2>3, <2>4
  <2> QED BY <1>4, <1>9, <2>1, <2>3, <2>5 DEF Counts
<1>11. Books(s.gates, s.queued, now, need, fg, rb)
  BY <1>1, <1>3, <1>4, <1>7, <1>9 DEF Books
<1> QED BY <1>2, <1>10, <1>11 DEF now

\* ensureGate for keys: old gates get their limit, new ones are idle.
Ensured(g, h, keys, caps) ==
    /\ DOMAIN h = DOMAIN g \cup keys
    /\ \A k \in DOMAIN g \ keys : h[k] = g[k]
    /\ \A k \in keys : h[k].maxConcurrency = caps[k]
    /\ \A k \in DOMAIN g \cap keys : /\ h[k].running = g[k].running /\ h[k].queue = g[k].queue
                                     /\ h[k].blocked = g[k].blocked
    /\ \A k \in keys \ DOMAIN g : h[k] = NewGate(caps[k])

LEMMA BooksEnsured ==
    ASSUME NEW g, NEW q, NEW ph, NEW need, NEW fg, NEW rb, Books(g, q, ph, need, fg, rb),
           NEW keys \in SUBSET Key, NEW caps, \A k \in keys : caps[k] \in Nat \ {0}
    PROVE  /\ Books(EnsureGates(g, keys, caps), q, ph, need, fg, rb)
           /\ Ensured(g, EnsureGates(g, keys, caps), keys, caps)
<1> DEFINE h == [k \in DOMAIN g \cup keys |->
                   IF k \notin keys THEN g[k]
                   ELSE IF k \notin DOMAIN g THEN NewGate(caps[k])
                   ELSE [g[k] EXCEPT !.maxConcurrency = caps[k], !.cleanup = FALSE]]
<1>0. EnsureGates(g, keys, caps) = h
  BY DEF EnsureGates
<1>1. \A k \in DOMAIN g : g[k] \in GateType
  BY DEF Books, Lines
<1>2. ASSUME NEW k \in DOMAIN g \ keys PROVE h[k] = g[k] /\ h[k] \in GateType
  BY <1>1
<1>3. ASSUME NEW k \in DOMAIN g \cap keys
      PROVE  /\ h[k] \in GateType /\ h[k].maxConcurrency = caps[k]
             /\ h[k].running = g[k].running /\ h[k].queue = g[k].queue
             /\ h[k].blocked = g[k].blocked
  <2>1. h[k] = [g[k] EXCEPT !.maxConcurrency = caps[k], !.cleanup = FALSE]
    BY <1>3
  <2> HIDE DEF h
  <2> QED BY <1>1, <1>3, <2>1 DEF GateType
<1>4. ASSUME NEW k \in keys \ DOMAIN g
      PROVE  /\ h[k] = NewGate(caps[k]) /\ h[k] \in GateType /\ h[k].maxConcurrency = caps[k]
             /\ h[k].running = 0 /\ h[k].queue = <<>>
  <2>1. h[k] = NewGate(caps[k])
    BY <1>4
  <2> HIDE DEF h
  <2>2. <<>> \in Seq(Req)
    BY EmptySeq
  <2> QED BY <1>4, <2>1, <2>2 DEF NewGate, GateType
<1>5. DOMAIN h = DOMAIN g \cup keys
  OBVIOUS
<1>6. h \in [DOMAIN h -> GateType]
  BY <1>2, <1>3, <1>4
<1> HIDE DEF h
<1>7. Ensured(g, h, keys, caps)
  BY <1>2, <1>3, <1>4, <1>5 DEF Ensured
<1>8. ASSUME NEW k \in DOMAIN h PROVE h[k].queue = Only(q, Needing(need, k))
  <2>1. CASE k \in DOMAIN g
    BY <1>2, <1>3, <2>1 DEF Books, Lines
  <2>2. CASE k \notin DOMAIN g
    <3> DEFINE mine == Only(q, Needing(need, k))
    <3>1. q \in Seq(Req) /\ \A r \in ToSet(q) : k \notin need[r]
      BY <2>2 DEF Books, Lines
    <3>2. mine \in Seq(Req) /\ ToSet(mine) = ToSet(q) \cap Needing(need, k)
      BY <3>1, OnlyProperties
    <3>3. ToSet(mine) = {}
      BY <3>1, <3>2 DEF Needing
    <3> HIDE DEF mine
    <3>4. mine = <<>>
      BY <3>2, <3>3, HeadPrecedes
    <3> QED BY <1>4, <1>5, <2>2, <3>4 DEF mine
  <2> QED BY <2>1, <2>2
<1>9. Lines(h, q, need)
  BY <1>5, <1>6, <1>8 DEF Books, Lines
<1>10. Counts(h, ph, need, fg, rb)
  <2>1. ASSUME NEW k \in DOMAIN h
        PROVE  /\ h[k].running <= Cardinality(HoldersOf(ph, need, fg, k))
               /\ k \notin rb => h[k].running = Cardinality(HoldersOf(ph, need, fg, k))
    <3>1. CASE k \in DOMAIN g
      BY <1>2, <1>3, <3>1 DEF Books, Counts
    <3>2. CASE k \notin DOMAIN g
      <4>1. h[k].running = 0
        BY <1>4, <1>5, <3>2
      <4>2. k \notin rb => HoldersOf(ph, need, fg, k) = {}
        BY <3>2 DEF Books, Counts, HoldersOf
      <4> QED BY <4>1, <4>2, HoldersFinite, FS_EmptySet
    <3> QED BY <3>1, <3>2
  <2> QED BY <1>5, <2>1 DEF Books, Counts
<1>11. Books(h, q, ph, need, fg, rb)
  BY <1>5, <1>9, <1>10 DEF Books
<1> QED BY <1>0, <1>7, <1>11

\* scheduleCleanup arms the timers of those of keys that are idle.
Scheduled(g, h, keys) ==
    /\ DOMAIN h = DOMAIN g
    /\ \A k \in DOMAIN g : /\ h[k].running = g[k].running /\ h[k].queue = g[k].queue
                           /\ h[k].blocked = g[k].blocked
                           /\ h[k].maxConcurrency = g[k].maxConcurrency
                           /\ h[k].cleanup <=> g[k].cleanup \/ (k \in keys /\ Idle(g[k]))

LEMMA GatesScheduled ==
    ASSUME NEW D, NEW g \in [D -> GateType], NEW keys
    PROVE  ScheduleCleanup(g, keys) \in [D -> GateType] /\ Scheduled(g, ScheduleCleanup(g, keys), keys)
<1> DEFINE h == [k \in D |-> IF k \in keys THEN [g[k] EXCEPT !.cleanup = @ \/ Idle(g[k])] ELSE g[k]]
<1>1. ScheduleCleanup(g, keys) = h
  BY DEF ScheduleCleanup, OnGates
<1>2. ASSUME NEW k \in D
      PROVE  /\ h[k] \in GateType
             /\ h[k].running = g[k].running /\ h[k].queue = g[k].queue
             /\ h[k].blocked = g[k].blocked /\ h[k].maxConcurrency = g[k].maxConcurrency
             /\ h[k].cleanup <=> g[k].cleanup \/ (k \in keys /\ Idle(g[k]))
  <2>1. g[k] \in GateType /\ (g[k].cleanup \/ Idle(g[k])) \in BOOLEAN
    OBVIOUS
  <2>2. CASE k \in keys
    <3>1. h[k] = [g[k] EXCEPT !.cleanup = @ \/ Idle(g[k])]
      BY <2>2
    <3> HIDE DEF h
    <3> QED BY <2>1, <2>2, <3>1 DEF GateType
  <2>3. CASE k \notin keys
    <3>1. h[k] = g[k]
      BY <2>3
    <3> HIDE DEF h
    <3> QED BY <2>1, <2>3, <3>1
  <2> QED BY <2>2, <2>3
<1>3. h \in [D -> GateType] /\ DOMAIN h = D
  BY <1>2
<1> HIDE DEF h
<1> QED BY <1>1, <1>2, <1>3 DEF Scheduled

\* removeRequest has taken the requests out from the gates of keys.
Unlinked(g, h, out, keys) ==
    /\ DOMAIN h = DOMAIN g
    /\ \A k \in DOMAIN g :
         /\ h[k].running = g[k].running /\ h[k].blocked = g[k].blocked
         /\ h[k].maxConcurrency = g[k].maxConcurrency
         /\ h[k].queue = IF k \in keys THEN Only(g[k].queue, Req \ out) ELSE g[k].queue
         /\ h[k].cleanup <=> g[k].cleanup \/ (k \in keys /\ Idle(h[k]))

LEMMA GatesUnlinked ==
    ASSUME NEW D, NEW g \in [D -> GateType], NEW out, NEW keys
    PROVE  /\ RemoveRequests(g, out, keys) \in [D -> GateType]
           /\ Unlinked(g, RemoveRequests(g, out, keys), out, keys)
<1> DEFINE mid == [k \in D |->
                      IF k \in keys THEN [g[k] EXCEPT !.queue = Only(@, Req \ out)] ELSE g[k]]
           h == ScheduleCleanup(mid, keys)
<1>1. RemoveRequests(g, out, keys) = h
  BY DEF RemoveRequests, OnGates
<1>2. ASSUME NEW k \in D
      PROVE  /\ mid[k] \in GateType
             /\ mid[k].running = g[k].running /\ mid[k].cleanup = g[k].cleanup
             /\ mid[k].blocked = g[k].blocked /\ mid[k].maxConcurrency = g[k].maxConcurrency
             /\ mid[k].queue = IF k \in keys THEN Only(g[k].queue, Req \ out) ELSE g[k].queue
  <2>1. g[k] \in GateType /\ g[k].queue \in Seq(Req)
    BY DEF GateType
  <2>2. Only(g[k].queue, Req \ out) \in Seq(Req)
    BY <2>1, OnlyProperties
  <2>3. CASE k \in keys
    <3>1. mid[k] = [g[k] EXCEPT !.queue = Only(@, Req \ out)]
      BY <2>3
    <3> HIDE DEF mid
    <3> QED BY <2>1, <2>2, <2>3, <3>1 DEF GateType
  <2>4. CASE k \notin keys
    <3>1. mid[k] = g[k]
      BY <2>4
    <3> HIDE DEF mid
    <3> QED BY <2>1, <2>4, <3>1
  <2> QED BY <2>3, <2>4
<1>3. mid \in [D -> GateType] /\ DOMAIN mid = D /\ DOMAIN g = D
  BY <1>2
<1> HIDE DEF mid
<1>4. h \in [D -> GateType] /\ Scheduled(mid, h, keys)
  BY <1>3, GatesScheduled
<1> HIDE DEF h
<1>5. ASSUME NEW k \in D
      PROVE  /\ h[k].running = g[k].running /\ h[k].blocked = g[k].blocked
             /\ h[k].maxConcurrency = g[k].maxConcurrency
             /\ h[k].queue = IF k \in keys THEN Only(g[k].queue, Req \ out) ELSE g[k].queue
             /\ h[k].cleanup <=> g[k].cleanup \/ (k \in keys /\ Idle(h[k]))
  <2>1. /\ h[k].running = mid[k].running /\ h[k].queue = mid[k].queue
        /\ h[k].blocked = mid[k].blocked /\ h[k].maxConcurrency = mid[k].maxConcurrency
        /\ h[k].cleanup <=> mid[k].cleanup \/ (k \in keys /\ Idle(mid[k]))
    BY <1>3, <1>4 DEF Scheduled
  <2>2. Idle(h[k]) <=> Idle(mid[k])
    BY <2>1 DEF Idle
  <2> QED BY <1>2, <2>1, <2>2
<1>6. DOMAIN h = DOMAIN g
  BY <1>4
<1> QED BY <1>1, <1>3, <1>4, <1>5, <1>6 DEF Unlinked

\* Waiters that leave every queue they stand in.
LEMMA BooksUnlinked ==
    ASSUME NEW g, NEW q, NEW ph, NEW need, NEW fg, NEW rb, Books(g, q, ph, need, fg, rb),
           NEW out \in SUBSET ToSet(q), NEW keys, \A r \in out : need[r] \subseteq keys,
           NEW now \in [Req -> Phases],
           \A r \in Req : now[r] = IF r \in out THEN "idle" ELSE ph[r]
    PROVE  /\ Books(RemoveRequests(g, out, keys), Only(q, Req \ out), now, need, fg, rb)
           /\ Unlinked(g, RemoveRequests(g, out, keys), out, keys)
<1> DEFINE h == RemoveRequests(g, out, keys)
           left == Only(q, Req \ out)
<1>1. /\ g \in [DOMAIN g -> GateType] /\ q \in Seq(Req) /\ NoRepeats(q)
      /\ ToSet(q) = {r \in Req : ph[r] = "waiting"}
  BY DEF Books, Lines, Callers
<1>2. h \in [DOMAIN g -> GateType] /\ Unlinked(g, h, out, keys)
  BY <1>1, GatesUnlinked
<1> HIDE DEF h
<1>3. DOMAIN h = DOMAIN g
  BY <1>2
<1>4. /\ left \in Seq(Req) /\ ToSet(left) = ToSet(q) \cap (Req \ out)
      /\ \A a, b : Precedes(left, a, b) => Precedes(q, a, b)
  BY <1>1, OnlyProperties
<1>5. NoRepeats(left)
  BY <1>1, <1>4 DEF NoRepeats
<1>6. ASSUME NEW k \in DOMAIN h PROVE h[k].queue = Only(left, Needing(need, k))
  <2>1. g[k].queue = Only(q, Needing(need, k))
    BY <1>3 DEF Books, Lines
  <2>2. Only(left, Needing(need, k)) = Only(q, (Req \ out) \cap Needing(need, k))
    BY <1>1, OnlyOnly
  <2>3. CASE k \in keys
    <3>1. h[k].queue = Only(Only(q, Needing(need, k)), Req \ out)
      BY <1>2, <1>3, <2>1, <2>3 DEF Unlinked
    <3>2. h[k].queue = Only(q, Needing(need, k) \cap (Req \ out))
      BY <1>1, <3>1, OnlyOnly
    <3>3. Needing(need, k) \cap (Req \ out) = (Req \ out) \cap Needing(need, k)
      OBVIOUS
    <3> QED BY <2>2, <3>2, <3>3
  <2>4. CASE k \notin keys
    <3>1. h[k].queue = Only(q, Needing(need, k))
      BY <1>2, <1>3, <2>1, <2>4 DEF Unlinked
    <3>2. (Req \ out) \cap Needing(need, k) = Needing(need, k)
      BY <2>4 DEF Needing
    <3> QED BY <2>2, <3>1, <3>2
  <2> QED BY <2>3, <2>4
<1>7. Lines(h, left, need)
  <2>1. \A r \in ToSet(left) : need[r] \subseteq DOMAIN h
    BY <1>3, <1>4 DEF Books, Lines
  <2> QED BY <1>2, <1>3, <1>4, <1>5, <1>6, <2>1 DEF Books, Lines
<1>8. Callers(left, now, fg)
  <2>1. ToSet(left) = {r \in Req : now[r] = "waiting"}
    BY <1>1, <1>4
  <2>2. \A r \in Req : now[r] # "holding" => fg[r] = {}
    BY <1>1 DEF Books, Callers
  <2> QED BY <2>1, <2>2 DEF Books, Callers
<1>9. Counts(h, now, need, fg, rb)
  <2>1. \A r \in Req : now[r] = "holding" <=> ph[r] = "holding"
    BY <1>1
  <2>2. \A k : HoldersOf(now, need, fg, k) = HoldersOf(ph, need, fg, k)
    BY <2>1 DEF HoldersOf
  <2>3. \A k \in DOMAIN g : h[k].running = g[k].running
    BY <1>2 DEF Unlinked
  <2> QED BY <1>3, <2>1, <2>2, <2>3 DEF Books, Counts
<1>10. Books(h, left, now, need, fg, rb)
  BY <1>3, <1>7, <1>8, <1>9 DEF Books
<1> QED BY <1>2, <1>10 DEF h

\* A caller that takes its place at the end of the line.
LEMMA BooksPushed ==
    ASSUME NEW g, NEW q, NEW ph, NEW need, NEW fg, NEW rb, Books(g, q, ph, need, fg, rb),
           NEW r \in Req, ph[r] = "idle", need[r] \subseteq DOMAIN g,
           NEW h, h = [k \in DOMAIN g |-> IF k \in need[r]
                                          THEN [g[k] EXCEPT !.queue = Append(@, r)] ELSE g[k]]
    PROVE  Books(h, Append(q, r), [ph EXCEPT ![r] = "waiting"], need, fg, rb)
<1> DEFINE now == [ph EXCEPT ![r] = "waiting"]
           line == Append(q, r)
<1>1. /\ g \in [DOMAIN g -> GateType] /\ q \in Seq(Req) /\ NoRepeats(q)
      /\ ToSet(q) = {x \in Req : ph[x] = "waiting"} /\ ph \in [Req -> Phases]
  BY DEF Books, Lines, Callers
<1>2. now \in [Req -> Phases] /\ \A x \in Req : now[x] = IF x = r THEN "waiting" ELSE ph[x]
  BY <1>1 DEF Phases
<1> HIDE DEF now
<1>3. DOMAIN h = DOMAIN g
  OBVIOUS
<1>4. ASSUME NEW k \in DOMAIN g
      PROVE  /\ h[k] \in GateType /\ h[k].running = g[k].running
             /\ h[k].queue = IF k \in need[r] THEN Append(g[k].queue, r) ELSE g[k].queue
  <2>1. g[k] \in GateType /\ g[k].queue \in Seq(Req)
    BY <1>1 DEF GateType
  <2>2. Append(g[k].queue, r) \in Seq(Req)
    BY <2>1, AppendQueue
  <2>3. CASE k \in need[r]
    <3>1. h[k] = [g[k] EXCEPT !.queue = Append(@, r)]
      BY <2>3
    <3> QED BY <2>1, <2>2, <2>3, <3>1 DEF GateType
  <2>4. CASE k \notin need[r]
    BY <2>1, <2>4
  <2> QED BY <2>3, <2>4
<1>5. h \in [DOMAIN h -> GateType]
  BY <1>3, <1>4
<1>6. /\ line \in Seq(Req) /\ ToSet(line) = ToSet(q) \cup {r}
      /\ \A a, b : Precedes(line, a, b) <=> Precedes(q, a, b) \/ (a \in ToSet(q) /\ b = r)
  BY <1>1, AppendQueue
<1>7. r \notin ToSet(q)
  BY <1>1
<1>8. NoRepeats(line)
  <2>1. \A a, b : Precedes(q, a, b) => a \in ToSet(q) /\ b \in ToSet(q)
    BY <1>1, HeadPrecedes
  <2> QED BY <1>1, <1>6, <1>7, <2>1 DEF NoRepeats
<1>9. ASSUME NEW k \in DOMAIN h PROVE h[k].queue = Only(line, Needing(need, k))
  <2>1. g[k].queue = Only(q, Needing(need, k))
    BY <1>3 DEF Books, Lines
  <2>2. Only(line, Needing(need, k)) = IF r \in Needing(need, k)
                                       THEN Append(Only(q, Needing(need, k)), r)
                                       ELSE Only(q, Needing(need, k))
    BY <1>1, OnlyAppend
  <2>3. r \in Needing(need, k) <=> k \in need[r]
    BY DEF Needing
  <2> QED BY <1>3, <1>4, <2>1, <2>2, <2>3
<1> HIDE DEF line
<1>10. Lines(h, line, need)
  <2>1. \A x \in ToSet(line) : need[x] \subseteq DOMAIN h
    BY <1>3, <1>6 DEF Books, Lines
  <2> QED BY <1>5, <1>6, <1>8, <1>9, <2>1 DEF Books, Lines
<1>11. Callers(line, now, fg)
  <2>1. ToSet(line) = {x \in Req : now[x] = "waiting"}
    BY <1>1, <1>2, <1>6
  <2>2. \A x \in Req : now[x] # "holding" => fg[x] = {}
    BY <1>2 DEF Books, Callers
  <2> QED BY <1>2, <2>1, <2>2 DEF Books, Callers
<1>12. Counts(h, now, need, fg, rb)
  <2>1. \A x \in Req : now[x] = "holding" <=> ph[x] = "holding"
    BY <1>2
  <2>2. \A k : HoldersOf(now, need, fg, k) = HoldersOf(ph, need, fg, k)
    BY <2>1 DEF HoldersOf
  <2> QED BY <1>3, <1>4, <2>1, <2>2 DEF Books, Counts
<1>13. Books(h, line, now, need, fg, rb)
  BY <1>3, <1>10, <1>11, <1>12 DEF Books
<1> QED BY <1>13 DEF line, now

\* A caller that is let in at once.
LEMMA BooksTaken ==
    ASSUME NEW g, NEW q, NEW ph, NEW need, NEW fg, NEW rb, Books(g, q, ph, need, fg, rb),
           NEW r \in Req, ph[r] = "idle", need[r] \subseteq DOMAIN g,
           CanAcquireImmediately(need[r], g)
    PROVE  /\ Books(TakeSlots(g, need[r]), q, [ph EXCEPT ![r] = "holding"], need, fg, rb)
           /\ Fits(TakeSlots(g, need[r]), [ph EXCEPT ![r] = "holding"], need, fg, rb, {r})
<1> DEFINE now == [ph EXCEPT ![r] = "holding"]
           h == [k \in DOMAIN g |-> IF k \in need[r] THEN [g[k] EXCEPT !.running = @ + 1] ELSE g[k]]
<1>0. TakeSlots(g, need[r]) = h
  BY DEF TakeSlots, OnGates
<1>1. /\ g \in [DOMAIN g -> GateType] /\ q \in Seq(Req) /\ ph \in [Req -> Phases]
      /\ ToSet(q) = {x \in Req : ph[x] = "waiting"} /\ fg[r] = {}
  BY DEF Books, Lines, Callers
<1>2. now \in [Req -> Phases] /\ \A x \in Req : now[x] = IF x = r THEN "holding" ELSE ph[x]
  BY <1>1 DEF Phases
<1> HIDE DEF now
<1>3. DOMAIN h = DOMAIN g
  OBVIOUS
<1>4. ASSUME NEW k \in DOMAIN g
      PROVE  /\ h[k] \in GateType /\ h[k].queue = g[k].queue /\ h[k].blocked = g[k].blocked
             /\ h[k].maxConcurrency = g[k].maxConcurrency
             /\ h[k].running = IF k \in need[r] THEN g[k].running + 1 ELSE g[k].running
             /\ g[k].running \in Nat /\ g[k].maxConcurrency \in Nat
  <2>1. g[k] \in GateType /\ g[k].running \in Nat /\ g[k].maxConcurrency \in Nat
    BY <1>1 DEF GateType
  <2>2. CASE k \in need[r]
    <3>1. h[k] = [g[k] EXCEPT !.running = @ + 1]
      BY <2>2
    <3>2. g[k].running + 1 \in Nat
      BY <2>1
    <3> HIDE DEF h
    <3> QED BY <2>1, <2>2, <3>1, <3>2 DEF GateType
  <2>3. CASE k \notin need[r]
    BY <2>1, <2>3
  <2> QED BY <2>2, <2>3
<1>5. h \in [DOMAIN h -> GateType]
  BY <1>3, <1>4
<1> HIDE DEF h
<1>6. Lines(h, q, need)
  BY <1>3, <1>4, <1>5 DEF Books, Lines
<1>7. Callers(q, now, fg)
  <2>1. ToSet(q) = {x \in Req : now[x] = "waiting"}
    BY <1>1, <1>2
  <2>2. \A x \in Req : now[x] # "holding" => fg[x] = {}
    BY <1>2 DEF Books, Callers
  <2> QED BY <1>2, <2>1, <2>2 DEF Books, Callers
<1>8. ASSUME NEW k \in DOMAIN g
      PROVE  Cardinality(HoldersOf(now, need, fg, k))
                = IF k \in need[r] THEN Cardinality(HoldersOf(ph, need, fg, k)) + 1
                                   ELSE Cardinality(HoldersOf(ph, need, fg, k))
  <2>1. CASE k \in need[r]
    <3>1. /\ HoldersOf(now, need, fg, k) = HoldersOf(ph, need, fg, k) \cup {r}
          /\ r \notin HoldersOf(ph, need, fg, k)
      BY <1>1, <1>2, <2>1 DEF HoldersOf
    <3> QED BY <2>1, <3>1, HoldersFinite, FS_AddElement
  <2>2. CASE k \notin need[r]
    <3>1. HoldersOf(now, need, fg, k) = HoldersOf(ph, need, fg, k)
      BY <1>2, <2>2 DEF HoldersOf
    <3> QED BY <2>2, <3>1
  <2> QED BY <2>1, <2>2
<1>9. ASSUME NEW k \in DOMAIN h
      PROVE  /\ h[k].running <= Cardinality(HoldersOf(now, need, fg, k))
             /\ k \notin rb => h[k].running = Cardinality(HoldersOf(now, need, fg, k))
  <2> DEFINE before == Cardinality(HoldersOf(ph, need, fg, k))
             after == Cardinality(HoldersOf(now, need, fg, k))
  <2>1. /\ before \in Nat /\ after = IF k \in need[r] THEN before + 1 ELSE before
        /\ g[k].running \in Nat
        /\ h[k].running = IF k \in need[r] THEN g[k].running + 1 ELSE g[k].running
    BY <1>3, <1>4, <1>8, HoldersFinite
  <2>2. g[k].running <= before /\ (k \notin rb => g[k].running = before)
    BY <1>3 DEF Books, Counts
  <2> HIDE DEF before, after
  <2>3. h[k].running <= after /\ (k \notin rb => h[k].running = after)
    BY <2>1, <2>2
  <2> QED BY <2>3 DEF after
<1>10. Counts(h, now, need, fg, rb)
  <2>1. ASSUME NEW x \in Req, now[x] = "holding"
        PROVE  need[x] \ (fg[x] \cup rb) \subseteq DOMAIN h
    BY <1>2, <1>3, <2>1 DEF Books, Counts
  <2> QED BY <1>9, <2>1 DEF Books, Counts
<1>11. Fits(h, now, need, fg, rb, {r})
  <2> SUFFICES ASSUME NEW k \in need[r]
               PROVE  /\ k \in DOMAIN h /\ h[k].running > 0 /\ ~h[k].blocked
                      /\ \/ k \in rb
                         \/ Cardinality(HoldersOf(now, need, fg, k)) <= h[k].maxConcurrency
    BY DEF Fits
  <2>1. ~g[k].blocked /\ g[k].running < g[k].maxConcurrency /\ k \in DOMAIN g
    BY DEF CanAcquireImmediately, HasRoom
  <2>2. /\ h[k].running > 0 /\ h[k].running <= h[k].maxConcurrency /\ ~h[k].blocked
    BY <1>4, <2>1
  <2> QED BY <1>3, <1>9, <2>1, <2>2
<1>12. Books(h, q, now, need, fg, rb)
  BY <1>3, <1>6, <1>7, <1>10 DEF Books
<1> QED BY <1>0, <1>11, <1>12 DEF now
\* A holder that gives back its slots.  A gate that came back after a reset may
\* lose a slot it has not given; it is on the list rb from then on.
LEMMA BooksGiven ==
    ASSUME NEW g, NEW q, NEW ph, NEW need, NEW fg, NEW rb, Books(g, q, ph, need, fg, rb),
           NEW r \in Req, ph[r] = "holding"
    PROVE  Books(GiveSlots(g, need[r]), q, [ph EXCEPT ![r] = "idle"], need,
                 [fg EXCEPT ![r] = {}], rb \cup (fg[r] \cap DOMAIN g))
<1> DEFINE now == [ph EXCEPT ![r] = "idle"]
           fn == [fg EXCEPT ![r] = {}]
           rn == rb \cup (fg[r] \cap DOMAIN g)
           h == [k \in DOMAIN g |->
                    IF k \in need[r]
                    THEN [g[k] EXCEPT !.running = IF @ > 0 THEN @ - 1 ELSE @] ELSE g[k]]
<1>0. GiveSlots(g, need[r]) = h
  BY DEF GiveSlots, OnGates
<1>1. /\ g \in [DOMAIN g -> GateType] /\ ph \in [Req -> Phases] /\ fg \in [Req -> SUBSET Key]
      /\ ToSet(q) = {x \in Req : ph[x] = "waiting"} /\ rb \subseteq Key
  BY DEF Books, Lines, Callers, Counts
<1>2. /\ now \in [Req -> Phases] /\ \A x \in Req : now[x] = IF x = r THEN "idle" ELSE ph[x]
      /\ fn \in [Req -> SUBSET Key] /\ \A x \in Req : fn[x] = IF x = r THEN {} ELSE fg[x]
  BY <1>1 DEF Phases
<1>3. rn \subseteq Key /\ rb \subseteq rn /\ fg[r] \cap DOMAIN g \subseteq rn /\ DOMAIN h = DOMAIN g
  BY <1>1
<1> HIDE DEF now, fn, rn
<1>4. ASSUME NEW k \in DOMAIN g
      PROVE  /\ h[k] \in GateType /\ h[k].queue = g[k].queue /\ g[k].running \in Nat
             /\ h[k].running = IF k \in need[r] /\ g[k].running > 0
                               THEN g[k].running - 1 ELSE g[k].running
  <2>1. g[k] \in GateType /\ g[k].running \in Nat
    BY <1>1 DEF GateType
  <2>2. CASE k \in need[r]
    <3> DEFINE left == IF g[k].running > 0 THEN g[k].running - 1 ELSE g[k].running
    <3>1. h[k] = [g[k] EXCEPT !.running = left]
      BY <2>2
    <3>2. left \in Nat
      BY <2>1
    <3> HIDE DEF h
    <3>3. h[k] \in GateType /\ h[k].queue = g[k].queue /\ h[k].running = left
      <4> HIDE DEF left
      <4> QED BY <2>1, <3>1, <3>2 DEF GateType
    <3> QED BY <2>1, <2>2, <3>3
  <2>3. CASE k \notin need[r]
    BY <2>1, <2>3
  <2> QED BY <2>2, <2>3
<1>5. h \in [DOMAIN h -> GateType]
  BY <1>3, <1>4
<1> HIDE DEF h
<1>6. Lines(h, q, need)
  BY <1>3, <1>4, <1>5 DEF Books, Lines
<1>7. Callers(q, now, fn)
  <2>1. ToSet(q) = {x \in Req : now[x] = "waiting"}
    BY <1>1, <1>2
  <2>2. \A x \in Req : now[x] # "holding" => fn[x] = {}
    BY <1>2 DEF Books, Callers
  <2> QED BY <1>2, <2>1, <2>2 DEF Callers
<1>8. ASSUME NEW k \in DOMAIN h
      PROVE  /\ h[k].running <= Cardinality(HoldersOf(now, need, fn, k))
             /\ k \notin rn => h[k].running = Cardinality(HoldersOf(now, need, fn, k))
  <2> DEFINE before == Cardinality(HoldersOf(ph, need, fg, k))
             after == Cardinality(HoldersOf(now, need, fn, k))
  <2>1. /\ before \in Nat /\ after \in Nat /\ g[k].running \in Nat
        /\ h[k].running = IF k \in need[r] /\ g[k].running > 0
                          THEN g[k].running - 1 ELSE g[k].running
    BY <1>3, <1>4, HoldersFinite
  <2>2. g[k].running <= before /\ (k \notin rb => g[k].running = before)
    BY <1>3 DEF Books, Counts
  <2>3. CASE k \in need[r] \ fg[r]
    <3>1. /\ HoldersOf(now, need, fn, k) = HoldersOf(ph, need, fg, k) \ {r}
          /\ r \in HoldersOf(ph, need, fg, k)
      BY <1>2, <2>3 DEF HoldersOf
    <3>2. after = before - 1
      BY <3>1, HoldersFinite, FS_RemoveElement
    <3> HIDE DEF before, after
    <3>3. h[k].running <= after /\ (k \notin rn => h[k].running = after)
      BY <1>3, <2>1, <2>2, <2>3, <3>2
    <3> QED BY <3>3 DEF after
  <2>4. CASE k \notin need[r] \ fg[r]
    <3>1. HoldersOf(now, need, fn, k) = HoldersOf(ph, need, fg, k)
      BY <1>2, <2>4 DEF HoldersOf
    <3>2. after = before
      BY <3>1
    <3>3. k \notin rn => k \notin rb /\ k \notin need[r]
      BY <1>3, <2>4
    <3> HIDE DEF before, after
    <3>4. h[k].running <= after /\ (k \notin rn => h[k].running = after)
      BY <2>1, <2>2, <3>2, <3>3
    <3> QED BY <3>4 DEF after
  <2> QED BY <2>3, <2>4
<1>9. Counts(h, now, need, fn, rn)
  <2>1. ASSUME NEW x \in Req, now[x] = "holding"
        PROVE  need[x] \ (fn[x] \cup rn) \subseteq DOMAIN h
    BY <1>2, <1>3, <2>1 DEF Books, Counts
  <2> QED BY <1>3, <1>8, <2>1 DEF Counts
<1>10. Books(h, q, now, need, fn, rn)
  BY <1>3, <1>6, <1>7, <1>9 DEF Books
<1> QED BY <1>0, <1>10 DEF now, fn, rn

\* h and fn are the gates and the forgotten keys after an operator has dropped
\* the gates of keys, at which nobody of q waits.
Forgotten(g, h, q, ph, need, fg, fn, keys) ==
    /\ \A r \in ToSet(q) : need[r] \cap keys = {}
    /\ DOMAIN h = DOMAIN g \ keys
    /\ \A k \in DOMAIN h : h[k] = g[k]
    /\ fn \in [Req -> SUBSET Key]
    /\ \A r \in Req : fn[r] = IF ph[r] = "holding"
                              THEN fg[r] \cup (keys \cap need[r]) ELSE fg[r]

LEMMA BooksForgot ==
    ASSUME NEW g, NEW q, NEW ph, NEW need, NEW fg, NEW rb, Books(g, q, ph, need, fg, rb),
           NEW keys, NEW fn, NEW h, h \in [DOMAIN h -> GateType],
           Forgotten(g, h, q, ph, need, fg, fn, keys)
    PROVE  Books(h, q, ph, need, fn, rb)
<1> USE DEF Forgotten
<1>1. Lines(h, q, need)
  BY DEF Books, Lines
<1>2. Callers(q, ph, fn)
  BY DEF Books, Callers
<1>3. \A k \in DOMAIN h : HoldersOf(ph, need, fn, k) = HoldersOf(ph, need, fg, k)
  BY DEF HoldersOf
<1>4. Counts(h, ph, need, fn, rb)
  <2>1. ASSUME NEW r \in Req, ph[r] = "holding"
        PROVE  need[r] \ (fn[r] \cup rb) \subseteq DOMAIN h
    BY <2>1 DEF Books, Counts
  <2> QED BY <1>3, <2>1 DEF Books, Counts
<1> QED BY <1>1, <1>2, <1>4 DEF Books

-----------------------------------------------------------------------------
(* The actions.                                                            *)

WithRoom ==
    \A r \in Req : phase[r] # "holding" /\ phase'[r] = "holding" =>
       \A k \in keysOf'[r] :
          /\ ~gates'[k].blocked
          /\ k \in robbed' \/ Cardinality(Holders(k)') <= gates'[k].maxConcurrency

InTurn ==
    \A r, q \in Req :
       /\ phase[r] # "holding" /\ phase'[r] = "holding"
       /\ phase[q] = "waiting" /\ phase'[q] = "waiting"
       /\ keysOf[q] \cap keysOf'[r] # {}
       => Precedes(queued, r, q)

\* A turn that makes somebody wait, or ends a wait or a hold, leaves no waiter
\* that could be admitted.
Repaired ==
    (\E r \in Req : /\ phase'[r] # phase[r]
                    /\ phase[r] = "idle" => phase'[r] = "waiting")
    => NoAdmissibleWaiter'

\* A turn that admits nobody admits with room and in turn.
LEMMA NobodyAdmitted ==
    ASSUME \A r \in Req : phase'[r] = "holding" => phase[r] = "holding"
    PROVE  WithRoom /\ InTurn
BY DEF WithRoom, InTurn

\* Calm operation, but for the timers of the gates of keys: no gate is blocked,
\* every limit is the configured one, an idle gate has its timer armed.
Calm(g, keys) ==
    \A k \in DOMAIN g : /\ ~g[k].blocked /\ g[k].maxConcurrency = CalmCaps[k]
                        /\ Idle(g[k]) /\ k \notin keys => g[k].cleanup

\* Draining keeps it: a gate that is idle afterwards has not been touched.
LEMMA DrainCalm ==
    ASSUME NEW g, NEW q, NEW ph, NEW need, NEW fg, NEW rb, Books(g, q, ph, need, fg, rb),
           NEW s, s = DrainQueues(g, q, need), NEW keys, Calm(g, keys)
    PROVE  Calm(s.gates, keys)
<1>1. Served(g, q, need, s) /\ Books(s.gates, s.queued, Admit(ph, s.admitted), need, fg, rb)
  BY DrainBooks
<1>2. DOMAIN s.gates = DOMAIN g
  BY <1>1 DEF Served, LoopState
<1> SUFFICES ASSUME NEW k \in DOMAIN g
             PROVE  /\ ~s.gates[k].blocked /\ s.gates[k].maxConcurrency = CalmCaps[k]
                    /\ Idle(s.gates[k]) /\ k \notin keys => s.gates[k].cleanup
  BY <1>2 DEF Calm
<1> DEFINE mine == s.admitted \cap Needing(need, k)
<1>3. GateServed(g[k], s.gates[k], mine)
  BY <1>1 DEF Served
<1>4. CASE mine = {}
  BY <1>3, <1>4 DEF GateServed, Calm
<1>5. CASE mine # {}
  <2>1. Cardinality(mine) \in Nat /\ Cardinality(mine) # 0
    <3>1. mine \in SUBSET Req
      BY DEF Needing
    <3> QED BY <1>5, <3>1, FiniteRequests, FS_EmptySet
  <2>2. g[k].running \in Nat
    BY DEF Books, Lines, GateType
  <2>3. s.gates[k].running = g[k].running + Cardinality(mine)
    BY <1>3 DEF GateServed
  <2> HIDE DEF mine
  <2>4. s.gates[k].running # 0
    BY <2>1, <2>2, <2>3
  <2> QED BY <1>3, <2>4 DEF GateServed, Idle, Calm
<1> QED BY <1>4, <1>5

LEMMA InitInv == Init => SemaphoreInv
<1> SUFFICES ASSUME Init PROVE SemaphoreInv
  OBVIOUS
<1>1. /\ gates = <<>> /\ queued = <<>> /\ phase = [r \in Req |-> "idle"]
      /\ keysOf = [r \in Req |-> {}] /\ forgotten = [r \in Req |-> {}] /\ robbed = {}
      /\ stray = {}
  BY DEF Init
<1>2. /\ queued \in Seq(Req) /\ ToSet(queued) = {} /\ \A a, b : ~Precedes(queued, a, b)
  BY <1>1, NothingQueued
<1>3. DOMAIN gates = {} /\ gates \in [DOMAIN gates -> GateType]
  BY <1>1, EmptySeq
<1>4. Lines(gates, queued, keysOf)
  BY <1>1, <1>2, <1>3 DEF Lines, NoRepeats
<1>5. Callers(queued, phase, forgotten)
  BY <1>1, <1>2 DEF Callers, Phases
<1>6. Counts(gates, phase, keysOf, forgotten, robbed)
  BY <1>1, <1>3 DEF Counts
<1> QED BY <1>1, <1>3, <1>4, <1>5, <1>6 DEF SemaphoreInv, Books
\* What a turn does to the gates after it has drained the queues: it may drop
\* idle ones and arm timers.
Settled(g, h) ==
    /\ DOMAIN h \subseteq DOMAIN g
    /\ \A k \in DOMAIN h : /\ h[k].running = g[k].running /\ h[k].queue = g[k].queue
                           /\ h[k].blocked = g[k].blocked
                           /\ h[k].maxConcurrency = g[k].maxConcurrency
    /\ \A k \in DOMAIN g \ DOMAIN h : g[k].running = 0

\* The end of every turn that drains the queues.
LEMMA DrainTurn ==
    ASSUME NEW g, NEW q, NEW ph, NEW need, NEW fg, NEW rb, Books(g, q, ph, need, fg, rb),
           NEW s, s = DrainQueues(g, q, need),
           Books(gates', s.queued, Admit(ph, s.admitted), need, fg, rb), Settled(s.gates, gates'),
           queued' = s.queued, phase' = Admit(ph, s.admitted),
           forgotten' = fg, robbed' = rb, stray' \subseteq Key,
           keysOf' \in [Req -> SUBSET Key],
           \A r \in Req : phase'[r] # "idle" => keysOf'[r] = need[r],
           \A r \in Req : ph[r] = "holding" => phase[r] = "holding",
           \A r \in Req : phase[r] = "waiting" => keysOf[r] = need[r],
           \A a, b \in Req : phase[b] = "waiting" /\ Precedes(q, a, b) => Precedes(queued, a, b)
    PROVE  SemaphoreInv' /\ WithRoom /\ InTurn /\ NoAdmissibleWaiter'
<1> DEFINE now == Admit(ph, s.admitted)
<1>1. /\ Fits(s.gates, now, need, fg, rb, s.admitted)
      /\ Served(g, q, need, s) /\ Stuck(s, need)
  BY DrainBooks
<1>2. \A r \in Req : now[r] = IF r \in s.admitted THEN "holding" ELSE ph[r]
  BY DEF Admit
<1>3. /\ Books(gates', s.queued, now, keysOf', fg, rb)
      /\ \A k : HoldersOf(now, keysOf', fg, k) = HoldersOf(now, need, fg, k)
  <2> HIDE DEF now
  <2>1. Books(gates', s.queued, now, need, fg, rb) /\ \A r \in Req : now[r] # "idle" => keysOf'[r] = need[r]
    BY DEF now
  <2> QED BY <2>1, BooksSameNeeds
<1>4. SemaphoreInv'
  BY <1>3 DEF SemaphoreInv
<1> HIDE DEF now
<1>5. phase' = now
  BY DEF now
<1>6. ASSUME NEW r \in Req, phase[r] # "holding", phase'[r] = "holding"
      PROVE  r \in s.admitted /\ keysOf'[r] = need[r]
  BY <1>2, <1>5, <1>6
<1>7. ASSUME NEW r \in Req, phase[r] # "holding", phase'[r] = "holding", NEW k \in keysOf'[r]
      PROVE  /\ ~gates'[k].blocked
             /\ k \in robbed' \/ Cardinality(Holders(k)') <= gates'[k].maxConcurrency
  <2>1. /\ k \in DOMAIN s.gates /\ s.gates[k].running > 0 /\ ~s.gates[k].blocked
        /\ k \in rb \/ Cardinality(HoldersOf(now, need, fg, k)) <= s.gates[k].maxConcurrency
    BY <1>1, <1>6, <1>7 DEF Fits
  <2>2. s.gates[k].running # 0
    BY <2>1
  <2>3. /\ gates'[k].blocked = s.gates[k].blocked
        /\ gates'[k].maxConcurrency = s.gates[k].maxConcurrency
    BY <2>1, <2>2 DEF Settled
  <2>4. Holders(k)' = HoldersOf(now, need, fg, k)
    <3>1. Holders(k)' = HoldersOf(now, keysOf', fg, k)
      BY <1>5 DEF Holders, HoldersOf
    <3> QED BY <1>3, <3>1
  <2> QED BY <2>1, <2>3, <2>4
<1>8. ASSUME NEW r \in Req, NEW w \in Req, phase[r] # "holding", phase'[r] = "holding",
             phase[w] = "waiting", phase'[w] = "waiting", keysOf[w] \cap keysOf'[r] # {}
      PROVE  Precedes(queued, r, w)
  <2>1. w \in ToSet(s.queued)
    <3>1. ToSet(s.queued) = {x \in Req : now[x] = "waiting"}
      BY <1>3 DEF Books, Callers
    <3> QED BY <1>5, <1>8, <3>1
  <2>2. need[r] \cap need[w] # {}
    BY <1>6, <1>8
  <2>3. Precedes(q, r, w)
    BY <1>1, <1>6, <1>8, <2>1, <2>2 DEF Served, InOrder
  <2> QED BY <1>8, <2>3
<1>9. ASSUME NEW r \in Waiting' PROVE ~CanAcquire(gates', r, keysOf'[r])
  <2>1. r \in Req /\ r \in ToSet(s.queued) /\ keysOf'[r] = need[r]
    <3>1. ToSet(s.queued) = {x \in Req : now[x] = "waiting"}
      BY <1>3 DEF Books, Callers
    <3> QED BY <1>5, <3>1 DEF Waiting
  <2>2. PICK k \in need[r] : ~(/\ k \in DOMAIN s.gates /\ HasRoom(s.gates[k])
                              /\ s.gates[k].queue # <<>> /\ Head(s.gates[k].queue) = r)
    BY <1>1, <2>1 DEF Stuck, CanAcquire
  <2>3. ~(/\ k \in DOMAIN gates' /\ HasRoom(gates'[k])
          /\ gates'[k].queue # <<>> /\ Head(gates'[k].queue) = r)
    BY <2>2 DEF Settled, HasRoom
  <2> QED BY <2>1, <2>3 DEF CanAcquire
<1> QED BY <1>4, <1>7, <1>8, <1>9 DEF WithRoom, InTurn, NoAdmissibleWaiter
LEMMA InvFacts ==
    ASSUME SemaphoreInv
    PROVE  /\ Books(gates, queued, phase, keysOf, forgotten, robbed)
           /\ gates \in [DOMAIN gates -> GateType] /\ DOMAIN gates \subseteq Key
           /\ queued \in Seq(Req) /\ ToSet(queued) = Waiting
           /\ phase \in [Req -> Phases] /\ keysOf \in [Req -> SUBSET Key]
           /\ forgotten \in [Req -> SUBSET Key] /\ robbed \subseteq Key /\ stray \subseteq Key
           /\ \A r \in Req : phase[r] # "holding" => forgotten[r] = {}
BY DEF SemaphoreInv, Books, Lines, Callers, Counts, Waiting

LEMMA SettledSteps ==
    ASSUME NEW g, NEW h, NEW keys
    PROVE  /\ Settled(g, g)
           /\ Scheduled(g, h, keys) => Settled(g, h)
           /\ Dropped(g, h, keys) => Settled(g, h)
BY DEF Settled, Scheduled, Dropped, Idle

\* A caller that asks for gates of any limits, under any policy.
LEMMA AcquireStep ==
    ASSUME SemaphoreInv, NEW r \in Req, NEW keys \in SUBSET Key, NEW caps,
           \A k \in keys : caps[k] \in Nat \ {0}, NEW policy, AcquireMany(r, keys, caps, policy)
    PROVE  /\ SemaphoreInv' /\ WithRoom /\ InTurn /\ Repaired
           /\ caps = CalmCaps /\ policy = Patient /\ Calm(gates, {}) /\ NoAdmissibleWaiter
                 => Calm(gates', {}) /\ NoAdmissibleWaiter'
<1> DEFINE g == EnsureGates(gates, keys, caps)
           need == [keysOf EXCEPT ![r] = keys]
<1>1. phase[r] = "idle" /\ forgotten[r] = {}
  BY InvFacts DEF AcquireMany
<1>2. /\ need \in [Req -> SUBSET Key] /\ need[r] = keys
      /\ \A x \in Req : x # r => need[x] = keysOf[x]
  BY InvFacts
<1> HIDE DEF need
<1>3. Books(g, queued, phase, keysOf, forgotten, robbed) /\ Ensured(gates, g, keys, caps)
  BY InvFacts, BooksEnsured
<1> HIDE DEF g
<1>4. Books(g, queued, phase, need, forgotten, robbed) /\ need[r] \subseteq DOMAIN g
  <2>1. \A x \in Req : phase[x] # "idle" => need[x] = keysOf[x]
    BY <1>1, <1>2
  <2> QED BY <1>2, <1>3, <2>1, BooksSameNeeds DEF Ensured
<1>5. caps = CalmCaps /\ Calm(gates, {}) => Calm(g, keys)
  BY <1>3 DEF Ensured, Calm, NewGate
<1>6. CASE AcquireNow(r, keys, g)
  <2>1. /\ CanAcquireImmediately(need[r], g) /\ gates' = TakeSlots(g, need[r])
        /\ phase' = [phase EXCEPT ![r] = "holding"] /\ keysOf' = need
        /\ queued' = queued /\ stray' = stray /\ forgotten' = forgotten /\ robbed' = robbed
    BY <1>2, <1>6 DEF AcquireNow, history, need
  <2>2. /\ Books(gates', queued', phase', keysOf', forgotten', robbed')
        /\ Fits(gates', phase', keysOf', forgotten', robbed', {r})
    BY <1>1, <1>4, <2>1, BooksTaken
  <2>3. SemaphoreInv'
    BY <2>1, <2>2, InvFacts DEF SemaphoreInv
  <2>4. \A x \in Req : phase[x] # "holding" /\ phase'[x] = "holding" => x = r
    BY <1>1, <2>1, InvFacts
  <2>5. \A k : Holders(k)' = HoldersOf(phase', keysOf', forgotten', k)
    BY DEF Holders, HoldersOf
  <2>6. WithRoom
    BY <2>2, <2>4, <2>5 DEF WithRoom, Fits
  <2>7. ASSUME NEW w \in Req, phase[w] = "waiting", NEW k \in keysOf[w], k \in keysOf'[r]
        PROVE  FALSE
    <3>1. w \in ToSet(queued) /\ need[w] = keysOf[w] /\ k \in need[r]
      BY <1>1, <1>2, <2>1, <2>7, InvFacts DEF Waiting
    <3>2. g[k].queue = <<>> /\ g[k].queue = Only(queued, Needing(need, k))
      BY <1>4, <2>1, <3>1 DEF CanAcquireImmediately, Books, Lines
    <3>3. ToSet(Only(queued, Needing(need, k))) = ToSet(queued) \cap Needing(need, k)
      BY InvFacts, OnlyProperties
    <3> QED BY <2>7, <3>1, <3>2, <3>3, NothingQueued DEF Needing
  <2>8. InTurn
    BY <2>4, <2>7 DEF InTurn
  <2>9. ASSUME caps = CalmCaps, Calm(gates, {}), NoAdmissibleWaiter
        PROVE  Calm(gates', {}) /\ NoAdmissibleWaiter'
    <3>1. /\ DOMAIN gates' = DOMAIN g
          /\ \A k \in DOMAIN g : /\ k \notin keys => gates'[k] = g[k]
                                 /\ gates'[k].blocked = g[k].blocked
                                 /\ gates'[k].maxConcurrency = g[k].maxConcurrency
      <4>1. g \in [DOMAIN g -> GateType]
        BY <1>4 DEF Books, Lines
      <4> QED BY <1>2, <2>1, <4>1 DEF TakeSlots, OnGates, GateType
    <3>2. \A k \in keys : gates'[k].running > 0
      BY <1>2, <2>1, <2>2 DEF Fits
    <3>3. \A k \in keys : ~Idle(gates'[k])
      BY <3>2 DEF Idle
    <3>4. Calm(gates', {})
      BY <1>5, <2>9, <3>1, <3>3 DEF Calm
    <3>5. ASSUME NEW w \in Waiting', CanAcquire(gates', w, keysOf'[w]) PROVE FALSE
      <4>1. w \in Waiting /\ w # r /\ keysOf'[w] = keysOf[w]
        BY <1>1, <1>2, <2>1, InvFacts DEF Waiting
      <4>2. \A k \in keysOf[w] : k \notin keys /\ k \in DOMAIN gates
        BY <1>2, <2>1, <2>7, <4>1, InvFacts DEF Waiting, Books, Lines
      <4>3. \A k \in keysOf[w] : gates'[k] = gates[k]
        BY <1>3, <3>1, <4>2 DEF Ensured
      <4>4. CanAcquire(gates, w, keysOf[w])
        BY <3>5, <4>1, <4>2, <4>3 DEF CanAcquire
      <4> QED BY <2>9, <4>1, <4>4 DEF NoAdmissibleWaiter
    <3> QED BY <3>4, <3>5 DEF NoAdmissibleWaiter
  <2>10. Repaired
    BY <1>1, <2>1, InvFacts DEF Repaired
  <2> QED BY <2>3, <2>6, <2>8, <2>9, <2>10
<1>7. CASE AcquireRejected(keys, g, policy)
  <2>1. /\ gates' = g /\ queued' = queued /\ phase' = phase /\ keysOf' = keysOf
        /\ stray' = stray /\ forgotten' = forgotten /\ robbed' = robbed
    BY <1>7 DEF AcquireRejected, history
  <2>2. SemaphoreInv'
    BY <1>3, <2>1, InvFacts DEF SemaphoreInv
  <2>3. policy # Patient
    BY <1>7 DEF AcquireRejected, QueueRejects, Patient
  <2> QED BY <2>1, <2>2, <2>3, NobodyAdmitted DEF Repaired
<1>8. CASE AcquireQueued(r, keys, g, policy)
  <2> DEFINE h == [k \in DOMAIN g |-> IF k \in need[r]
                                      THEN [g[k] EXCEPT !.queue = Append(@, r)] ELSE g[k]]
             q == Append(queued, r)
             ph == [phase EXCEPT ![r] = "waiting"]
             s == DrainQueues(h, q, need)
  <2>1. /\ gates' = s.gates /\ queued' = s.queued /\ keysOf' = need
        /\ phase' = Admit(ph, s.admitted)
        /\ stray' = stray /\ forgotten' = forgotten /\ robbed' = robbed
    BY <1>2, <1>8 DEF AcquireQueued, OnGates, history, need
  <2>2. Books(h, q, ph, need, forgotten, robbed)
    BY <1>1, <1>4, BooksPushed
  <2>3. /\ \A x \in Req : ph[x] = "holding" => phase[x] = "holding"
        /\ \A x \in Req : phase[x] = "waiting" => x # r /\ keysOf[x] = need[x]
    BY <1>1, <1>2, InvFacts
  <2>4. \A a, b \in Req : phase[b] = "waiting" /\ Precedes(q, a, b) => Precedes(queued, a, b)
    BY <2>3, InvFacts, AppendQueue
  <2>5. Calm(g, keys) => Calm(h, {})
    <3>1. g \in [DOMAIN g -> GateType]
      BY <1>4 DEF Books, Lines
    <3>2. ASSUME NEW k \in DOMAIN g
          PROVE  /\ h[k].blocked = g[k].blocked /\ h[k].maxConcurrency = g[k].maxConcurrency
                 /\ k \in keys => h[k].queue # <<>>
                 /\ k \notin keys => h[k] = g[k]
      <4>1. g[k] \in GateType /\ g[k].queue \in Seq(Req)
        BY <3>1 DEF GateType
      <4>2. Append(g[k].queue, r) # <<>>
        <5>1. ToSet(Append(g[k].queue, r)) = ToSet(g[k].queue) \cup {r}
          BY <4>1, AppendQueue
        <5> QED BY <5>1, NothingQueued
      <4>3. CASE k \in keys
        <5>1. h[k] = [g[k] EXCEPT !.queue = Append(@, r)]
          BY <1>2, <4>3
        <5> QED BY <4>1, <4>2, <4>3, <5>1 DEF GateType
      <4> QED BY <1>2, <4>3
    <3>3. DOMAIN h = DOMAIN g
      OBVIOUS
    <3> HIDE DEF h
    <3> QED BY <3>2, <3>3 DEF Calm, Idle
  <2> HIDE DEF h, q, ph
  <2>6. Books(s.gates, s.queued, Admit(ph, s.admitted), need, forgotten, robbed)
    BY <2>2, DrainBooks
  <2> HIDE DEF s
  <2>7. s = DrainQueues(h, q, need)
    BY DEF s
  <2>8. caps = CalmCaps /\ Calm(gates, {}) => Calm(gates', {})
    BY <1>5, <2>1, <2>2, <2>7, <2>5, DrainCalm
  <2>9. SemaphoreInv' /\ WithRoom /\ InTurn /\ NoAdmissibleWaiter'
    <3>1. /\ queued' = s.queued /\ phase' = Admit(ph, s.admitted) /\ stray' \subseteq Key
          /\ forgotten' = forgotten /\ robbed' = robbed
          /\ Books(gates', s.queued, Admit(ph, s.admitted), need, forgotten, robbed)
          /\ Settled(s.gates, gates')
      BY <2>1, <2>6, SettledSteps, InvFacts
    <3>2. /\ keysOf' \in [Req -> SUBSET Key]
          /\ \A x \in Req : phase'[x] # "idle" => keysOf'[x] = need[x]
      BY <1>2, <2>1
    <3>3. \A x \in Req : phase[x] = "waiting" => keysOf[x] = need[x]
      BY <2>3
    <3> QED BY <2>2, <2>3, <2>4, <2>7, <3>1, <3>2, <3>3, DrainTurn
  <2> QED BY <2>8, <2>9 DEF Repaired
<1> QED BY <1>6, <1>7, <1>8 DEF AcquireMany, g

\* A waiter that gives up.
LEMMA GiveUpStep ==
    ASSUME SemaphoreInv, NEW r \in Req, GiveUp(r)
    PROVE  /\ SemaphoreInv' /\ WithRoom /\ InTurn /\ NoAdmissibleWaiter'
           /\ (Calm(gates, {}) => Calm(gates', {}))
<1> DEFINE g == RemoveRequests(gates, {r}, keysOf[r])
           q == Only(queued, Req \ {r})
           ph == [phase EXCEPT ![r] = "idle"]
           s == DrainQueues(g, q, keysOf)
<1>1. /\ phase[r] = "waiting" /\ gates' = s.gates /\ queued' = s.queued
      /\ phase' = Admit(ph, s.admitted) /\ keysOf' = [keysOf EXCEPT ![r] = {}]
      /\ stray' = stray /\ forgotten' = forgotten /\ robbed' = robbed
  BY DEF GiveUp, RemoveRequest, history
<1>2. ph \in [Req -> Phases] /\ \A x \in Req : ph[x] = IF x \in {r} THEN "idle" ELSE phase[x]
  BY InvFacts DEF Phases
<1>3. Books(g, q, ph, keysOf, forgotten, robbed) /\ Unlinked(gates, g, {r}, keysOf[r])
  <2>1. {r} \in SUBSET ToSet(queued) /\ \A x \in {r} : keysOf[x] \subseteq keysOf[r]
    BY <1>1, InvFacts DEF Waiting
  <2>2. Unlinked(gates, g, {r}, keysOf[r])
    BY InvFacts, GatesUnlinked
  <2> HIDE DEF ph
  <2>3. Books(g, q, ph, keysOf, forgotten, robbed)
    BY <1>2, <2>1, BooksUnlinked, InvFacts
  <2> QED BY <2>2, <2>3
<1>4. \A a, b : Precedes(q, a, b) => Precedes(queued, a, b)
  BY InvFacts, OnlyProperties
<1>5. r \notin s.admitted
  <2>1. s.admitted \subseteq ToSet(q)
    BY <1>3, DrainBooks DEF Served
  <2>2. ToSet(q) = ToSet(queued) \cap (Req \ {r})
    BY InvFacts, OnlyProperties
  <2> QED BY <2>1, <2>2
<1>6. Books(s.gates, s.queued, Admit(ph, s.admitted), keysOf, forgotten, robbed)
  BY <1>3, DrainBooks
<1>7. Calm(gates, {}) => Calm(gates', {})
  <2> SUFFICES ASSUME Calm(gates, {}) PROVE Calm(gates', {})
    OBVIOUS
  <2> HIDE DEF g, q, ph, s
  <2>1. Calm(g, {})
    BY <1>3 DEF Calm, Unlinked, Idle
  <2>2. s = DrainQueues(g, q, keysOf)
    BY DEF s
  <2> QED BY <1>1, <1>3, <2>1, <2>2, DrainCalm
<1> HIDE DEF g, q, ph, s
<1>8. s = DrainQueues(g, q, keysOf)
  BY DEF s
<1>9. /\ keysOf' \in [Req -> SUBSET Key]
      /\ \A x \in Req : phase'[x] # "idle" => keysOf'[x] = keysOf[x]
  BY <1>1, <1>2, <1>5, InvFacts DEF Admit
<1>10. /\ \A x \in Req : ph[x] = "holding" => phase[x] = "holding"
      /\ Books(gates', s.queued, Admit(ph, s.admitted), keysOf, forgotten, robbed)
      /\ Settled(s.gates, gates') /\ stray' \subseteq Key
  BY <1>1, <1>2, <1>6, SettledSteps, InvFacts
<1>11. \A a, b \in Req : phase[b] = "waiting" /\ Precedes(q, a, b) => Precedes(queued, a, b)
  BY <1>4
<1>12. /\ queued' = s.queued /\ phase' = Admit(ph, s.admitted)
       /\ forgotten' = forgotten /\ robbed' = robbed
       /\ \A x \in Req : phase[x] = "waiting" => keysOf[x] = keysOf[x]
  BY <1>1
<1> QED BY <1>3, <1>8, <1>9, <1>10, <1>11, <1>12, <1>7, DrainTurn
LEMMA BooksScheduled ==
    ASSUME NEW g, NEW q, NEW ph, NEW need, NEW fg, NEW rb, Books(g, q, ph, need, fg, rb), NEW keys
    PROVE  /\ Books(ScheduleCleanup(g, keys), q, ph, need, fg, rb)
           /\ Scheduled(g, ScheduleCleanup(g, keys), keys)
<1> DEFINE h == ScheduleCleanup(g, keys)
<1>1. g \in [DOMAIN g -> GateType]
  BY DEF Books, Lines
<1>2. h \in [DOMAIN g -> GateType] /\ Scheduled(g, h, keys)
  BY <1>1, GatesScheduled
<1> HIDE DEF h
<1>3. \A k \in DOMAIN g : h[k].running = g[k].running /\ h[k].queue = g[k].queue
  BY <1>2 DEF Scheduled
<1>4. Books(h, q, ph, need, fg, rb)
  BY <1>2, <1>3, BooksSameCounts
<1> QED BY <1>2, <1>4 DEF h

\* A holder that releases.
LEMMA ReleaseStep ==
    ASSUME SemaphoreInv, NEW r \in Req, Release(r)
    PROVE  /\ SemaphoreInv' /\ WithRoom /\ InTurn /\ NoAdmissibleWaiter'
           /\ (Calm(gates, {}) => Calm(gates', {}))
<1> DEFINE g == GiveSlots(gates, keysOf[r])
           ph == [phase EXCEPT ![r] = "idle"]
           fg == [forgotten EXCEPT ![r] = {}]
           rb == robbed \cup (forgotten[r] \cap DOMAIN gates)
           s == DrainQueues(g, queued, keysOf)
<1>1. /\ phase[r] = "holding" /\ gates' = ScheduleCleanup(s.gates, keysOf[r])
      /\ queued' = s.queued /\ phase' = Admit(ph, s.admitted)
      /\ keysOf' = [keysOf EXCEPT ![r] = {}]
      /\ stray' = stray /\ forgotten' = fg /\ robbed' = rb
  BY DEF Release
<1>2. ph \in [Req -> Phases] /\ \A x \in Req : ph[x] = IF x = r THEN "idle" ELSE phase[x]
  BY InvFacts DEF Phases
<1>3. Books(g, queued, ph, keysOf, fg, rb)
  BY <1>1, BooksGiven, InvFacts
<1>4. Calm(gates, {}) => Calm(g, keysOf[r])
  <2>1. /\ DOMAIN g = DOMAIN gates
        /\ \A k \in DOMAIN gates : /\ k \notin keysOf[r] => g[k] = gates[k]
                                   /\ g[k].blocked = gates[k].blocked
                                   /\ g[k].maxConcurrency = gates[k].maxConcurrency
    BY InvFacts DEF GiveSlots, OnGates, GateType
  <2> HIDE DEF g
  <2> QED BY <2>1 DEF Calm
<1> HIDE DEF g, ph, fg, rb
<1>5. r \notin s.admitted
  <2>1. s.admitted \subseteq ToSet(queued)
    BY <1>3, DrainBooks DEF Served
  <2> QED BY <1>1, <2>1, InvFacts DEF Waiting
<1>6. Books(s.gates, s.queued, Admit(ph, s.admitted), keysOf, fg, rb)
  BY <1>3, DrainBooks
<1>7. /\ Books(gates', s.queued, Admit(ph, s.admitted), keysOf, fg, rb)
      /\ Settled(s.gates, gates') /\ Scheduled(s.gates, gates', keysOf[r])
  BY <1>1, <1>6, BooksScheduled, SettledSteps
<1> HIDE DEF s
<1>8. s = DrainQueues(g, queued, keysOf)
  BY DEF s
<1>9. /\ keysOf' \in [Req -> SUBSET Key]
      /\ \A x \in Req : phase'[x] # "idle" => keysOf'[x] = keysOf[x]
  BY <1>1, <1>2, <1>5, InvFacts DEF Admit
<1>10. /\ \A x \in Req : ph[x] = "holding" => phase[x] = "holding"
      /\ stray' \subseteq Key
      /\ \A a, b \in Req : phase[b] = "waiting" /\ Precedes(queued, a, b) => Precedes(queued, a, b)
      /\ \A x \in Req : phase[x] = "waiting" => keysOf[x] = keysOf[x]
  BY <1>1, <1>2, InvFacts
<1>11. /\ queued' = s.queued /\ phase' = Admit(ph, s.admitted)
       /\ forgotten' = fg /\ robbed' = rb
  BY <1>1
<1>12. Calm(gates, {}) => Calm(gates', {})
  <2> SUFFICES ASSUME Calm(gates, {}) PROVE Calm(gates', {})
    OBVIOUS
  <2>1. Calm(s.gates, keysOf[r])
    BY <1>3, <1>8, <1>4, DrainCalm
  <2> QED BY <1>7, <2>1 DEF Calm, Scheduled, Idle
<1> QED BY <1>3, <1>7, <1>8, <1>9, <1>10, <1>11, <1>12, DrainTurn

LEMMA CleanupStep ==
    ASSUME SemaphoreInv, NEW k \in Key, CleanupFires(k) \/ StrayCleanupFires(k)
    PROVE  SemaphoreInv' /\ WithRoom /\ InTurn
<1>1. /\ queued' = queued /\ phase' = phase /\ keysOf' = keysOf
      /\ forgotten' = forgotten /\ robbed' = robbed /\ stray' \subseteq stray
  BY DEF CleanupFires, StrayCleanupFires, history
<1>2. Books(gates', queued, phase, keysOf, forgotten, robbed)
  <2>1. CASE CleanupFires(k)
    <3> DEFINE g == [gates EXCEPT ![k].cleanup = FALSE]
    <3>1. k \in DOMAIN gates /\ gates' = CleanupIfIdle(g, {k})
      BY <2>1 DEF CleanupFires
    <3>2. /\ g \in [DOMAIN gates -> GateType]
          /\ \A x \in DOMAIN gates : g[x].running = gates[x].running /\ g[x].queue = gates[x].queue
      BY <3>1, InvFacts DEF GateType
    <3> HIDE DEF g
    <3>3. Books(g, queued, phase, keysOf, forgotten, robbed)
      BY <3>2, BooksSameCounts, InvFacts
    <3> QED BY <3>1, <3>3, BooksDropped
  <2>2. CASE StrayCleanupFires(k)
    <3>1. gates' = CleanupIfIdle(gates, {k})
      BY <2>2 DEF StrayCleanupFires
    <3> QED BY <3>1, BooksDropped, InvFacts
  <2> QED BY <2>1, <2>2
<1>3. SemaphoreInv'
  BY <1>1, <1>2, InvFacts DEF SemaphoreInv
<1> QED BY <1>1, <1>3, NobodyAdmitted

LEMMA BlockStep ==
    ASSUME SemaphoreInv, NEW k \in Key, MarkBlocked(k) \/ BlockLapses(k)
    PROVE  SemaphoreInv' /\ WithRoom /\ InTurn
<1>1. /\ queued' = queued /\ phase' = phase /\ keysOf' = keysOf
      /\ forgotten' = forgotten /\ robbed' = robbed /\ stray' = stray
  BY DEF MarkBlocked, BlockLapses, history
<1>2. Books(gates', queued, phase, keysOf, forgotten, robbed)
  <2>1. CASE MarkBlocked(k)
    <3> DEFINE cap == IF k \in DOMAIN gates THEN gates[k].maxConcurrency ELSE 1
               g == EnsureGates(gates, {k}, [x \in {k} |-> cap])
    <3>1. gates' = [g EXCEPT ![k].blocked = TRUE]
      BY <2>1 DEF MarkBlocked
    <3>2. cap \in Nat \ {0} /\ {k} \in SUBSET Key
      BY InvFacts DEF GateType
    <3> HIDE DEF cap
    <3>3. /\ Books(g, queued, phase, keysOf, forgotten, robbed)
          /\ Ensured(gates, g, {k}, [x \in {k} |-> cap])
      BY <3>2, BooksEnsured, InvFacts
    <3> HIDE DEF g
    <3>4. k \in DOMAIN g /\ g \in [DOMAIN g -> GateType]
      BY <3>3 DEF Ensured, Books, Lines
    <3>5. /\ gates' \in [DOMAIN g -> GateType]
          /\ \A x \in DOMAIN g : gates'[x].running = g[x].running /\ gates'[x].queue = g[x].queue
      BY <3>1, <3>4 DEF GateType
    <3> QED BY <3>3, <3>5, BooksSameCounts
  <2>2. CASE BlockLapses(k)
    <3>1. k \in DOMAIN gates /\ gates' = [gates EXCEPT ![k].blocked = FALSE]
      BY <2>2 DEF BlockLapses
    <3>2. /\ gates' \in [DOMAIN gates -> GateType]
          /\ \A x \in DOMAIN gates : /\ gates'[x].running = gates[x].running
                                     /\ gates'[x].queue = gates[x].queue
      BY <3>1, InvFacts DEF GateType
    <3> QED BY <3>2, BooksSameCounts, InvFacts
  <2> QED BY <2>1, <2>2
<1>3. SemaphoreInv'
  BY <1>1, <1>2, InvFacts DEF SemaphoreInv
<1> QED BY <1>1, <1>3, NobodyAdmitted

LEMMA UnblockStep ==
    ASSUME SemaphoreInv, NEW k \in Key, Unblock(k)
    PROVE  /\ SemaphoreInv' /\ WithRoom /\ InTurn /\ NoAdmissibleWaiter'
           /\ (Calm(gates, {}) => Calm(gates', {}))
<1> DEFINE g == [gates EXCEPT ![k].blocked = FALSE]
           s == DrainQueues(g, queued, keysOf)
<1>1. /\ k \in DOMAIN gates /\ gates' = CleanupIfIdle(s.gates, {k})
      /\ queued' = s.queued /\ phase' = Admit(phase, s.admitted)
      /\ keysOf' = keysOf /\ stray' = stray /\ forgotten' = forgotten /\ robbed' = robbed
  BY DEF Unblock, history
<1>2. /\ g \in [DOMAIN gates -> GateType]
      /\ \A x \in DOMAIN gates : g[x].running = gates[x].running /\ g[x].queue = gates[x].queue
  BY <1>1, InvFacts DEF GateType
<1>3. Calm(gates, {}) => Calm(g, {})
  <2>1. /\ DOMAIN g = DOMAIN gates
        /\ \A x \in DOMAIN gates : /\ ~gates[x].blocked => ~g[x].blocked
                                   /\ g[x].maxConcurrency = gates[x].maxConcurrency
                                   /\ g[x].cleanup = gates[x].cleanup
    BY <1>1, InvFacts DEF GateType
  <2> HIDE DEF g
  <2> QED BY <1>2, <2>1 DEF Calm, Idle
<1> HIDE DEF g
<1>4. Books(g, queued, phase, keysOf, forgotten, robbed)
  BY <1>2, BooksSameCounts, InvFacts
<1>5. Books(s.gates, s.queued, Admit(phase, s.admitted), keysOf, forgotten, robbed)
  BY <1>4, DrainBooks
<1>6. /\ Books(gates', s.queued, Admit(phase, s.admitted), keysOf, forgotten, robbed)
      /\ Settled(s.gates, gates') /\ Dropped(s.gates, gates', {k})
  BY <1>1, <1>5, BooksDropped, SettledSteps
<1> HIDE DEF s
<1>7. s = DrainQueues(g, queued, keysOf)
  BY DEF s
<1>8. /\ keysOf' \in [Req -> SUBSET Key] /\ stray' \subseteq Key
      /\ \A x \in Req : phase'[x] # "idle" => keysOf'[x] = keysOf[x]
      /\ \A x \in Req : phase[x] = "holding" => phase[x] = "holding"
      /\ \A a, b \in Req : phase[b] = "waiting" /\ Precedes(queued, a, b) => Precedes(queued, a, b)
      /\ \A x \in Req : phase[x] = "waiting" => keysOf[x] = keysOf[x]
  BY <1>1, InvFacts
<1>9. /\ queued' = s.queued /\ phase' = Admit(phase, s.admitted)
      /\ forgotten' = forgotten /\ robbed' = robbed
  BY <1>1
<1>10. Calm(gates, {}) => Calm(gates', {})
  <2> SUFFICES ASSUME Calm(gates, {}) PROVE Calm(gates', {})
    OBVIOUS
  <2>1. Calm(s.gates, {})
    BY <1>4, <1>7, <1>3, DrainCalm
  <2> QED BY <1>6, <2>1 DEF Calm, Dropped
<1> QED BY <1>4, <1>6, <1>7, <1>8, <1>9, <1>10, DrainTurn
\* A gate that an operator resets.
LEMMA ResetStep ==
    ASSUME SemaphoreInv, NEW k \in Key, Reset(k)
    PROVE  SemaphoreInv' /\ WithRoom /\ InTurn /\ NoAdmissibleWaiter'
<1> DEFINE out == ToSet(gates[k].queue)
           calmed == [gates EXCEPT ![k].cleanup = FALSE]
           keys == UNION {keysOf[r] : r \in out}
           g == RemoveRequests(calmed, out, keys)
           left == [x \in DOMAIN g \ {k} |-> g[x]]
           q == Only(queued, Req \ out)
           ph == [r \in Req |-> IF r \in out THEN "idle" ELSE phase[r]]
           fg == Forget({k})
           s == DrainQueues(left, q, keysOf)
<1>1. /\ k \in DOMAIN gates /\ gates' = s.gates /\ queued' = s.queued
      /\ phase' = Admit(ph, s.admitted)
      /\ keysOf' = [r \in Req |-> IF r \in out THEN {} ELSE keysOf[r]]
      /\ stray' = (IF g[k].cleanup THEN stray \cup {k} ELSE stray)
      /\ forgotten' = fg /\ robbed' = robbed
  BY DEF Reset
<1>2. out = ToSet(queued) \cap Needing(keysOf, k)
  <2>1. gates[k].queue = Only(queued, Needing(keysOf, k)) /\ queued \in Seq(Req)
    BY <1>1, InvFacts DEF Books, Lines
  <2> QED BY <2>1, OnlyProperties
<1>3. /\ calmed \in [DOMAIN gates -> GateType]
      /\ \A x \in DOMAIN gates : /\ calmed[x].running = gates[x].running
                                 /\ calmed[x].queue = gates[x].queue
  BY <1>1, InvFacts DEF GateType
<1> HIDE DEF calmed
<1>4. Books(calmed, queued, phase, keysOf, forgotten, robbed)
  BY <1>3, BooksSameCounts, InvFacts
<1>5. /\ ph \in [Req -> Phases]
      /\ \A r \in Req : ph[r] = IF r \in out THEN "idle" ELSE phase[r]
      /\ out \in SUBSET ToSet(queued) /\ \A r \in out : keysOf[r] \subseteq keys
  BY <1>2, InvFacts DEF Phases
<1> HIDE DEF out, ph, keys
<1>6. /\ Books(g, q, ph, keysOf, forgotten, robbed)
      /\ Unlinked(calmed, g, out, keys)
  BY <1>4, <1>5, BooksUnlinked
<1> HIDE DEF g
<1>7. \A r \in ToSet(q) : r \in Req /\ r \notin out /\ keysOf[r] \cap {k} = {}
  <2>1. ToSet(q) = ToSet(queued) \cap (Req \ out)
    BY InvFacts, OnlyProperties
  <2> QED BY <1>2, <2>1 DEF Needing
<1>8. /\ fg \in [Req -> SUBSET Key]
      /\ \A r \in Req : fg[r] = IF ph[r] = "holding"
                                THEN forgotten[r] \cup ({k} \cap keysOf[r]) ELSE forgotten[r]
  <2>1. \A r \in Req : ph[r] = "holding" <=> phase[r] = "holding"
    BY <1>5, InvFacts DEF Waiting
  <2>2. \A r \in Req : fg[r] = IF phase[r] = "holding"
                               THEN forgotten[r] \cup ({k} \cap keysOf[r]) ELSE forgotten[r]
    BY DEF Forget
  <2>3. \A r \in Req : fg[r] \in SUBSET Key
    BY <2>2, InvFacts
  <2>4. fg \in [Req -> SUBSET Key]
    BY <2>3 DEF Forget
  <2> HIDE DEF fg
  <2> QED BY <2>1, <2>2, <2>4
<1>9. Books(left, q, ph, keysOf, fg, robbed)
  <2>1. /\ DOMAIN left = DOMAIN g \ {k} /\ \A x \in DOMAIN left : left[x] = g[x]
    OBVIOUS
  <2>2. left \in [DOMAIN left -> GateType]
    BY <1>6 DEF Books, Lines
  <2> HIDE DEF left, q, fg
  <2>3. Forgotten(g, left, q, ph, keysOf, forgotten, fg, {k})
    BY <1>7, <1>8, <2>1 DEF Forgotten
  <2> QED BY <1>6, <2>2, <2>3, BooksForgot
<1>10. \A a, b : Precedes(q, a, b) => Precedes(queued, a, b)
  BY InvFacts, OnlyProperties
<1> HIDE DEF left, q, fg
<1>11. Books(s.gates, s.queued, Admit(ph, s.admitted), keysOf, fg, robbed)
  BY <1>9, DrainBooks
<1>12. \A r \in s.admitted : r \notin out
  <2>1. s.admitted \subseteq ToSet(q)
    BY <1>9, DrainBooks DEF Served
  <2> QED BY <1>7, <2>1
<1> HIDE DEF s
<1>13. s = DrainQueues(left, q, keysOf)
  BY DEF s
<1>14. /\ keysOf' \in [Req -> SUBSET Key]
       /\ \A x \in Req : phase'[x] # "idle" => keysOf'[x] = keysOf[x]
  BY <1>1, <1>5, <1>12, InvFacts DEF Admit
<1>15. /\ \A x \in Req : ph[x] = "holding" => phase[x] = "holding"
       /\ \A a, b \in Req : phase[b] = "waiting" /\ Precedes(q, a, b) => Precedes(queued, a, b)
       /\ \A x \in Req : phase[x] = "waiting" => keysOf[x] = keysOf[x]
  BY <1>5, <1>10
<1>16. /\ queued' = s.queued /\ phase' = Admit(ph, s.admitted) /\ stray' \subseteq Key
       /\ forgotten' = fg /\ robbed' = robbed
       /\ Books(gates', s.queued, Admit(ph, s.admitted), keysOf, fg, robbed)
       /\ Settled(s.gates, gates')
  BY <1>1, <1>11, SettledSteps, InvFacts
<1> QED BY <1>9, <1>13, <1>14, <1>15, <1>16, DrainTurn

LEMMA ResetAllStep ==
    ASSUME SemaphoreInv, ResetAll
    PROVE  SemaphoreInv' /\ WithRoom /\ InTurn
<1>1. /\ gates' = <<>> /\ queued' = <<>>
      /\ \A r \in Req : phase'[r] = IF phase[r] = "waiting" THEN "idle" ELSE phase[r]
      /\ \A r \in Req : keysOf'[r] = IF phase[r] = "waiting" THEN {} ELSE keysOf[r]
      /\ phase' \in [Req -> Phases] /\ keysOf' \in [Req -> SUBSET Key]
      /\ robbed' = robbed /\ stray' = stray
  BY InvFacts DEF ResetAll, Phases
<1>2. /\ forgotten' \in [Req -> SUBSET Key]
      /\ \A r \in Req : forgotten'[r] = IF phase[r] = "holding"
                                        THEN forgotten[r] \cup keysOf[r] ELSE forgotten[r]
  <2>1. forgotten' = [r \in Req |-> IF phase[r] = "holding"
                                    THEN forgotten[r] \cup (Key \cap keysOf[r]) ELSE forgotten[r]]
    BY DEF ResetAll, Forget
  <2>2. \A r \in Req : Key \cap keysOf[r] = keysOf[r] /\ forgotten[r] \cup keysOf[r] \in SUBSET Key
    BY InvFacts
  <2> QED BY <2>1, <2>2, InvFacts
<1>3. queued' \in Seq(Req) /\ ToSet(queued') = {} /\ \A a, b : ~Precedes(queued', a, b)
  BY <1>1, NothingQueued
<1>4. DOMAIN gates' = {} /\ gates' \in [DOMAIN gates' -> GateType]
  BY <1>1, EmptySeq
<1>5. Lines(gates', queued', keysOf')
  BY <1>1, <1>3, <1>4 DEF Lines, NoRepeats
<1>6. Callers(queued', phase', forgotten')
  BY <1>1, <1>2, <1>3, InvFacts DEF Callers
<1>7. Counts(gates', phase', keysOf', forgotten', robbed')
  BY <1>1, <1>2, <1>4, InvFacts DEF Counts
<1>8. SemaphoreInv'
  BY <1>1, <1>4, <1>5, <1>6, <1>7, InvFacts DEF SemaphoreInv, Books
<1>9. \A r \in Req : phase'[r] = "holding" => phase[r] = "holding"
  BY <1>1
<1> QED BY <1>8, <1>9, NobodyAdmitted

-----------------------------------------------------------------------------
(* The theorems about AccountSemaphore.                                    *)

LEMMA NextStep == SemaphoreInv /\ [Next]_vars => SemaphoreInv' /\ (WithRoom /\ InTurn)
<1> SUFFICES ASSUME SemaphoreInv, [Next]_vars
             PROVE  SemaphoreInv' /\ WithRoom /\ InTurn
  OBVIOUS
<1>1. CASE UNCHANGED vars
  <2>1. SemaphoreInv'
    BY <1>1 DEF SemaphoreInv, vars, history
  <2>2. \A r \in Req : phase'[r] = "holding" => phase[r] = "holding"
    BY <1>1 DEF vars
  <2> QED BY <2>1, <2>2, NobodyAdmitted
<1>2. ASSUME NEW r \in Req, Acquire(r) PROVE SemaphoreInv' /\ WithRoom /\ InTurn
  <2>1. PICK keys \in KeySets, caps \in CapChoices, policy \in Policies :
           AcquireMany(r, keys, caps, policy)
    BY <1>2 DEF Acquire
  <2>2. keys \in SUBSET Key /\ \A k \in keys : caps[k] \in Nat \ {0}
    BY SemaphoreAssumption
  <2> QED BY <2>1, <2>2, AcquireStep
<1>3. ASSUME NEW r \in Req, TimeOut(r) \/ Abort(r) PROVE SemaphoreInv' /\ WithRoom /\ InTurn
  BY <1>3, GiveUpStep DEF TimeOut, Abort
<1>4. ASSUME NEW r \in Req, Release(r) PROVE SemaphoreInv' /\ WithRoom /\ InTurn
  BY <1>4, ReleaseStep
<1>5. ASSUME NEW k \in Key, CleanupFires(k) \/ StrayCleanupFires(k)
      PROVE  SemaphoreInv' /\ WithRoom /\ InTurn
  BY <1>5, CleanupStep
<1>6. ASSUME NEW k \in Key, MarkBlocked(k) \/ BlockLapses(k)
      PROVE  SemaphoreInv' /\ WithRoom /\ InTurn
  BY <1>6, BlockStep
<1>7. ASSUME NEW k \in Key, Unblock(k) PROVE SemaphoreInv' /\ WithRoom /\ InTurn
  BY <1>7, UnblockStep
<1>8. ASSUME NEW k \in Key, Reset(k) PROVE SemaphoreInv' /\ WithRoom /\ InTurn
  BY <1>8, ResetStep
<1>9. CASE ResetAll
  BY <1>9, ResetAllStep
<1> QED BY <1>1, <1>2, <1>3, <1>4, <1>5, <1>6, <1>7, <1>8, <1>9 DEF Next, Steady, Operator

LEMMA RepairStep == SemaphoreInv /\ [Next]_vars => Repaired
<1> SUFFICES ASSUME SemaphoreInv, [Next]_vars PROVE Repaired
  OBVIOUS
<1>1. CASE UNCHANGED vars
  BY <1>1 DEF Repaired, vars
<1>2. ASSUME NEW r \in Req, Acquire(r) PROVE Repaired
  <2>1. PICK keys \in KeySets, caps \in CapChoices, policy \in Policies :
           AcquireMany(r, keys, caps, policy)
    BY <1>2 DEF Acquire
  <2>2. keys \in SUBSET Key /\ \A k \in keys : caps[k] \in Nat \ {0}
    BY SemaphoreAssumption
  <2> QED BY <2>1, <2>2, AcquireStep
<1>3. ASSUME NEW r \in Req, TimeOut(r) \/ Abort(r) \/ Release(r) PROVE Repaired
  BY <1>3, GiveUpStep, ReleaseStep DEF TimeOut, Abort, Repaired
<1>4. ASSUME NEW k \in Key,
             CleanupFires(k) \/ StrayCleanupFires(k) \/ MarkBlocked(k) \/ BlockLapses(k)
      PROVE  Repaired
  BY <1>4 DEF CleanupFires, StrayCleanupFires, MarkBlocked, BlockLapses, Repaired
<1>5. ASSUME NEW k \in Key, Unblock(k) \/ Reset(k) PROVE Repaired
  BY <1>5, UnblockStep, ResetStep DEF Repaired
<1>6. CASE ResetAll
  BY <1>6 DEF ResetAll, Repaired, NoAdmissibleWaiter, Waiting
<1> QED BY <1>1, <1>2, <1>3, <1>4, <1>5, <1>6 DEF Next, Steady, Operator

\* The books balance in every reachable state.
THEOREM SemaphoreInvariant == Spec => []SemaphoreInv
<1>1. SemaphoreInv /\ [Next]_vars => SemaphoreInv'
  BY NextStep
<1> QED BY <1>1, InitInv, PTL DEF Spec

\* The queues of the gates are one line seen from different doors
\* (accountSemaphore.ts, acquireMany pushes to all of them and removeRequest
\* splices from all of them): each is queuedRequests restricted to the waiters
\* of the gate, and nobody stands twice in it.
THEOREM QueuesAlwaysAgree == Spec => []QueuesAgree
<1>1. SemaphoreInv => QueuesAgree
  <2> SUFFICES ASSUME SemaphoreInv PROVE QueuesAgree
    OBVIOUS
  <2>1. TypeOK
    BY InvFacts DEF TypeOK, GateType, Phases
  <2>2. Len(queued) = Cardinality(Waiting)
    <3>1. NoRepeats(queued)
      BY InvFacts DEF Books, Lines
    <3> QED BY <3>1, InvFacts, LenIsCardinality
  <2>3. /\ \A r \in Waiting : keysOf[r] \subseteq DOMAIN gates
        /\ \A k \in DOMAIN gates : gates[k].queue = Only(queued, {r \in Req : k \in keysOf[r]})
    BY InvFacts DEF Books, Lines, Needing
  <2> QED BY <2>1, <2>2, <2>3, InvFacts DEF QueuesAgree
<1> QED BY <1>1, SemaphoreInvariant, PTL

\* A gate counts exactly its holders, and is not swept away while somebody holds
\* it, unless the release function of a request whose gate was reset has taken
\* a slot of the new gate (buildRelease looks the gate up by key).
THEOREM SlotsAlwaysAccounted == Spec => []SlotsAccounted
<1>1. SemaphoreInv => SlotsAccounted
  BY DEF SemaphoreInv, Books, Counts, SlotsAccounted, Holders, HoldersOf
<1> QED BY <1>1, SemaphoreInvariant, PTL

\* Whatever operators reset or block, no gate counts a slot nobody holds.
THEOREM NeverLeaksSlot == Spec => []NoLeakedSlot
<1>1. SemaphoreInv => NoLeakedSlot
  BY DEF SemaphoreInv, Books, Counts, NoLeakedSlot, Holders, HoldersOf
<1> QED BY <1>1, SemaphoreInvariant, PTL

\* Whoever is admitted, at once or by drainQueues, is admitted to gates that are
\* not blocked and that have room for it among those who really hold them.
THEOREM AlwaysAdmitsWithRoom == Spec => AdmitsWithRoom
<1>1. SemaphoreInv /\ [Next]_vars => [WithRoom]_vars
  BY NextStep
<1> QED BY <1>1, SemaphoreInvariant, PTL DEF Spec, AdmitsWithRoom, WithRoom

\* drainQueues admits nobody past an older waiter that needs one of the same
\* gates, and acquireMany lets no newcomer past it.
THEOREM NeverOvertakes == Spec => NoOvertaking
<1>1. SemaphoreInv /\ [Next]_vars => [InTurn]_vars
  BY NextStep
<1> QED BY <1>1, SemaphoreInvariant, PTL DEF Spec, NoOvertaking, InTurn

\* A block that lapses or a limit that a rejected caller raises strands waiters
\* only until the next caller queues, gives up or releases: drainQueues goes on
\* until nobody can be admitted, whatever became of the gates before.
THEOREM AlwaysRepaired == Spec => LapseRepaired
<1>1. SemaphoreInv /\ [Next]_vars => [Repaired]_vars
  BY RepairStep
<1> QED BY <1>1, SemaphoreInvariant, PTL DEF Spec, LapseRepaired, Repaired
-----------------------------------------------------------------------------
(* The theorems about CalmSemaphore.                                       *)

MixedInv == SemaphoreInv /\ (calm => Calm(gates, {}) /\ NoAdmissibleWaiter)

LEMMA CalmCleanup ==
    ASSUME SemaphoreInv, Calm(gates, {}), NoAdmissibleWaiter, NEW k \in Key, CleanupFires(k)
    PROVE  Calm(gates', {}) /\ NoAdmissibleWaiter'
<1> DEFINE g == [gates EXCEPT ![k].cleanup = FALSE]
<1>1. /\ k \in DOMAIN gates /\ gates' = CleanupIfIdle(g, {k})
      /\ phase' = phase /\ keysOf' = keysOf
  BY DEF CleanupFires
<1>2. /\ g \in [DOMAIN gates -> GateType]
      /\ \A x \in DOMAIN gates : /\ g[x].running = gates[x].running /\ g[x].queue = gates[x].queue
                                 /\ g[x].blocked = gates[x].blocked
                                 /\ g[x].maxConcurrency = gates[x].maxConcurrency
                                 /\ x # k => g[x].cleanup = gates[x].cleanup
  BY <1>1, InvFacts DEF GateType
<1> HIDE DEF g
<1>3. Dropped(g, gates', {k})
  <2>1. Books(g, queued, phase, keysOf, forgotten, robbed)
    BY <1>2, BooksSameCounts, InvFacts
  <2> QED BY <1>1, <2>1, BooksDropped
<1>4. Calm(g, {k})
  BY <1>2 DEF Calm, Idle
<1>5. Calm(gates', {})
  BY <1>3, <1>4 DEF Calm, Dropped
<1>6. ASSUME NEW w \in Req, CanAcquire(gates', w, keysOf[w]) PROVE CanAcquire(gates, w, keysOf[w])
  BY <1>2, <1>3, <1>6 DEF CanAcquire, HasRoom, Dropped
<1> QED BY <1>1, <1>5, <1>6 DEF NoAdmissibleWaiter, Waiting

LEMMA MixedInitInv == MixedInit => MixedInv
<1> SUFFICES ASSUME MixedInit PROVE MixedInv
  OBVIOUS
<1>1. Init
  BY DEF MixedInit
<1>2. DOMAIN gates = {} /\ Waiting = {}
  BY <1>1, EmptySeq DEF Init, Waiting
<1> QED BY <1>1, <1>2, InitInv DEF MixedInv, Calm, NoAdmissibleWaiter

LEMMA MixedStep == MixedInv /\ [MixedNext]_<<vars, calm>> => MixedInv'
<1> SUFFICES ASSUME MixedInv, [MixedNext]_<<vars, calm>> PROVE MixedInv'
  OBVIOUS
<1>1. CASE UNCHANGED <<vars, calm>>
  BY <1>1 DEF MixedInv, SemaphoreInv, NoAdmissibleWaiter, Waiting, vars, history
<1>2. CASE ~calm /\ Next /\ UNCHANGED calm
  BY <1>2, NextStep DEF MixedInv
<1>3. CASE calm /\ CalmNext /\ UNCHANGED calm
  <2> USE DEF MixedInv
  <2>1. ASSUME NEW r \in Req, NEW keys \in CalmKeySets, AcquireMany(r, keys, CalmCaps, Patient)
        PROVE  MixedInv'
    <3>1. keys \in SUBSET Key /\ \A k \in keys : CalmCaps[k] \in Nat \ {0}
      BY CalmAssumption
    <3> QED BY <1>3, <2>1, <3>1, AcquireStep
  <2>2. ASSUME NEW r \in Req, TimeOut(r) \/ Abort(r) PROVE MixedInv'
    BY <1>3, <2>2, GiveUpStep DEF TimeOut, Abort
  <2>3. ASSUME NEW r \in Req, Release(r) PROVE MixedInv'
    BY <1>3, <2>3, ReleaseStep
  <2>4. ASSUME NEW k \in Key, CleanupFires(k) PROVE MixedInv'
    BY <1>3, <2>4, CleanupStep, CalmCleanup
  <2>5. ASSUME NEW k \in Key, Unblock(k) PROVE MixedInv'
    BY <1>3, <2>5, UnblockStep
  <2> QED BY <1>3, <2>1, <2>2, <2>3, <2>4, <2>5 DEF CalmNext
<1> QED BY <1>1, <1>2, <1>3 DEF MixedNext

THEOREM MixedInvariant == MixedSpec => []MixedInv
BY MixedInitInv, MixedStep, PTL DEF MixedSpec

\* When no limit or block changes between turns, no turn of accountSemaphore.ts
\* ends with a waiter that drainQueues could have admitted.
THEOREM CalmServesWaiters == MixedSpec => []CalmNoAdmissibleWaiter
<1>1. MixedInv => CalmNoAdmissibleWaiter
  BY DEF MixedInv, CalmNoAdmissibleWaiter
<1> QED BY <1>1, MixedInvariant, PTL

\* When no operator resets or blocks a gate, the Map never keeps a gate that
\* nobody uses and no cleanup timer will drop.
THEOREM CalmReclaimsGates == MixedSpec => []CalmIdleGatesReclaimed
<1>1. MixedInv => CalmIdleGatesReclaimed
  BY DEF MixedInv, Calm, CalmIdleGatesReclaimed, IdleGatesReclaimed
<1> QED BY <1>1, MixedInvariant, PTL
=============================================================================
