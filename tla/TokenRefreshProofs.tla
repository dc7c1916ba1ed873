------------------------- MODULE TokenRefreshProofs -------------------------
(***************************************************************************)
(* Machine-checked proofs about the refresh lanes (RefreshLane) and about  *)
(* the callers that use them (TokenRefresh): that they keep to the lanes,  *)
(* that a used token is presented again only if its successor was lost or  *)
(* a caller was misled to it, and that the rotation map leads on.          *)
(***************************************************************************)
EXTENDS TokenRefresh, TLAPS

-----------------------------------------------------------------------------
(***************************************************************************)
(* RefreshLane for any calls and groups: a lane is a queue.  The variables *)
(* only link a slot to the one it found at the tail; what makes them a     *)
(* queue is the history "before", which orders the slots of a lane by      *)
(* arrival.  LaneInv says so, and that ahead names the immediate           *)
(* predecessor and tail the last slot.  The one slot without a predecessor *)
(* is then the only one that may present its token.                        *)
(***************************************************************************)

TypeCorrectLane ==
    /\ tail \in [Group -> Slot \cup {NoSlot}]
    /\ ahead \in [Slot -> Slot \cup {NoSlot}]
    /\ turn \in [Slot -> {"out", "queued", "running", "settling"}]
    /\ laneOf \in [Slot -> Group]
    /\ before \subseteq Slot \X Slot

\* before is a strict order of the slots of each lane.
Ordered ==
    /\ \A a, b \in Slot : <<a, b>> \in before =>
          turn[a] # "out" /\ turn[b] # "out" /\ laneOf[a] = laneOf[b] /\ <<b, a>> \notin before
    /\ \A a, b \in Slot :
          turn[a] # "out" /\ turn[b] # "out" /\ laneOf[a] = laneOf[b] /\ a # b
          => <<a, b>> \in before \/ <<b, a>> \in before
    /\ \A a, b, c \in Slot :
          <<a, b>> \in before /\ <<b, c>> \in before => <<a, c>> \in before

\* ahead[s] is the slot immediately before s.
Linked ==
    \A s \in Slot :
        /\ ahead[s] = NoSlot => \A a \in Slot : <<a, s>> \notin before
        /\ ahead[s] # NoSlot =>
              /\ turn[s] = "queued"
              /\ <<ahead[s], s>> \in before
              /\ \A a \in Slot : <<a, s>> \in before => a = ahead[s] \/ <<a, ahead[s]>> \in before

\* tail[g] is the last slot of the lane of g.
Ended ==
    \A g \in Group :
        /\ tail[g] = NoSlot => \A s \in Slot : ~In(s, g)
        /\ tail[g] # NoSlot =>
              /\ In(tail[g], g)
              /\ \A s \in Slot : In(s, g) /\ s # tail[g] => <<s, tail[g]>> \in before

LaneInv == TypeCorrectLane /\ Ordered /\ Linked /\ Ended

-----------------------------------------------------------------------------
(* The invariant is inductive.                                             *)

LEMMA LaneInit == Init => LaneInv
BY LaneAssumption DEF Init, LaneInv, TypeCorrectLane, Ordered, Linked, Ended, In

\* The call of serializeRefresh puts its slot behind all of its lane.
LEMMA LaneJoin ==
    ASSUME LaneInv, NEW s \in Slot, NEW g \in Group, Join(s, g)
    PROVE  LaneInv'
<1> USE LaneAssumption
<1>1. TypeCorrectLane'
  BY DEF LaneInv, TypeCorrectLane, Join
<1>2. \A a, b \in Slot : <<a, b>> \in before' <=>
          <<a, b>> \in before \/ (b = s /\ In(a, g))
  BY DEF LaneInv, TypeCorrectLane, Join
<1>3. \A a \in Slot : <<a, s>> \notin before /\ <<s, a>> \notin before
  BY DEF LaneInv, Ordered, Join
<1>4. /\ \A a \in Slot \ {s} : turn'[a] = turn[a] /\ laneOf'[a] = laneOf[a]
                               /\ ahead'[a] = ahead[a]
      /\ turn'[s] = "queued" /\ laneOf'[s] = g /\ ahead'[s] = tail[g]
      /\ turn[s] = "out"
      /\ \A h \in Group \ {g} : tail'[h] = tail[h]
      /\ tail'[g] = s
  BY DEF LaneInv, TypeCorrectLane, Join
<1>5. Ordered'
  <2>1. ASSUME NEW a \in Slot, NEW b \in Slot, <<a, b>> \in before'
        PROVE  turn'[a] # "out" /\ turn'[b] # "out" /\ laneOf'[a] = laneOf'[b]
               /\ <<b, a>> \notin before'
    <3>1. CASE b = s
      BY <2>1, <3>1, <1>2, <1>3, <1>4 DEF In
    <3>2. CASE b # s
      BY <2>1, <3>2, <1>2, <1>3, <1>4 DEF LaneInv, Ordered
    <3> QED BY <3>1, <3>2
  <2>2. ASSUME NEW a \in Slot, NEW b \in Slot, turn'[a] # "out", turn'[b] # "out",
               laneOf'[a] = laneOf'[b], a # b
        PROVE  <<a, b>> \in before' \/ <<b, a>> \in before'
    BY <2>2, <1>2, <1>4 DEF LaneInv, Ordered, In
  <2>3. ASSUME NEW a \in Slot, NEW b \in Slot, NEW c \in Slot,
               <<a, b>> \in before', <<b, c>> \in before'
        PROVE  <<a, c>> \in before'
    <3>0. b # s
      <4>1. <<b, c>> \in before \/ In(b, g)
        BY <2>3, <1>2
      <4>2. ~In(s, g) /\ <<s, c>> \notin before
        BY <1>3, <1>4 DEF In
      <4> QED BY <4>1, <4>2
    <3>1. b # s /\ <<a, b>> \in before
      BY <2>3, <3>0, <1>2
    <3>2. CASE c = s
      <4>1. In(b, g)
        BY <3>2, <2>3, <1>2, <1>3
      <4>2. In(a, g)
        BY <3>1, <4>1 DEF LaneInv, Ordered, In
      <4> QED BY <3>2, <4>2, <1>2
    <3>3. CASE c # s
      <4>1. <<b, c>> \in before
        BY <3>3, <2>3, <1>2
      <4> QED BY <3>1, <4>1, <1>2 DEF LaneInv, Ordered
    <3> QED BY <3>2, <3>3
  <2> QED BY <2>1, <2>2, <2>3 DEF Ordered
<1>6. Linked'
  <2>1. ASSUME NEW x \in Slot, x # s PROVE Linked!(x)'
    <3>1. ahead'[x] = ahead[x] /\ turn'[x] = turn[x]
      BY <2>1, <1>4
    <3>2. \A a \in Slot : <<a, x>> \in before' <=> <<a, x>> \in before
      BY <2>1, <1>2
    <3>3. ahead[x] # NoSlot =>
             /\ ahead[x] \in Slot
             /\ <<ahead[x], x>> \in before
             /\ \A a \in Slot : <<a, ahead[x]>> \in before => <<a, ahead[x]>> \in before'
      BY <1>2 DEF LaneInv, TypeCorrectLane, Linked
    <3> QED BY <3>1, <3>2, <3>3 DEF LaneInv, Linked
  <2>2. Linked!(s)'
    <3>1. CASE tail[g] = NoSlot
      BY <3>1, <1>2, <1>3, <1>4 DEF LaneInv, Ended
    <3>2. CASE tail[g] # NoSlot
      <4>1. tail[g] \in Slot /\ In(tail[g], g)
        BY <3>2 DEF LaneInv, TypeCorrectLane, Ended
      <4>2. \A a \in Slot : In(a, g) /\ a # tail[g] => <<a, tail[g]>> \in before
        BY <3>2 DEF LaneInv, Ended
      <4> QED BY <3>2, <4>1, <4>2, <1>2, <1>3, <1>4
    <3> QED BY <3>1, <3>2
  <2> QED BY <2>1, <2>2 DEF Linked
<1>7. Ended'
  BY <1>2, <1>3, <1>4 DEF LaneInv, TypeCorrectLane, Ended, In
<1> QED BY <1>1, <1>5, <1>6, <1>7 DEF LaneInv

\* Begin and Settle move a slot that has nobody before it.
LEMMA LaneWork ==
    ASSUME LaneInv, NEW s \in Slot, Begin(s) \/ Settle(s)
    PROVE  LaneInv'
<1> USE LaneAssumption
<1>1. TypeCorrectLane'
  BY DEF LaneInv, TypeCorrectLane, Begin, Settle
<1>2. /\ \A a \in Slot : turn'[a] = "out" <=> turn[a] = "out"
      /\ \A a \in Slot : ahead[a] # NoSlot => turn'[a] = turn[a]
      /\ tail' = tail /\ ahead' = ahead /\ laneOf' = laneOf /\ before' = before
  <2>1. ahead[s] = NoSlot
    BY DEF LaneInv, Linked, Begin, Settle
  <2>2. /\ turn[s] # "out" /\ turn'[s] # "out"
        /\ \A a \in Slot \ {s} : turn'[a] = turn[a]
    BY DEF LaneInv, TypeCorrectLane, Begin, Settle
  <2>3. tail' = tail /\ ahead' = ahead /\ laneOf' = laneOf /\ before' = before
    BY DEF Begin, Settle
  <2> QED BY <2>1, <2>2, <2>3
<1>3. Ordered'
  BY <1>2 DEF LaneInv, Ordered
<1>4. Linked'
  BY <1>2 DEF LaneInv, Linked
<1>5. \A x \in Slot, g \in Group : In(x, g)' <=> In(x, g)
  BY <1>2 DEF In
<1>6. Ended'
  BY <1>2, <1>5 DEF LaneInv, TypeCorrectLane, Ended
<1> QED BY <1>1, <1>3, <1>4, <1>6 DEF LaneInv

\* releaseMine: the slot that leaves is the first of its lane, and the one
\* behind it becomes the first.
LEMMA LaneLeave ==
    ASSUME LaneInv, NEW s \in Slot, Leave(s)
    PROVE  LaneInv'
<1> USE LaneAssumption
<1>1. TypeCorrectLane'
  BY DEF LaneInv, TypeCorrectLane, Leave, FreesLane
<1>2. \A a \in Slot : <<a, s>> \notin before
  BY DEF LaneInv, Linked, Leave
<1>3. \A a, b \in Slot : <<a, b>> \in before' <=> <<a, b>> \in before /\ a # s /\ b # s
  BY DEF LaneInv, TypeCorrectLane, Leave
<1>4. /\ turn[s] # "out"
      /\ turn'[s] = "out"
      /\ \A a \in Slot \ {s} : turn'[a] = turn[a]
      /\ \A a \in Slot : ahead'[a] = IF ahead[a] = s THEN NoSlot ELSE ahead[a]
      /\ laneOf' = laneOf
  BY DEF LaneInv, TypeCorrectLane, Leave
<1>5. Ordered'
  BY <1>3, <1>4 DEF LaneInv, Ordered
<1>6. Linked'
  <2> SUFFICES ASSUME NEW x \in Slot PROVE Linked!(x)'
    BY DEF Linked
  <2>1. CASE ahead[x] = NoSlot \/ ahead[x] = s
    BY <2>1, <1>2, <1>3, <1>4 DEF LaneInv, Linked
  <2>2. CASE ahead[x] # NoSlot /\ ahead[x] # s
    <3>1. ahead[x] \in Slot /\ x # s /\ turn[x] = "queued" /\ <<ahead[x], x>> \in before
      BY <2>2, <1>2 DEF LaneInv, TypeCorrectLane, Linked
    <3>2. ahead'[x] = ahead[x] /\ turn'[x] = turn[x]
      BY <2>2, <3>1, <1>4
    <3>3. \A a \in Slot : <<a, x>> \in before =>
             a = ahead[x] \/ <<a, ahead[x]>> \in before
      BY <2>2 DEF LaneInv, Linked
    <3> QED BY <2>2, <3>1, <3>2, <3>3, <1>3
  <2> QED BY <2>1, <2>2
<1>7. ASSUME NEW h \in Group PROVE Ended!(h)'
  <2>1. CASE tail[h] = s
    <3>1. laneOf[s] = h
      BY <2>1, <1>4 DEF LaneInv, Ended, In
    <3>2. tail'[h] = NoSlot
      BY <2>1, <3>1 DEF LaneInv, TypeCorrectLane, Leave, FreesLane
    <3>3. tail[h] # NoSlot
      BY <2>1
    <3>4. \A x \in Slot : In(x, h) /\ x # s => <<x, s>> \in before
      BY <2>1, <3>3 DEF LaneInv, Ended
    <3>5. \A x \in Slot \ {s} : ~In(x, h)
      BY <3>4, <1>2
    <3>6. \A x \in Slot : ~In(x, h)'
      BY <3>5, <1>4 DEF In
    <3> QED BY <2>1, <3>2, <3>6
  <2>2. CASE tail[h] # s
    <3>1. tail'[h] = tail[h]
      BY <2>2 DEF LaneInv, TypeCorrectLane, Leave, FreesLane
    <3>2. \A x \in Slot : In(x, h)' <=> In(x, h) /\ x # s
      BY <1>4 DEF In
    <3> QED BY <2>2, <3>1, <3>2, <1>3 DEF LaneInv, TypeCorrectLane, Ended
  <2> QED BY <2>1, <2>2
<1>8. Ended'
  BY <1>7 DEF Ended
<1> QED BY <1>1, <1>5, <1>6, <1>8 DEF LaneInv

\* Every step of a lane keeps it one.
LEMMA LaneStep ==
    ASSUME LaneInv, [Next]_laneVars
    PROVE  LaneInv'
<1>1. CASE UNCHANGED laneVars
  BY <1>1 DEF laneVars, LaneInv, TypeCorrectLane, Ordered, Linked, Ended, In
<1>2. CASE Next
  <2>1. PICK s \in Slot : (\E g \in Group : Join(s, g)) \/ Begin(s) \/ Settle(s) \/ Leave(s)
    BY <1>2 DEF Next
  <2> QED BY <2>1, LaneJoin, LaneWork, LaneLeave
<1> QED BY <1>1, <1>2

\* The types of a lane follow from its being one.
LEMMA LaneTypes == LaneInv => TypeOK
<1> SUFFICES ASSUME LaneInv PROVE TypeOK
  OBVIOUS
<1>1. ASSUME NEW s \in Slot, ahead[s] # NoSlot
      PROVE  turn[s] = "queued" /\ In(ahead[s], laneOf[s])
  <2>1. ahead[s] \in Slot
    BY <1>1 DEF LaneInv, TypeCorrectLane
  <2> QED BY <1>1, <2>1 DEF LaneInv, Ordered, Linked, In
<1> QED BY <1>1 DEF LaneInv, TypeCorrectLane, TypeOK

\* Only a slot with nobody before it works, and there is one of these.
LEMMA OneWorks == LaneInv => OneAtATime
<1> SUFFICES ASSUME LaneInv, NEW r \in Slot, NEW s \in Slot,
                    Presenting(r), Presenting(s), laneOf[r] = laneOf[s], r # s
             PROVE  FALSE
  BY DEF OneAtATime
<1>1. ahead[r] = NoSlot /\ ahead[s] = NoSlot
  BY DEF LaneInv, Linked, Presenting
<1>2. <<r, s>> \in before \/ <<s, r>> \in before
  BY DEF LaneInv, Ordered, Presenting
<1> QED BY <1>1, <1>2 DEF LaneInv, Linked

\* In every reachable state a lane is a queue in order of arrival, linked by
\* ahead and closed by tail.
THEOREM LaneInvariant == Spec => []LaneInv
BY LaneInit, LaneStep, PTL DEF Spec

-----------------------------------------------------------------------------
(* What follows from it.                                                   *)

\* The variables have their types, and a slot awaits a slot of its own lane
\* that is still to leave it: no promise is awaited that nobody resolves.
THEOREM LaneTypeCorrect == Spec => []TypeOK
BY LaneInvariant, LaneTypes, PTL

\* Two accounts of a rotation group never refresh at the same time.
THEOREM LaneExclusive == Spec => []OneAtATime
BY LaneInvariant, OneWorks, PTL

\* The entry of a group is there exactly while somebody is in its lane.
THEOREM LaneCollected == Spec => []LaneReclaimed
<1>1. LaneInv => LaneReclaimed
  BY LaneAssumption DEF LaneInv, TypeCorrectLane, Ended, LaneReclaimed
<1> QED BY LaneInvariant, <1>1, PTL

\* Refreshes of a group begin in the order in which they were asked for.
THEOREM LaneInOrder == Spec => InOrderOfArrival
<1> DEFINE A == \A s \in Slot : turn[s] = "queued" /\ turn'[s] = "running" =>
                    \A a \in Slot : <<a, s>> \notin before
<1>1. LaneInv /\ [Next]_laneVars => [A]_laneVars
  <2> SUFFICES ASSUME LaneInv, Next, NEW s \in Slot,
                      turn[s] = "queued", turn'[s] = "running"
               PROVE  \A a \in Slot : <<a, s>> \notin before
    BY DEF laneVars
  <2>1. PICK t \in Slot : (\E g \in Group : Join(t, g)) \/ Begin(t) \/ Settle(t) \/ Leave(t)
    BY DEF Next
  <2>2. t = s /\ Begin(s)
    BY <2>1 DEF LaneInv, TypeCorrectLane, Join, Begin, Settle, Leave
  <2> QED BY <2>2 DEF LaneInv, Linked, Begin
<1> QED BY LaneInvariant, <1>1, PTL DEF Spec, InOrderOfArrival

-----------------------------------------------------------------------------
(***************************************************************************)
(* Machine-checked proofs about TokenRefresh, for any callers, connections *)
(* and rotation groups, crashes and lost answers included: whatever the    *)
(* callers do, a lane stays a lane (LaneInv), whoever posts works in the   *)
(* lane of its group (Docked), and every token that is held, stored or     *)
(* mapped was issued for its connection (Minted).                          *)
(***************************************************************************)

Place == {"idle", "loaded", "outside", "inside", "queued", "sharing",
          "posting", "answered", "fetched", "persisting", "returned", "gap"}

Job == [kind : {"health", "reactive", "resolver"}, conn : Conn,
        read : Nat, sent : Nat, got : Nat]

USE DEF Place, Job

Tokens(x) == 1..issued[x]

\* The variables have their types, and tokens are of the connection's family.
Minted ==
    /\ pc \in [Call -> Place]
    /\ job \in [Call -> Job]
    /\ entry \in [Conn -> Call \cup {NoCall}]
    /\ issued \in [Conn -> Nat]
    /\ rotated \in [Conn -> SUBSET (Nat \X Nat)]
    /\ db \in [Conn -> [token : Nat, valid : BOOLEAN]]
    /\ live \in [Conn -> SUBSET Nat] /\ revoked \in [Conn -> SUBSET Nat]
    /\ reused \subseteq Conn \X Nat /\ lost \subseteq Conn \X Nat
    /\ misled \subseteq Conn \X Nat
    /\ \A x \in Conn : /\ rotated[x] \subseteq Tokens(x) \X Tokens(x)
                       /\ live[x] \subseteq Tokens(x) /\ revoked[x] \subseteq Tokens(x)
                       /\ db[x].token \in Tokens(x)

\* What a caller has read, sent or got is a token; one that writes the row after
\* the mutex has got one.
Held(c) ==
    /\ job[c].got \in {0} \cup Tokens(job[c].conn)
    /\ pc[c] # "idle" => job[c].read \in Tokens(job[c].conn)
    /\ pc[c] \in {"posting", "answered"} => job[c].sent \in Tokens(job[c].conn)
    /\ pc[c] = "returned" /\ job[c].kind # "resolver" => job[c].got # 0

\* From its place in the queue on, the inner slot of a caller is in the lane of
\* its connection's group, and it works while the caller posts.
Docked(c) ==
    LaneOfCall(c) # NoGroup =>
      /\ pc[c] \in {"queued", "posting", "answered"} => laneOf[Inner(c)] = LaneOfCall(c)
      /\ pc[c] \in {"posting", "answered"} => turn[Inner(c)] = "running"

TokenInv == LaneInv /\ Minted /\ \A c \in Call : Held(c) /\ Docked(c)

\* What is noted of a token leaves a job a job.
LEMMA JobNotes ==
    ASSUME NEW j \in Job, NEW n \in Nat
    PROVE  [j EXCEPT !.got = n] \in Job /\ [j EXCEPT !.sent = n] \in Job
OBVIOUS

-----------------------------------------------------------------------------
(* The lanes.                                                              *)

\* The slots are two of each caller.
LEMMA Slots ==
    /\ \A c \in Call : Inner(c) \in Slot /\ Outer(c) \in Slot
    /\ \A c, d \in Call : Inner(c) # Outer(d) /\ (Inner(c) = Inner(d) => c = d)
BY TokenAssumption DEF Inner, Outer

LEMMA GroupOfCall ==
    ASSUME Minted, NEW c \in Call, LaneOfCall(c) # NoGroup
    PROVE  LaneOfCall(c) \in Group
BY TokenAssumption DEF Minted, LaneOfCall

\* What a turn of a caller does to the lanes: a step of one of its slots.
SlotStep(s) == (\E g \in Group : Join(s, g)) \/ Begin(s) \/ Settle(s) \/ Leave(s)

LEMMA SlotStepKeeps ==
    ASSUME LaneInv, NEW s \in Slot, SlotStep(s) \/ UNCHANGED laneVars
    PROVE  /\ LaneInv'
           /\ \A x \in Slot : x # s => turn'[x] = turn[x] /\ laneOf'[x] = laneOf[x]
<1>1. LaneInv'
  BY LaneStep DEF SlotStep, Next
<1>2. ASSUME NEW x \in Slot, x # s
      PROVE  turn'[x] = turn[x] /\ laneOf'[x] = laneOf[x]
  BY <1>2 DEF LaneInv, TypeCorrectLane, SlotStep, Join, Begin, Settle, Leave, laneVars
<1> QED BY <1>1, <1>2

\* A turn of c in one of its slots leaves the other callers docked.
LEMMA OthersDocked ==
    ASSUME TokenInv, NEW c \in Call, NEW s \in {Inner(c), Outer(c)},
           SlotStep(s) \/ UNCHANGED laneVars,
           \A d \in Call : d # c =>
               /\ job'[d].conn = job[d].conn
               /\ pc'[d] = pc[d] \/ pc'[d] \notin {"queued", "posting", "answered"}
    PROVE  LaneInv' /\ \A d \in Call : d # c => Docked(d)'
<1>1. /\ s \in Slot /\ \A d \in Call : d # c => Inner(d) # s /\ Inner(d) \in Slot
  BY Slots
<1>2. LaneInv' /\ \A x \in Slot : x # s => turn'[x] = turn[x] /\ laneOf'[x] = laneOf[x]
  BY <1>1, SlotStepKeeps DEF TokenInv
<1> QED BY <1>1, <1>2 DEF TokenInv, Docked, LaneOfCall

\* The turns of a caller.
CallStep(c) ==
    \/ \E k \in Kinds, x \in Conn : Load(c, k, x)
    \/ ResolverQueues(c) \/ ResolverEnters(c) \/ GetAccessToken(c) \/ StartRefresh(c)
    \/ RereadFails(c) \/ Consume(c) \/ Unreached(c) \/ Answer(c) \/ LoseAnswer(c)
    \/ GapBegins(c) \/ LeaveLane(c)
    \/ Return(c) \/ PersistFails(c) \/ GuardFails(c) \/ WriteBack(c) \/ WriteFails(c)
    \/ ResolverGap(c) \/ ResolverLeaves(c)

\* A turn that neither moves a slot nor brings its caller to the endpoint.
LEMMA UndockedTurn ==
    ASSUME TokenInv, NEW c \in Call, UNCHANGED laneVars,
           \A d \in Call : d # c =>
               /\ job'[d].conn = job[d].conn
               /\ pc'[d] = pc[d] \/ pc'[d] \notin {"queued", "posting", "answered"},
           pc'[c] \notin {"queued", "posting", "answered"}
    PROVE  LaneInv' /\ \A d \in Call : Docked(d)'
<1>1. LaneInv' /\ \A d \in Call : d # c => Docked(d)'
  BY OthersDocked
<1>2. Docked(c)'
  BY DEF Docked
<1> QED BY <1>1, <1>2

\* A turn in the outer slot leaves the caller where it is docked.
LEMMA OuterTurn ==
    ASSUME TokenInv, NEW c \in Call, SlotStep(Outer(c)) \/ UNCHANGED laneVars,
           UNCHANGED job, NEW w, w \notin {"queued", "posting", "answered"}, Goes(c, w)
    PROVE  LaneInv' /\ \A d \in Call : Docked(d)'
<1>1. pc \in [Call -> Place]
  BY DEF TokenInv, Minted
<1>2. LaneInv' /\ \A d \in Call : d # c => Docked(d)'
  BY <1>1, OthersDocked DEF Goes
<1>3. Docked(c)'
  BY <1>1 DEF Docked, Goes
<1> QED BY <1>2, <1>3

\* A turn in the inner slot docks the caller where its group's lane is.
LEMMA InnerTurn ==
    ASSUME TokenInv, NEW c \in Call, NEW w, Goes(c, w),
           SlotStep(Inner(c)) \/ UNCHANGED laneVars,
           \A d \in Call : job'[d].conn = job[d].conn,
           w \in {"queued", "posting", "answered"} /\ LaneOfCall(c) # NoGroup =>
               /\ laneOf'[Inner(c)] = LaneOfCall(c)
               /\ w # "queued" => turn'[Inner(c)] = "running"
    PROVE  LaneInv' /\ \A d \in Call : Docked(d)'
<1>1. pc \in [Call -> Place]
  BY DEF TokenInv, Minted
<1>2. LaneInv' /\ \A d \in Call : d # c => Docked(d)'
  BY <1>1, OthersDocked DEF Goes
<1>3. Docked(c)'
  BY <1>1 DEF Docked, Goes, LaneOfCall
<1> QED BY <1>2, <1>3

\* No turn of a caller brings a lane into disorder or one out of its lane to
\* the endpoint.
LEMMA CallStepDocks ==
    ASSUME TokenInv, NEW c \in Call, CallStep(c)
    PROVE  LaneInv' /\ \A d \in Call : Docked(d)'
<1> DEFINE g == LaneOfCall(c)
<1>0. /\ Minted /\ TypeCorrectLane /\ Inner(c) \in Slot /\ Outer(c) \in Slot
      /\ job \in [Call -> Job]
      /\ g # NoGroup => g \in Group
      /\ Docked(c)
  BY Slots, GroupOfCall DEF TokenInv, Minted, LaneInv
<1>1. CASE \E k \in Kinds, x \in Conn : Load(c, k, x)
  BY <1>0, <1>1, UndockedTurn DEF Load, Goes, Minted
<1>2. CASE ResolverQueues(c)
  BY <1>0, <1>2, OuterTurn DEF ResolverQueues, Enqueues, SlotStep
<1>3. CASE ResolverEnters(c)
  BY <1>0, <1>3, OuterTurn DEF ResolverEnters, Enters, SlotStep
<1>4. CASE GetAccessToken(c)
  <2>1. CASE Goes(c, "sharing") /\ UNCHANGED laneVars
    BY <1>0, <1>4, <2>1, InnerTurn DEF GetAccessToken
  <2>2. CASE Goes(c, "queued") /\ Enqueues(c, Inner(c))
    <3>1. SlotStep(Inner(c)) \/ UNCHANGED laneVars
      BY <1>0, <2>2 DEF Enqueues, SlotStep
    <3>2. g # NoGroup => laneOf'[Inner(c)] = g
      BY <1>0, <2>2 DEF Enqueues, Join, TypeCorrectLane
    <3> QED BY <1>0, <1>4, <2>2, <3>1, <3>2, InnerTurn DEF GetAccessToken
  <2> QED BY <1>4, <2>1, <2>2 DEF GetAccessToken
<1>5. CASE StartRefresh(c) \/ RereadFails(c)
  <2>1. Enters(c, Inner(c)) /\ (Goes(c, "fetched") \/ Goes(c, "posting"))
    BY <1>5 DEF StartRefresh, RereadFails
  <2>2. SlotStep(Inner(c)) \/ UNCHANGED laneVars
    BY <2>1 DEF Enters, SlotStep
  <2>3. g # NoGroup => turn'[Inner(c)] = "running" /\ laneOf'[Inner(c)] = g
    BY <1>0, <1>5, <2>1 DEF Enters, Begin, TypeCorrectLane, StartRefresh, RereadFails, Docked
  <2>4. \A d \in Call : job'[d].conn = job[d].conn
    BY <1>0, <1>5 DEF StartRefresh, RereadFails
  <2> QED BY <2>1, <2>2, <2>3, <2>4, InnerTurn
<1>6. CASE Consume(c) \/ Unreached(c)
  <2>1. /\ Goes(c, "answered") /\ UNCHANGED laneVars
        /\ \A d \in Call : job'[d].conn = job[d].conn
    BY <1>0, <1>6 DEF Consume, Unreached
  <2>2. g # NoGroup => turn'[Inner(c)] = "running" /\ laneOf'[Inner(c)] = g
    BY <1>0, <1>6, <2>1 DEF Consume, Unreached, Docked, laneVars
  <2> QED BY <2>1, <2>2, InnerTurn
<1>7. CASE Answer(c) \/ LoseAnswer(c)
  BY <1>0, <1>7, InnerTurn DEF Answer, LoseAnswer
<1>8. CASE GapBegins(c)
  <2>1. \A d \in Call : job'[d].conn = job[d].conn /\ pc'[d] = pc[d]
    BY <1>8 DEF GapBegins, callVars
  <2>2. SlotStep(Inner(c)) /\ pc'[c] = "fetched"
    BY <1>8 DEF GapBegins, SlotStep, callVars
  <2>3. Docked(c)'
    BY <2>2 DEF Docked
  <2> QED BY <2>1, <2>2, <2>3, OthersDocked
<1>9. CASE LeaveLane(c)
  BY <1>0, <1>9, InnerTurn DEF LeaveLane, Leaves, SlotStep
<1>10. CASE Return(c) \/ PersistFails(c) \/ GuardFails(c)
  <2>1. PICK rows, ran : Resolves(c, rows, ran)
    BY <1>10 DEF Return, PersistFails, GuardFails
  <2>2. \A d \in Call : /\ job'[d].conn = job[d].conn
                        /\ (pc'[d] = pc[d] /\ d # c) \/ pc'[d] \in {"idle", "returned"}
    BY <1>0, <2>1 DEF Resolves, Resumes
  <2>3. UNCHANGED laneVars
    BY <2>1 DEF Resolves
  <2> QED BY <2>2, <2>3, UndockedTurn
<1>11. CASE WriteBack(c)
  BY <1>0, <1>11, OuterTurn DEF WriteBack
<1>12. CASE WriteFails(c)
  BY <1>0, <1>12, OuterTurn DEF WriteFails, Leaves, SlotStep
<1>13. CASE ResolverGap(c)
  BY <1>0, <1>13, OuterTurn DEF ResolverGap, SlotStep
<1>14. CASE ResolverLeaves(c)
  BY <1>0, <1>14, OuterTurn DEF ResolverLeaves, Leaves, SlotStep
<1> QED BY <1>1, <1>2, <1>3, <1>4, <1>5, <1>6, <1>7, <1>8, <1>9, <1>10, <1>11, <1>12,
           <1>13, <1>14 DEF CallStep

\* A crash leaves empty lanes and nobody at the endpoint.
LEMMA CrashDocks ==
    ASSUME TokenInv, Crash
    PROVE  LaneInv' /\ \A d \in Call : Docked(d)'
<1>1. LaneInv'
  BY LaneAssumption DEF TokenInv, LaneInv, TypeCorrectLane, Ordered, Linked, Ended, In, Crash
<1> QED BY <1>1 DEF Docked, Crash

-----------------------------------------------------------------------------
(* The tokens.                                                             *)

\* No family ever shrinks.
TokensStay == \A x \in Conn : Tokens(x) \subseteq Tokens(x)'

\* A caller that is not moved keeps what it holds.
LEMMA HeldStays ==
    ASSUME TokenInv, NEW d \in Call, TokensStay, job'[d] = job[d], pc'[d] = pc[d]
    PROVE  Held(d)'
BY DEF TokenInv, Minted, Held, TokensStay, Tokens

\* A job that got t is one.
LEMMA GotJob ==
    ASSUME NEW j \in Job, NEW t \in Nat
    PROVE  /\ [j EXCEPT !.got = t] \in Job /\ [j EXCEPT !.got = t].got = t
           /\ [j EXCEPT !.got = t].conn = j.conn /\ [j EXCEPT !.got = t].kind = j.kind
           /\ [j EXCEPT !.got = t].sent = j.sent /\ [j EXCEPT !.got = t].read = j.read
OBVIOUS

\* What a turn keeps of the tokens.
TokensKeep == Minted' /\ \A d \in Call : Held(d)'

LEMMA LoadMints ==
    ASSUME TokenInv, NEW c \in Call, NEW k \in Kinds, NEW x \in Conn, Load(c, k, x)
    PROVE  TokensKeep
<1>1. /\ TokensStay /\ Minted /\ (\A d \in Call : Held(d))
      /\ db[x].token \in Nat /\ db[x].token \in Tokens(x) /\ Tokens(x)' = Tokens(x)
  BY DEF TokensStay, Tokens, Load, upstreamVars, TokenInv, Minted
<1>2. Minted'
  BY <1>1, TokenAssumption DEF Minted, Tokens, Load, Goes, NoJob, upstreamVars
<1>3. ASSUME NEW d \in Call PROVE Held(d)'
  <2>1. CASE d # c
    BY <1>1, <2>1, HeldStays DEF Load, Goes, Minted
  <2>2. CASE d = c
    BY <1>1, <2>2 DEF Held, Load, Goes, NoJob, Minted
  <2> QED BY <2>1, <2>2
<1> QED BY <1>2, <1>3 DEF TokensKeep

\* The turns that leave jobs, tokens and rows alone.
LEMMA MovesMint ==
    ASSUME TokenInv, NEW c \in Call,
           NEW w \in {"outside", "inside", "queued", "sharing", "answered", "persisting", "gap",
                    "idle"},
           w = "answered" => pc[c] = "posting",
           pc[c] # "idle", Goes(c, w), UNCHANGED <<job, rotated, upstreamVars, misled>>,
           lost' \subseteq Conn \X Nat, entry' \in [Conn -> Call \cup {NoCall}],
           UNCHANGED db
             \/ (job[c].got # 0 /\ db' = [db EXCEPT ![job[c].conn] = Row(job[c].got)])
    PROVE  TokensKeep
<1>1. TokensStay /\ Minted /\ Held(c)
  BY DEF TokensStay, Tokens, upstreamVars, TokenInv
<1>2. job[c].conn \in Conn /\ (job[c].got # 0 => job[c].got \in Tokens(job[c].conn))
  BY <1>1 DEF Held, Minted
<1>3. /\ db' \in [Conn -> [token : Nat, valid : BOOLEAN]]
      /\ \A x \in Conn : db'[x].token \in Tokens(x)
  <2>1. CASE UNCHANGED db
    BY <1>1, <2>1 DEF Minted
  <2>2. CASE job[c].got # 0 /\ db' = [db EXCEPT ![job[c].conn] = Row(job[c].got)]
    <3>1. Row(job[c].got) \in [token : Nat, valid : BOOLEAN]
      BY <1>1 DEF Row, Minted
    <3>2. /\ db'[job[c].conn] = Row(job[c].got)
          /\ \A x \in Conn : x # job[c].conn => db'[x] = db[x]
      BY <1>1, <1>2, <2>2 DEF Minted
    <3>3. db' \in [Conn -> [token : Nat, valid : BOOLEAN]]
      BY <1>1, <2>2, <3>1 DEF Minted
    <3> QED BY <1>1, <1>2, <2>2, <3>2, <3>3 DEF Minted, Row
  <2> QED BY <2>1, <2>2
<1>4. Minted'
  BY <1>1, <1>3 DEF Minted, Tokens, Goes, upstreamVars
<1>5. ASSUME NEW d \in Call PROVE Held(d)'
  <2>1. CASE d # c
    BY <1>1, <2>1, HeldStays DEF Goes, Minted
  <2>2. CASE d = c
    BY <1>1, <2>2 DEF Held, Goes, Minted, Tokens, upstreamVars
  <2> QED BY <2>1, <2>2
<1> QED BY <1>4, <1>5 DEF TokensKeep

\* A refresh takes over a token of the map or of the row, or sends the row's or
\* the one that was read.
LEMMA StartMints ==
    ASSUME TokenInv, NEW c \in Call, StartRefresh(c) \/ RereadFails(c)
    PROVE  TokensKeep
<1> DEFINE x == job[c].conn
<1>1. /\ TokensStay /\ Minted /\ Held(c) /\ x \in Conn /\ pc[c] = "queued"
      /\ UNCHANGED <<entry, rotated, upstreamVars, db, lost>>
  BY DEF TokensStay, Tokens, upstreamVars, TokenInv, Minted, StartRefresh, RereadFails
<1>2. \/ \E t \in Tokens(x) : job' = [job EXCEPT ![c].got = t] /\ Goes(c, "fetched")
      \/ \E t \in Tokens(x) : job' = [job EXCEPT ![c].sent = t] /\ Goes(c, "posting")
  <2>1. \A p \in rotated[x] : p[2] \in Tokens(x)
    BY <1>1 DEF Minted
  <2>2. db[x].token \in Tokens(x) /\ job[c].read \in Tokens(x)
    BY <1>1 DEF Minted, Held
  <2> QED BY <2>1, <2>2 DEF StartRefresh, RereadFails, Hits
<1>3. Tokens(x) \subseteq Nat /\ issued' = issued
  BY <1>1 DEF Minted, Tokens, upstreamVars
<1>4. Minted'
  <2>1. UNCHANGED <<entry, issued, rotated, db, live, revoked, reused, lost>>
    BY <1>1 DEF upstreamVars
  <2>2. misled' \subseteq Conn \X Nat
    <3>1. \A T : Stale(x, T) \subseteq Conn \X Nat
      BY <1>1, <1>3 DEF Stale, Used, Tokens
    <3> QED BY <1>1, <3>1 DEF StartRefresh, RereadFails, Minted
  <2>3. /\ pc' \in [Call -> Place]
        /\ job' \in [Call -> Job]
    <3>1. CASE \E t \in Tokens(x) : job' = [job EXCEPT ![c].got = t] /\ Goes(c, "fetched")
      <4>1. PICK t \in Nat : job' = [job EXCEPT ![c].got = t]
        BY <1>3, <3>1
      <4> HIDE DEF Job
      <4>2. [job[c] EXCEPT !.got = t] \in Job
        <5>1. job[c] \in Job
          BY <1>1 DEF Minted
        <5> QED BY <5>1, JobNotes
      <4> QED BY <1>1, <3>1, <4>1, <4>2 DEF Minted, Goes
    <3>2. CASE \E t \in Tokens(x) : job' = [job EXCEPT ![c].sent = t] /\ Goes(c, "posting")
      <4>1. PICK t \in Nat : job' = [job EXCEPT ![c].sent = t]
        BY <1>3, <3>2
      <4> HIDE DEF Job
      <4>2. [job[c] EXCEPT !.sent = t] \in Job
        <5>1. job[c] \in Job
          BY <1>1 DEF Minted
        <5> QED BY <5>1, JobNotes
      <4> QED BY <1>1, <3>2, <4>1, <4>2 DEF Minted, Goes
    <3> QED BY <1>2, <3>1, <3>2
  <2> QED BY <1>1, <2>1, <2>3, <2>2 DEF Minted, Tokens
<1>5. ASSUME NEW d \in Call PROVE Held(d)'
  <2>1. CASE d # c
    BY <1>1, <1>2, <2>1, HeldStays DEF Goes, Minted
  <2>2. CASE d = c
    <3>1. /\ job'[c].conn = x /\ job'[c].kind = job[c].kind
          /\ pc'[c] \in {"fetched", "posting"}
          /\ job'[c].got \in {job[c].got} \cup Tokens(x)
          /\ pc'[c] = "posting" => job'[c].sent \in Tokens(x)
          /\ job'[c].read = job[c].read
      BY <1>1, <1>2, <1>3 DEF Goes, Minted
    <3>2. Tokens(x)' = Tokens(x)
      BY <1>3, <3>1 DEF Tokens
    <3> QED BY <1>1, <2>2, <3>1, <3>2 DEF Held
  <2> QED BY <2>1, <2>2
<1> QED BY <1>4, <1>5 DEF TokensKeep

\* A POST with a good token issues its successor; another ends the family.
LEMMA ConsumeMints ==
    ASSUME TokenInv, NEW c \in Call, Consume(c)
    PROVE  TokensKeep
<1>0. PICK x \in Conn, n \in Nat : x = job[c].conn /\ n = issued[x] + 1
  BY DEF TokenInv, Minted
<1>1. /\ Minted /\ Held(c) /\ issued[x] \in Nat /\ pc[c] = "posting"
      /\ UNCHANGED <<entry, rotated, db, lost, misled>>
      /\ job[c].read \in Tokens(x)
      /\ pc' = [pc EXCEPT ![c] = "answered"] /\ job[c].sent \in Tokens(x)
  BY <1>0 DEF TokenInv, Minted, Consume, Goes, Held
<1>2. CASE job[c].sent \in live[x]
  <2>1. /\ issued' = [issued EXCEPT ![x] = n]
        /\ live' = [live EXCEPT ![x] = (@ \ {job[c].sent}) \cup {n}]
        /\ job' = [job EXCEPT ![c].got = n] /\ UNCHANGED <<revoked, reused>>
    BY <1>0, <1>1, <1>2 DEF Consume, Minted
  <2>2. /\ issued' \in [Conn -> Nat]
        /\ Tokens(x)' = Tokens(x) \cup {n}
        /\ \A y \in Conn : y # x => Tokens(y)' = Tokens(y)
    <3>1. issued' \in [Conn -> Nat] /\ issued'[x] = n
          /\ \A y \in Conn : y # x => issued'[y] = issued[y]
      BY <1>0, <1>1, <2>1 DEF Minted
    <3>2. 1..n = (1..issued[x]) \cup {n}
      BY <1>0, <1>1
    <3> QED BY <3>1, <3>2 DEF Tokens
  <2>3. TokensStay
    BY <1>0, <2>2 DEF TokensStay
  <2>4. /\ live' \in [Conn -> SUBSET Nat]
        /\ \A y \in Conn : live'[y] \subseteq Tokens(y)'
    <3>1. /\ live'[x] = (live[x] \ {job[c].sent}) \cup {n}
          /\ \A y \in Conn : y # x => live'[y] = live[y]
      BY <1>0, <1>1, <2>1 DEF Minted
    <3>2. live' \in [Conn -> SUBSET Nat]
      BY <1>0, <1>1, <2>1 DEF Minted
    <3> QED BY <1>0, <1>1, <2>2, <3>1, <3>2 DEF Minted
  <2>5. /\ job' \in [Call -> Job] /\ job'[c] = [job[c] EXCEPT !.got = n]
        /\ \A d \in Call : d # c => job'[d] = job[d]
    <3> HIDE DEF Job
    <3>1. job[c] \in Job /\ [job[c] EXCEPT !.got = n] \in Job
      BY <1>0, <1>1, GotJob DEF Minted
    <3> QED BY <1>1, <2>1, <3>1 DEF Minted
  <2>6. pc' \in [Call -> Place] /\ pc'[c] = "answered"
        /\ \A d \in Call : d # c => pc'[d] = pc[d]
    BY <1>1 DEF Minted
  <2>7. Minted'
    BY <1>1, <2>1, <2>2, <2>3, <2>4, <2>5, <2>6 DEF Minted, TokensStay
  <2>8. Held(c)'
    <3>1. /\ job'[c].conn = x /\ job'[c].got = n
          /\ job'[c].sent = job[c].sent /\ job'[c].read = job[c].read
      BY <1>0, <1>1, <2>5, GotJob DEF Minted
    <3> QED BY <1>1, <2>2, <2>6, <3>1 DEF Held
  <2>9. \A d \in Call : d # c => Held(d)'
    BY <2>3, <2>5, <2>6, HeldStays
  <2> QED BY <2>7, <2>8, <2>9 DEF TokensKeep
<1>3. CASE job[c].sent \notin live[x]
  <2>1. /\ live' = [live EXCEPT ![x] = {}] \/ UNCHANGED live
        /\ revoked' = [revoked EXCEPT ![x] = @ \cup live[x]] \/ UNCHANGED revoked
        /\ reused' \subseteq reused \cup {<<x, job[c].sent>>} /\ UNCHANGED <<issued, job>>
    BY <1>0, <1>3 DEF Consume
  <2>2. TokensStay
    BY <2>1 DEF TokensStay, Tokens
  <2>3. Minted'
    <3>1. /\ live' \in [Conn -> SUBSET Nat]
          /\ \A y \in Conn : live'[y] \subseteq Tokens(y)
      BY <1>1, <2>1 DEF Minted
    <3>2. /\ revoked' \in [Conn -> SUBSET Nat]
          /\ \A y \in Conn : revoked'[y] \subseteq Tokens(y)
      <4>1. CASE UNCHANGED revoked
        BY <1>1, <4>1 DEF Minted
      <4>2. CASE revoked' = [revoked EXCEPT ![x] = @ \cup live[x]]
        <5>1. /\ revoked'[x] = revoked[x] \cup live[x]
              /\ \A y \in Conn : y # x => revoked'[y] = revoked[y]
          BY <1>1, <4>2 DEF Minted
        <5>2. revoked[x] \cup live[x] \in SUBSET Nat
          BY <1>1 DEF Minted
        <5>3. revoked' \in [Conn -> SUBSET Nat]
          BY <1>1, <4>2, <5>2 DEF Minted
        <5> QED BY <1>1, <5>1, <5>3 DEF Minted
      <4> QED BY <2>1, <4>1, <4>2
    <3>3. reused' \subseteq Conn \X Nat
      BY <1>0, <1>1, <2>1 DEF Minted, Tokens
    <3> QED BY <1>1, <2>1, <3>1, <3>2, <3>3 DEF Minted, Tokens
  <2>4. Held(c)'
    BY <1>0, <1>1, <2>1 DEF Held, Minted, Tokens
  <2>5. \A d \in Call : d # c => Held(d)'
    BY <1>1, <2>1, <2>2, HeldStays DEF Minted
  <2> QED BY <2>3, <2>4, <2>5 DEF TokensKeep
<1> QED BY <1>2, <1>3

LEMMA AnswerMints ==
    ASSUME TokenInv, NEW c \in Call, Answer(c) \/ LoseAnswer(c)
    PROVE  TokensKeep
<1> DEFINE x == job[c].conn
<1>1. /\ Minted /\ Held(c) /\ x \in Conn /\ TokensStay /\ pc[c] = "answered"
      /\ job[c].sent \in Tokens(x) /\ job[c].sent \in Nat
      /\ UNCHANGED <<entry, db, issued, live, revoked, reused, misled>>
      /\ pc' = [pc EXCEPT ![c] = "fetched"]
  BY DEF TokenInv, Minted, Answer, LoseAnswer, Goes, Held, TokensStay, Tokens, upstreamVars
<1>2. CASE Answer(c)
  <2>1. /\ UNCHANGED <<job, lost>>
        /\ rotated' = IF job[c].got = 0 THEN rotated
                      ELSE [rotated EXCEPT ![x] = @ \cup {<<job[c].sent, job[c].got>>}]
    BY <1>2 DEF Answer
  <2>2. job[c].got # 0 => job[c].got \in Tokens(x) /\ job[c].got \in Nat
    BY <1>1 DEF Held, Minted
  <2>3. /\ rotated' \in [Conn -> SUBSET (Nat \X Nat)]
        /\ \A y \in Conn : rotated'[y] \subseteq Tokens(y) \X Tokens(y)
    BY <1>1, <2>1, <2>2 DEF Minted
  <2>4. Minted'
    BY <1>1, <2>1, <2>3 DEF Minted, Tokens
  <2>5. Held(c)'
    BY <1>1, <2>1 DEF Held, Minted, Tokens
  <2>6. \A d \in Call : d # c => Held(d)'
    BY <1>1, <2>1, HeldStays DEF Minted
  <2> QED BY <2>4, <2>5, <2>6 DEF TokensKeep
<1>3. CASE LoseAnswer(c)
  <2>1. /\ job' = [job EXCEPT ![c].got = 0] /\ UNCHANGED rotated
        /\ lost' \subseteq lost \cup {<<x, job[c].sent>>}
    BY <1>3 DEF LoseAnswer
  <2>2. job' \in [Call -> Job] /\ job'[c] = [job[c] EXCEPT !.got = 0]
        /\ \A d \in Call : d # c => job'[d] = job[d]
    <3> HIDE DEF Job
    <3>1. [job[c] EXCEPT !.got = 0] \in Job
      <4>1. job[c] \in Job
        BY <1>1 DEF Minted
      <4> QED BY <4>1, JobNotes
    <3> QED BY <1>1, <2>1, <3>1 DEF Minted
  <2>3. Minted'
    BY <1>1, <2>1, <2>2 DEF Minted, Tokens
  <2>4. Held(c)'
    BY <1>1, <2>2 DEF Held, Minted, Tokens
  <2>5. \A d \in Call : d # c => Held(d)'
    BY <1>1, <2>2, HeldStays DEF Minted
  <2> QED BY <2>3, <2>4, <2>5 DEF TokensKeep
<1> QED BY <1>2, <1>3

\* The result goes to those who share it, who are of the same connection.
LEMMA ReturnMints ==
    ASSUME TokenInv, NEW c \in Call, Return(c) \/ PersistFails(c) \/ GuardFails(c)
    PROVE  TokensKeep
<1> DEFINE x == job[c].conn
           t == job[c].got
<1>1. /\ Minted /\ Held(c) /\ x \in Conn /\ t \in Nat /\ (t # 0 => t \in Tokens(x))
      /\ UNCHANGED <<issued, live, revoked, reused, rotated, misled>> /\ TokensStay
  BY DEF TokenInv, Minted, Held, Return, PersistFails, GuardFails, Resolves, upstreamVars,
         TokensStay, Tokens
<1>2. PICK rows, ran :
         /\ Resolves(c, rows, ran)
         /\ rows = db \/ (t # 0 /\ rows = [db EXCEPT ![x] = Row(t)])
  BY DEF Return, PersistFails, GuardFails, Written, Persists
<1>3. /\ db' \in [Conn -> [token : Nat, valid : BOOLEAN]]
      /\ \A y \in Conn : db'[y].token \in Tokens(y)
  <2>1. CASE db' = db
    BY <1>1, <2>1 DEF Minted
  <2>2. CASE t # 0 /\ db' = [db EXCEPT ![x] = Row(t)]
    <3>1. Row(t) \in [token : Nat, valid : BOOLEAN] /\ Row(t).token = t
      BY <1>1 DEF Row
    <3> HIDE DEF t
    <3> QED BY <1>1, <2>2, <3>1 DEF Minted
  <2> QED BY <1>2, <2>1, <2>2 DEF Resolves
<1>4. ASSUME NEW d \in Call
      PROVE  /\ pc'[d] \in Place
             /\ job'[d] \in Job /\ job'[d].kind = job[d].kind /\ job'[d].conn = job[d].conn
             /\ job'[d].read = job[d].read
             /\ \/ d # c /\ pc'[d] = pc[d] /\ job'[d] = job[d]
                \/ /\ job[d].conn = x /\ job'[d].got = t /\ pc[d] # "idle"
                   /\ pc'[d] = "returned" /\ t = 0 => job[d].kind = "resolver"
                   /\ pc'[d] \in {"idle", "returned"}
  <2> HIDE DEF Job, t
  <2>0. job[d] \in Job /\ t \in Nat /\ pc[d] \in Place /\ pc[c] = "persisting"
    BY <1>1, <1>2 DEF Minted, Resolves
  <2>1. CASE d = c
    <3>1. job'[d] = job[d] /\ pc'[d] = Resumes(d, t, ran) /\ job[d].got = t
      BY <1>2, <2>0, <2>1 DEF Resolves, t
    <3> QED BY <2>0, <2>1, <3>1 DEF Resumes
  <2>2. CASE d # c /\ ~(pc[d] = "sharing" /\ job[d].conn = x)
    BY <1>1, <1>2, <2>2 DEF Resolves, Minted
  <2>3. CASE d # c /\ pc[d] = "sharing" /\ job[d].conn = x
    <3>1. job'[d] = [job[d] EXCEPT !.got = t] /\ pc'[d] = Resumes(d, t, FALSE)
      BY <1>2, <2>3 DEF Resolves, t
    <3>2. /\ job'[d] \in Job /\ job'[d].kind = job[d].kind /\ job'[d].conn = job[d].conn
          /\ job'[d].got = t /\ job'[d].read = job[d].read
      BY <2>0, <3>1, GotJob
    <3> QED BY <2>0, <2>3, <3>1, <3>2 DEF Resumes
  <2> QED BY <2>1, <2>2, <2>3
<1>5. Minted'
  <2>1. pc' \in [Call -> Place] /\ job' \in [Call -> Job]
    BY <1>2, <1>4 DEF Resolves
  <2>2. entry' \in [Conn -> Call \cup {NoCall}]
    BY <1>1 DEF Return, PersistFails, GuardFails, FreesMutex, Minted
  <2>3. lost' \subseteq Conn \X Nat
    <3>1. Unsaved(x) \subseteq Conn \X Nat /\ lost \subseteq Conn \X Nat
      BY <1>1 DEF Unsaved, Stale, Minted
    <3>2. lost' \subseteq lost \cup Unsaved(x)
      BY DEF Return, PersistFails, GuardFails
    <3> QED BY <3>1, <3>2
  <2> QED BY <1>1, <1>3, <2>1, <2>2, <2>3 DEF Minted, Tokens
<1>6. ASSUME NEW d \in Call PROVE Held(d)'
  <2>1. CASE d # c /\ pc'[d] = pc[d] /\ job'[d] = job[d]
    BY <1>1, <2>1, HeldStays
  <2>2. CASE /\ job[d].conn = x /\ job'[d].got = t /\ pc[d] # "idle"
             /\ pc'[d] = "returned" /\ t = 0 => job[d].kind = "resolver"
             /\ pc'[d] \in {"idle", "returned"}
    BY <1>1, <1>4, <2>2 DEF Held, Tokens, TokenInv
  <2> QED BY <1>4, <2>1, <2>2
<1> QED BY <1>5, <1>6 DEF TokensKeep

\* Every turn of a caller keeps tokens where they belong.
LEMMA CallStepMints ==
    ASSUME TokenInv, NEW c \in Call, CallStep(c)
    PROVE  TokensKeep
<1>0. /\ Minted /\ Held(c) /\ job[c].conn \in Conn /\ lost \subseteq Conn \X Nat
      /\ entry \in [Conn -> Call \cup {NoCall}]
      /\ \A x \in Conn : Unsaved(x) \subseteq Conn \X Nat
  BY DEF TokenInv, Minted, Unsaved, Stale
<1>1. CASE \E k \in Kinds, x \in Conn : Load(c, k, x)
  BY <1>1, LoadMints
<1>2. CASE ResolverQueues(c) \/ ResolverEnters(c)
  BY <1>0, <1>2, MovesMint DEF ResolverQueues, ResolverEnters
<1>3. CASE GetAccessToken(c)
  BY <1>0, <1>3, MovesMint DEF GetAccessToken
<1>4. CASE LeaveLane(c) \/ ResolverGap(c)
  BY <1>0, <1>4, MovesMint DEF LeaveLane, ResolverGap
<1>5. CASE WriteBack(c)
  <2>1. job[c].got # 0
    BY <1>0, <1>5 DEF WriteBack, Held
  <2> QED BY <1>0, <1>5, <2>1, MovesMint DEF WriteBack
<1>6. CASE ResolverLeaves(c)
  BY <1>0, <1>6, MovesMint DEF ResolverLeaves
<1>7. CASE WriteFails(c)
  BY <1>0, <1>7, MovesMint DEF WriteFails
<1>8. CASE GapBegins(c)
  <2>1. UNCHANGED <<pc, job, entry, rotated, issued, live, revoked, reused, db, lost, misled>>
    BY <1>8 DEF GapBegins, callVars, upstreamVars
  <2> QED BY <2>1 DEF TokenInv, TokensKeep, Minted, Held, Tokens
<1>9. CASE Unreached(c)
  BY <1>0, <1>9, MovesMint DEF Unreached
<1> QED BY <1>1, <1>2, <1>3, <1>4, <1>5, <1>6, <1>7, <1>8, <1>9, StartMints, ConsumeMints,
           AnswerMints, ReturnMints DEF CallStep

-----------------------------------------------------------------------------
(* The surroundings.                                                       *)

\* A sign-in begins a family with a new token.
LEMMA LoginKeeps ==
    ASSUME TokenInv, NEW x \in Conn, Login(x)
    PROVE  TokenInv'
<1>0. PICK n \in Nat : n = issued[x] + 1
  BY DEF TokenInv, Minted
<1>1. /\ Minted /\ issued[x] \in Nat
      /\ UNCHANGED <<laneVars, pc, job, entry, rotated, revoked, reused, lost, misled>>
      /\ issued' = [issued EXCEPT ![x] = n]
      /\ live' = [live EXCEPT ![x] = @ \cup {n}]
      /\ db' = [db EXCEPT ![x] = Row(n)]
  BY <1>0 DEF TokenInv, Minted, Login, callVars
<1>2. /\ issued' \in [Conn -> Nat]
      /\ Tokens(x)' = Tokens(x) \cup {n}
      /\ \A y \in Conn : y # x => Tokens(y)' = Tokens(y)
  <2>1. issued' \in [Conn -> Nat] /\ issued'[x] = n
        /\ \A y \in Conn : y # x => issued'[y] = issued[y]
    BY <1>1 DEF Minted
  <2>2. 1..n = (1..issued[x]) \cup {n}
    BY <1>0, <1>1
  <2> QED BY <2>1, <2>2 DEF Tokens
<1>3. TokensStay
  BY <1>2 DEF TokensStay
<1>4. /\ live' \in [Conn -> SUBSET Nat]
      /\ \A y \in Conn : live'[y] \subseteq Tokens(y)'
  <2>1. live'[x] = live[x] \cup {n} /\ \A y \in Conn : y # x => live'[y] = live[y]
    BY <1>1 DEF Minted
  <2>2. live' \in [Conn -> SUBSET Nat]
    BY <1>1 DEF Minted
  <2> QED BY <1>1, <1>2, <2>1, <2>2 DEF Minted
<1>5. /\ db' \in [Conn -> [token : Nat, valid : BOOLEAN]]
      /\ \A y \in Conn : db'[y].token \in Tokens(y)'
  <2>1. Row(n) \in [token : Nat, valid : BOOLEAN] /\ Row(n).token = n
    BY DEF Row
  <2>2. db'[x] = Row(n) /\ \A y \in Conn : y # x => db'[y] = db[y]
    BY <1>1 DEF Minted
  <2>3. db' \in [Conn -> [token : Nat, valid : BOOLEAN]]
    BY <1>1, <2>1 DEF Minted
  <2> QED BY <1>1, <1>2, <2>1, <2>2, <2>3 DEF Minted
<1>6. Minted'
  BY <1>1, <1>2, <1>3, <1>4, <1>5 DEF Minted, TokensStay
<1>7. \A d \in Call : Held(d)'
  BY <1>1, <1>3, HeldStays
<1>8. LaneInv' /\ \A d \in Call : Docked(d)'
  BY <1>1, LaneStep DEF TokenInv, Docked, LaneOfCall, laneVars
<1> QED BY <1>6, <1>7, <1>8 DEF TokenInv

\* An access token that expires and an entry of the map that lapses.
LEMMA LapseKeeps ==
    ASSUME TokenInv, NEW x \in Conn, AccessExpires(x) \/ RotationLapses(x)
    PROVE  TokenInv'
<1>1. /\ Minted
      /\ UNCHANGED <<laneVars, pc, job, entry, issued, live, revoked, reused, lost, misled>>
  BY DEF TokenInv, AccessExpires, RotationLapses, callVars, upstreamVars
<1>2. CASE AccessExpires(x)
  <2>1. db' = [db EXCEPT ![x].valid = FALSE] /\ UNCHANGED rotated
    BY <1>2 DEF AccessExpires, callVars
  <2>2. /\ db' \in [Conn -> [token : Nat, valid : BOOLEAN]]
        /\ \A y \in Conn : db'[y].token = db[y].token
    <3>1. db \in [Conn -> [token : Nat, valid : BOOLEAN]]
      BY <1>1 DEF Minted
    <3>2. /\ [db[x] EXCEPT !.valid = FALSE] \in [token : Nat, valid : BOOLEAN]
          /\ [db[x] EXCEPT !.valid = FALSE].token = db[x].token
      BY <3>1
    <3> QED BY <2>1, <3>1, <3>2
  <2> QED BY <1>1, <2>1, <2>2, LaneStep DEF TokenInv, Minted, Held, Tokens, Docked,
                                           LaneOfCall, laneVars
<1>3. CASE RotationLapses(x)
  <2>1. UNCHANGED db /\ \E p \in rotated[x] : rotated' = [rotated EXCEPT ![x] = @ \ {p}]
    BY <1>3 DEF RotationLapses
  <2>2. /\ rotated' \in [Conn -> SUBSET (Nat \X Nat)]
        /\ \A y \in Conn : rotated'[y] \subseteq rotated[y]
    BY <1>1, <2>1 DEF Minted
  <2>3. \A y \in Conn : Tokens(y)' = Tokens(y)
    BY <1>1 DEF Tokens
  <2>4. Minted'
    BY <1>1, <2>1, <2>2, <2>3 DEF Minted
  <2> QED BY <1>1, <2>1, <2>4, LaneStep DEF TokenInv, Held, Tokens, Docked,
                                           LaneOfCall, laneVars
<1> QED BY <1>2, <1>3

\* A crash forgets what is in memory; what upstream issued stays issued.
LEMMA CrashKeeps ==
    ASSUME TokenInv, Crash
    PROVE  TokenInv'
<1>1. Minted'
  BY DEF TokenInv, Minted, Crash, Unsaved, Stale, Tokens, upstreamVars
<1>2. \A d \in Call : Held(d)'
  BY DEF TokenInv, Held, Crash, Tokens, upstreamVars
<1> QED BY <1>1, <1>2, CrashDocks DEF TokenInv

-----------------------------------------------------------------------------
(* The theorems.                                                           *)

\* In every reachable state, faults or not, lanes are lanes, whoever posts has
\* the lane of its group, and tokens are where they belong.
THEOREM TokenInvariant == TokenSpec => []TokenInv
<1>1. TokenInit => TokenInv
  BY LaneInit DEF TokenInit, TokenInv, Minted, Held, Docked, NoJob, Tokens
<1>2. TokenInv /\ [TokenNext]_tokenVars => TokenInv'
  <2> SUFFICES ASSUME TokenInv, [TokenNext]_tokenVars PROVE TokenInv'
    OBVIOUS
  <2>1. CASE UNCHANGED tokenVars
    BY <2>1, LaneStep DEF TokenInv, Minted, Held, Docked, LaneOfCall, Tokens,
                         tokenVars, callVars, upstreamVars, laneVars
  <2>2. ASSUME NEW c \in Call, CallStep(c) PROVE TokenInv'
    BY <2>2, CallStepDocks, CallStepMints DEF TokenInv, TokensKeep
  <2>3. CASE TokenNext
    BY <2>2, <2>3, LoginKeeps, LapseKeeps, CrashKeeps
       DEF TokenNext, Working, Failing, Proceeds, CallStep
  <2> QED BY <2>1, <2>3
<1> QED BY <1>1, <1>2, PTL DEF TokenSpec

\* Never are two accounts of a rotation group in a POST to the token endpoint
\* at once, nor one account twice through one lane: who posts has the lane, and
\* a lane has one at work.
THEOREM OnePostAtATime == TokenSpec => []OnePostPerGroup
<1>1. TokenInv => OnePostPerGroup
  <2> SUFFICES ASSUME TokenInv PROVE OnePostPerGroup
    OBVIOUS
  <2>1. TokenTypeOK
    BY LaneTypes DEF TokenInv, Minted, Tokens, TokenTypeOK
  <2>2. ASSUME NEW c \in Call, NEW d \in Call,
               pc[c] \in {"posting", "answered"}, pc[d] \in {"posting", "answered"},
               LaneOfCall(c) = LaneOfCall(d), LaneOfCall(c) # NoGroup
        PROVE  c = d
    <3>1. /\ Presenting(Inner(c)) /\ Presenting(Inner(d))
          /\ laneOf[Inner(c)] = laneOf[Inner(d)]
      BY <2>2 DEF TokenInv, Docked, Presenting
    <3>2. Inner(c) = Inner(d)
      BY <3>1, Slots, OneWorks DEF TokenInv, OneAtATime
    <3> QED BY <3>2, Slots
  <2> QED BY <2>1, <2>2 DEF OnePostPerGroup
<1> QED BY <1>1, TokenInvariant, PTL

-----------------------------------------------------------------------------
(***************************************************************************)
(* What the tokens are worth, whoever refreshes and whatever fails.  Two   *)
(* invariants: TurnInv says that a connection has one refresh at a time    *)
(* and that the next one begins when the last result is written; ValueInv  *)
(* says, of all who name a token that is to be sent or written (the        *)
(* callers and the rows), that the token is good.  The second needs the    *)
(* first at the one step that uses a token up: nobody else may hold it     *)
(* then.  MapInv says what the rotation map is good for.                   *)
(***************************************************************************)

\* Whether a call's refresh takes a lane.
Serial(c) == LaneOfCall(c) # NoGroup

\* The call runs the refresh its connection's callers share.
Refreshing(c) == pc[c] \in {"queued", "posting", "answered", "fetched", "persisting"}

\* The mutex of a connection is held by the one call that refreshes it.
MutexHeld ==
    /\ \A c \in Call : Refreshing(c) => entry[job[c].conn] = c
    /\ \A x \in Conn : entry[x] # NoCall => Refreshing(entry[x]) /\ job[entry[x]].conn = x

\* A slot is in a lane only while its caller is between queueing and leaving.
Berthed(c) ==
    /\ turn[Inner(c)] # "out" =>
          Serial(c) /\ pc[c] \in {"queued", "posting", "answered", "fetched"}
    /\ turn[Outer(c)] # "out" =>
          Serial(c) /\ job[c].kind = "resolver" /\ pc[c] \notin {"idle", "loaded"}
    /\ pc[c] \in {"outside", "inside", "gap"} => job[c].kind = "resolver"
    /\ pc[c] = "gap" => Serial(c)

\* The outer slot of a resolver is at work in the lane until the resolver
\* leaves, so that the refresh inside it, queued behind, never begins.
Nested(c) ==
    job[c].kind = "resolver" /\ Serial(c) =>
        /\ pc[c] \notin {"posting", "answered", "fetched", "persisting"}
        /\ pc[c] \in {"outside", "inside", "queued", "sharing", "returned", "gap"} =>
              laneOf[Outer(c)] = LaneOfCall(c)
        /\ pc[c] \in {"inside", "queued", "sharing", "returned"} => turn[Outer(c)] = "running"
        /\ pc[c] = "gap" => turn[Outer(c)] = "settling"
        /\ pc[c] = "queued" => <<Outer(c), Inner(c)>> \in before

\* Nothing comes between the steps of a refresh that waits for no lane.
Unserialized(c) ==
    ~Serial(c) /\ pc[c] \in {"outside", "inside", "queued"} =>
        \A d \in Call : d # c /\ ~Serial(d) =>
            pc[d] \notin {"outside", "inside", "queued", "fetched", "persisting", "returned"}

\* While a result waits to be written after the mutex, a new refresh of the
\* connection can only be one that never begins.
Undisturbed(c) ==
    pc[c] = "returned" =>
        \A d \in Call : Refreshing(d) /\ job[d].conn = job[c].conn =>
            pc[d] = "queued" /\ job[d].kind = "resolver" /\ Serial(d)

TurnInv ==
    MutexHeld /\ \A c \in Call : Berthed(c) /\ Nested(c) /\ Unserialized(c) /\ Undisturbed(c)

\* A token that is not used up, or whose successor was lost, or to which a
\* caller was misled.
Good(x, t) == t \in Used(x) => <<x, t>> \in lost \cup misled

\* What callers send and have got is good, and before the answer they have
\* got nothing.
HoldsGood(c) ==
    /\ pc[c] \in {"loaded", "outside", "inside", "queued", "sharing", "posting"} =>
          job[c].got = 0
    /\ pc[c] \in {"answered", "fetched", "persisting", "returned", "gap"} /\ job[c].got # 0 =>
          Good(job[c].conn, job[c].got)
    /\ pc[c] = "posting" => Good(job[c].conn, job[c].sent)

\* The call will write what it has got to the row, or the row's token will count as lost.
WillWrite(c) ==
    /\ job[c].got # 0
    /\ \/ pc[c] = "answered" /\ job[c].sent = db[job[c].conn].token
       \/ pc[c] \in {"fetched", "persisting"}
       \/ pc[c] = "returned" /\ ~(job[c].kind = "resolver" /\ Serial(c))

RowGood ==
    \A x \in Conn : \/ Good(x, db[x].token)
                    \/ \E c \in Call : job[c].conn = x /\ WillWrite(c)

ValueInv ==
    RowGood /\ reused \subseteq lost \cup misled /\ \A c \in Call : HoldsGood(c)

\* The answer under way names a token that nobody has used, newer than the one
\* it was given for.
Fresh(c) ==
    pc[c] = "answered" /\ job[c].got # 0 =>
        job[c].sent < job[c].got /\ job[c].got \notin Used(job[c].conn)

\* Of a used token of x, upstream's answer is known, lost or under way.
Told(x, t) ==
    \/ \E q \in rotated[x] : q[1] = t
    \/ <<x, t>> \in lost
    \/ \E c \in Call : /\ pc[c] = "answered" /\ job[c].conn = x
                       /\ job[c].sent = t /\ job[c].got # 0

MapInv ==
    /\ \A x \in Conn : \A p \in rotated[x] : p[1] < p[2] /\ (p[2] \in Used(x) => Told(x, p[2]))
    /\ \A c \in Call : Fresh(c)

-----------------------------------------------------------------------------
(* A step of one caller, as the others see it.                             *)

LEMMA JobTypes ==
    ASSUME TokenInv, NEW c \in Call
    PROVE  /\ job[c] \in Job /\ job[c].conn \in Conn /\ job[c].got \in Nat
           /\ job[c].kind \in {"health", "reactive", "resolver"}
           /\ job[c].read \in Nat /\ job[c].sent \in Nat
<1> HIDE DEF Job
<1>1. job[c] \in Job
  BY DEF TokenInv, Minted
<1> QED BY <1>1 DEF Job

\* What is noted in a job leaves its connection and its kind alone.
LEMMA JobFields ==
    ASSUME TokenInv, NEW c \in Call, NEW n,
           \/ job' = [job EXCEPT ![c].got = n]
           \/ job' = [job EXCEPT ![c].sent = n]
    PROVE  job'[c].conn = job[c].conn /\ job'[c].kind = job[c].kind
<1> HIDE DEF Job
<1>1. job \in [Call -> Job]
  BY DEF TokenInv, Minted
<1>2. job[c] \in Job
  BY <1>1
<1>3. /\ [job[c] EXCEPT !.got = n].conn = job[c].conn
      /\ [job[c] EXCEPT !.got = n].kind = job[c].kind
      /\ [job[c] EXCEPT !.sent = n].conn = job[c].conn
      /\ [job[c] EXCEPT !.sent = n].kind = job[c].kind
  BY <1>2 DEF Job
<1> QED BY <1>1, <1>3

\* A caller that shares the refresh of c gets what c has got.
Woken(c, d) ==
    /\ pc[d] = "sharing" /\ pc[c] = "persisting" /\ job[d].conn = job[c].conn
    /\ job'[d].conn = job[d].conn /\ job'[d].kind = job[d].kind /\ job'[d].got = job[c].got
    /\ pc'[d] = "returned" \/ (pc'[d] = "idle" /\ job[d].kind # "resolver")
    /\ job[c].got # 0 => pc'[d] = "returned"

Still(d) == pc'[d] = pc[d] /\ job'[d] = job[d]

LEMMA OthersStand ==
    ASSUME TokenInv, NEW c \in Call, CallStep(c), NEW d \in Call, d # c
    PROVE  Still(d) \/ Woken(c, d)
<1>0. pc \in [Call -> Place] /\ job \in [Call -> Job]
  BY DEF TokenInv, Minted
<1>1. CASE Return(c) \/ PersistFails(c) \/ GuardFails(c)
  <2>1. PICK rows, ran : Resolves(c, rows, ran)
    BY <1>1 DEF Return, PersistFails, GuardFails
  <2>2. CASE pc[d] = "sharing" /\ job[d].conn = job[c].conn
    <3>1. job'[d] = [job[d] EXCEPT !.got = job[c].got] /\ pc'[d] = Resumes(d, job[c].got, FALSE)
      BY <2>1, <2>2 DEF Resolves
    <3>2. job[d] \in Job /\ job[c].got \in Nat
      BY JobTypes
    <3>3. /\ job'[d].conn = job[d].conn /\ job'[d].kind = job[d].kind
          /\ job'[d].got = job[c].got
      <4> HIDE DEF Job
      <4> QED BY <3>1, <3>2, GotJob
    <3> QED BY <2>1, <2>2, <3>1, <3>3 DEF Woken, Resolves, Resumes
  <2>3. CASE ~(pc[d] = "sharing" /\ job[d].conn = job[c].conn)
    BY <1>0, <2>1, <2>3 DEF Resolves, Still
  <2> QED BY <2>2, <2>3
<1>2. CASE ~(Return(c) \/ PersistFails(c) \/ GuardFails(c))
  <2> HIDE DEF Job
  <2> QED
    BY <1>0, <1>2 DEF CallStep, Load, ResolverQueues, ResolverEnters, GetAccessToken,
       StartRefresh, RereadFails, Consume, Unreached, Answer, LoseAnswer, GapBegins, LeaveLane,
       WriteBack, WriteFails, ResolverGap, ResolverLeaves, Goes, callVars, Still
<1> QED BY <1>1, <1>2

\* A step of a slot leaves the order of the others alone.
LEMMA OrderKept ==
    ASSUME LaneInv, NEW s \in Slot, SlotStep(s) \/ UNCHANGED laneVars,
           NEW a \in Slot, NEW b \in Slot, a # s, b # s
    PROVE  <<a, b>> \in before' <=> <<a, b>> \in before
BY DEF LaneInv, TypeCorrectLane, SlotStep, Join, Begin, Settle, Leave, laneVars

\* What a caller's turn does in the lanes it does in one of its slots.
LEMMA OneSlotMoves ==
    ASSUME TokenInv, NEW c \in Call, CallStep(c)
    PROVE  \E s \in {Inner(c), Outer(c)} : SlotStep(s) \/ UNCHANGED laneVars
<1>1. LaneOfCall(c) # NoGroup => LaneOfCall(c) \in Group
  BY GroupOfCall DEF TokenInv
<1> QED
  BY <1>1 DEF CallStep, Load, ResolverQueues, ResolverEnters, GetAccessToken, StartRefresh,
     RereadFails, Consume, Unreached, Answer, LoseAnswer, GapBegins, LeaveLane, Return,
     PersistFails, GuardFails, Resolves, WriteBack, WriteFails, ResolverGap, ResolverLeaves,
     Enqueues, Enters, Leaves, SlotStep

\* The slots of the other callers stay as they are.
SlotsStand(d) ==
    /\ turn'[Inner(d)] = turn[Inner(d)] /\ turn'[Outer(d)] = turn[Outer(d)]
    /\ laneOf'[Inner(d)] = laneOf[Inner(d)] /\ laneOf'[Outer(d)] = laneOf[Outer(d)]
    /\ <<Outer(d), Inner(d)>> \in before' <=> <<Outer(d), Inner(d)>> \in before

LEMMA OthersSlotsStand ==
    ASSUME TokenInv, NEW c \in Call, CallStep(c), NEW d \in Call, d # c
    PROVE  SlotsStand(d)
<1>1. PICK s \in {Inner(c), Outer(c)} : SlotStep(s) \/ UNCHANGED laneVars
  BY OneSlotMoves
<1>2. /\ LaneInv /\ s \in Slot /\ Inner(d) \in Slot /\ Outer(d) \in Slot
      /\ s # Inner(d) /\ s # Outer(d)
  <2>1. Outer(c) # Outer(d)
    BY DEF Outer
  <2> QED BY <2>1, Slots DEF TokenInv
<1>3. /\ turn'[Inner(d)] = turn[Inner(d)] /\ turn'[Outer(d)] = turn[Outer(d)]
      /\ laneOf'[Inner(d)] = laneOf[Inner(d)] /\ laneOf'[Outer(d)] = laneOf[Outer(d)]
  BY <1>1, <1>2, SlotStepKeeps
<1>4. <<Outer(d), Inner(d)>> \in before' <=> <<Outer(d), Inner(d)>> \in before
  BY <1>1, <1>2, OrderKept
<1> QED BY <1>3, <1>4 DEF SlotsStand

\* The inner slot of a resolver that is in a lane does not get its turn.
LEMMA NestedWaits ==
    ASSUME TokenInv, NEW c \in Call, Nested(c), StartRefresh(c) \/ RereadFails(c)
    PROVE  ~(job[c].kind = "resolver" /\ Serial(c))
<1> SUFFICES ASSUME job[c].kind = "resolver", Serial(c) PROVE FALSE
  OBVIOUS
<1>1. <<Outer(c), Inner(c)>> \in before
  BY DEF Nested, StartRefresh, RereadFails
<1>2. ahead[Inner(c)] = NoSlot
  BY DEF StartRefresh, RereadFails, Enters, Serial, Begin
<1> QED BY <1>1, <1>2, Slots DEF TokenInv, LaneInv, Linked

-----------------------------------------------------------------------------
(* Whose turn it is.                                                       *)

\* How a turn moves its caller: from idle, and on among the places of one job.
Moves(c) ==
    LET is == pc[c]  will == pc'[c]
    IN  \/ /\ Quiet /\ is = "idle" /\ will = "loaded" /\ job'[c].got = 0
           /\ UNCHANGED <<laneVars, entry>>
        \/ /\ job'[c].conn = job[c].conn /\ job'[c].kind = job[c].kind
           /\ \/ Quiet /\ is = "loaded" /\ will = "outside" /\ job[c].kind = "resolver"
              \/ is = "outside" /\ will = "inside"
              \/ Quiet /\ is = "loaded" /\ will \in {"queued", "sharing"}
                 /\ job[c].kind # "resolver"
              \/ is = "inside" /\ will \in {"queued", "sharing"}
              \/ /\ is = "queued" /\ will \in {"posting", "fetched"}
                 /\ StartRefresh(c) \/ RereadFails(c)
              \/ is = "posting" /\ will = "answered"
              \/ Quiet /\ is = "answered" /\ will = "fetched"
              \/ is = "fetched" /\ will = "fetched" /\ UNCHANGED entry
              \/ is = "fetched" /\ will = "persisting" /\ UNCHANGED entry
              \/ is = "persisting" /\ will \in {"idle", "returned"}
              \/ is \in {"returned", "gap"} /\ will \in {"gap", "idle"}

LEMMA TurnMoves ==
    ASSUME TokenInv, NEW c \in Call, CallStep(c)
    PROVE  Moves(c)
<1>0. pc \in [Call -> Place] /\ job \in [Call -> Job] /\ job[c] \in Job
  BY DEF TokenInv, Minted
<1> DEFINE JobStays == job'[c].conn = job[c].conn /\ job'[c].kind = job[c].kind
<1>1. CASE \E k \in Kinds, x \in Conn : Load(c, k, x)
  BY <1>0, <1>1 DEF Load, Goes, NoJob, Moves
<1>2. CASE ResolverQueues(c) \/ ResolverEnters(c) \/ GetAccessToken(c)
  BY <1>0, <1>2 DEF ResolverQueues, ResolverEnters, GetAccessToken, Goes, Moves
<1>3. CASE StartRefresh(c) \/ RereadFails(c)
  <2>1. pc[c] = "queued" /\ pc'[c] \in {"posting", "fetched"}
    BY <1>0, <1>3 DEF StartRefresh, RereadFails, Goes
  <2>2. JobStays
    BY <1>3, JobFields DEF StartRefresh, RereadFails
  <2> QED BY <1>3, <2>1, <2>2 DEF Moves
<1>4. CASE Consume(c) \/ Unreached(c)
  <2>1. pc[c] = "posting" /\ pc'[c] = "answered"
    BY <1>0, <1>4 DEF Consume, Unreached, Goes
  <2>2. JobStays
    BY <1>4, JobFields DEF Consume, Unreached
  <2> QED BY <2>1, <2>2 DEF Moves
<1>5. CASE Answer(c) \/ LoseAnswer(c)
  <2>1. Quiet /\ pc[c] = "answered" /\ pc'[c] = "fetched"
    BY <1>0, <1>5 DEF Answer, LoseAnswer, Goes
  <2>2. JobStays
    BY <1>5, JobFields DEF Answer, LoseAnswer
  <2> QED BY <2>1, <2>2 DEF Moves
<1>6. CASE GapBegins(c) \/ LeaveLane(c)
  BY <1>0, <1>6 DEF GapBegins, LeaveLane, callVars, Goes, Moves
<1>7. CASE Return(c) \/ PersistFails(c) \/ GuardFails(c)
  <2>1. PICK rows, ran : Resolves(c, rows, ran)
    BY <1>7 DEF Return, PersistFails, GuardFails
  <2>2. pc[c] = "persisting" /\ pc'[c] \in {"idle", "returned"} /\ job'[c] = job[c]
    BY <1>0, <2>1 DEF Resolves, Resumes
  <2> QED BY <2>2 DEF Moves
<1>8. CASE WriteBack(c) \/ WriteFails(c) \/ ResolverGap(c) \/ ResolverLeaves(c)
  BY <1>0, <1>8 DEF WriteBack, WriteFails, ResolverGap, ResolverLeaves, Goes, Moves
<1> QED BY <1>1, <1>2, <1>3, <1>4, <1>5, <1>6, <1>7, <1>8 DEF CallStep

\* What a turn does to the mutex of its connection.
LEMMA MutexStep ==
    ASSUME TokenInv, MutexHeld, NEW c \in Call, CallStep(c)
    PROVE  MutexHeld'
<1> DEFINE x == job[c].conn
<1>0. /\ x \in Conn /\ entry \in [Conn -> Call \cup {NoCall}] /\ Moves(c) /\ NoCall \notin Call
      /\ \A d \in Call : job[d].conn \in Conn
  BY TurnMoves, JobTypes, TokenAssumption DEF TokenInv, Minted
<1>1. \A d \in Call : d # c => (Refreshing(d)' <=> Refreshing(d)) /\ job'[d].conn = job[d].conn
  BY OthersStand DEF Still, Woken, Refreshing
<1>2. CASE GetAccessToken(c)
  <2>1. /\ pc[c] \in {"loaded", "inside"} /\ job' = job
        /\ \/ /\ entry[x] = NoCall /\ entry' = [entry EXCEPT ![x] = c] /\ pc'[c] = "queued"
           \/ entry' = entry /\ pc'[c] = "sharing"
    BY <1>2 DEF GetAccessToken, Goes, TokenInv, Minted
  <2>2. CASE entry' = entry /\ pc'[c] = "sharing"
    <3>1. ~Refreshing(c) /\ ~Refreshing(c)'
      BY <2>1, <2>2 DEF Refreshing
    <3> QED BY <1>0, <1>1, <2>1, <2>2, <3>1 DEF MutexHeld
  <2>3. CASE entry[x] = NoCall /\ entry' = [entry EXCEPT ![x] = c] /\ pc'[c] = "queued"
    <3>1. \A y \in Conn : entry'[y] = IF y = x THEN c ELSE entry[y]
      BY <1>0, <2>3
    <3>2. Refreshing(c)' /\ ~Refreshing(c)
      BY <2>1, <2>3 DEF Refreshing
    <3>3. ASSUME NEW d \in Call, Refreshing(d)' PROVE entry'[job'[d].conn] = d
      BY <1>0, <1>1, <2>1, <2>3, <3>1, <3>3 DEF MutexHeld
    <3>4. ASSUME NEW y \in Conn, entry'[y] # NoCall
          PROVE  (Refreshing(entry[y]) /\ job[entry[y]].conn = y)'
      <4>1. CASE y = x
        BY <2>1, <3>1, <3>2, <4>1 DEF Refreshing
      <4>2. CASE y # x
        <5>1. PICK d \in Call : d = entry[y]
          BY <1>0, <3>1, <3>4, <4>2
        <5>2. Refreshing(d) /\ job[d].conn = y
          BY <3>1, <3>4, <4>2, <5>1 DEF MutexHeld
        <5>3. d # c
          BY <4>2, <5>2
        <5> QED BY <1>1, <3>1, <4>2, <5>1, <5>2, <5>3 DEF Refreshing
      <4> QED BY <4>1, <4>2
    <3> QED BY <3>3, <3>4 DEF MutexHeld
  <2> QED BY <2>1, <2>2, <2>3
<1>3. CASE Return(c) \/ PersistFails(c) \/ GuardFails(c)
  <2>1. /\ pc[c] = "persisting" /\ pc'[c] \in {"idle", "returned"} /\ job'[c] = job[c]
        /\ entry' = [entry EXCEPT ![x] = NoCall]
    BY <1>3 DEF Return, PersistFails, GuardFails, Resolves, FreesMutex, Resumes
  <2>2. Refreshing(c) /\ ~Refreshing(c)'
    BY <2>1 DEF Refreshing
  <2>3. \A y \in Conn : entry'[y] = IF y = x THEN NoCall ELSE entry[y]
    BY <1>0, <2>1
  <2>4. entry[x] = c
    BY <2>2 DEF MutexHeld
  <2>5. ASSUME NEW d \in Call, Refreshing(d)' PROVE entry'[job'[d].conn] = d
    BY <1>0, <1>1, <2>2, <2>3, <2>4, <2>5 DEF MutexHeld
  <2>6. ASSUME NEW y \in Conn, entry'[y] # NoCall
        PROVE  (Refreshing(entry[y]) /\ job[entry[y]].conn = y)'
    <3>1. PICK d \in Call : d = entry[y] /\ y # x
      BY <1>0, <2>3, <2>6
    <3>2. Refreshing(d) /\ job[d].conn = y /\ d # c
      BY <2>3, <2>6, <3>1 DEF MutexHeld
    <3> QED BY <1>1, <2>3, <3>1, <3>2 DEF Refreshing
  <2> QED BY <2>5, <2>6 DEF MutexHeld
<1>4. CASE ~(GetAccessToken(c) \/ Return(c) \/ PersistFails(c) \/ GuardFails(c))
  <2>1. entry' = entry
    BY <1>4 DEF CallStep, Load, ResolverQueues, ResolverEnters, StartRefresh, RereadFails,
       Consume, Unreached, Answer, LoseAnswer, GapBegins, LeaveLane, WriteBack, WriteFails,
       ResolverGap, ResolverLeaves, callVars
  <2>2. /\ Refreshing(c)' <=> Refreshing(c)
        /\ Refreshing(c) => job'[c].conn = x
    <3>1. ~(pc[c] = "persisting" /\ pc'[c] \in {"idle", "returned"})
          /\ ~(pc[c] \in {"loaded", "inside"} /\ pc'[c] \in {"queued", "sharing"})
      BY <1>4 DEF CallStep, Load, ResolverQueues, ResolverEnters, StartRefresh, RereadFails,
         Consume, Unreached, Answer, LoseAnswer, GapBegins, LeaveLane, WriteBack, WriteFails,
         ResolverGap, ResolverLeaves, callVars, Goes, TokenInv, Minted
    <3> QED BY <1>0, <3>1 DEF Moves, Refreshing
  <2> QED BY <1>0, <1>1, <2>1, <2>2 DEF MutexHeld
<1> QED BY <1>2, <1>3, <1>4

\* Where the slots of c go in a turn of c, in a lane or without one.
LEMMA OwnSlots ==
    ASSUME TokenInv, NEW c \in Call, CallStep(c), Berthed(c)
    PROVE  /\ turn'[Inner(c)] # "out" =>
                Serial(c)' /\ pc'[c] \in {"queued", "posting", "answered", "fetched"}
           /\ turn'[Outer(c)] # "out" =>
                Serial(c)' /\ job'[c].kind = "resolver" /\ pc'[c] \notin {"idle", "loaded"}
<1> DEFINE i == Inner(c)
           o == Outer(c)
<1>0. /\ i \in Slot /\ o \in Slot /\ i # o /\ TypeCorrectLane /\ pc \in [Call -> Place]
      /\ Moves(c)
  BY Slots, TurnMoves DEF TokenInv, LaneInv, Minted
<1> HIDE DEF i, o
<1>1. CASE \E k \in Kinds, x \in Conn : Load(c, k, x)
  <2>1. UNCHANGED turn /\ pc[c] = "idle"
    BY <1>1 DEF Load, laneVars
  <2> QED BY <2>1 DEF Berthed
<1>2. ASSUME ~(\E k \in Kinds, x \in Conn : Load(c, k, x))
      PROVE  /\ job'[c].conn = job[c].conn /\ job'[c].kind = job[c].kind
             /\ Serial(c)' <=> Serial(c)
  <2>1. pc[c] # "idle"
    BY <1>2 DEF CallStep, ResolverQueues, ResolverEnters, GetAccessToken, StartRefresh,
       RereadFails, Consume, Unreached, Answer, LoseAnswer, GapBegins, LeaveLane, Return,
       PersistFails, GuardFails, Resolves, WriteBack, WriteFails, ResolverGap, ResolverLeaves
  <2> QED BY <1>0, <2>1 DEF Moves, Serial, LaneOfCall
<1>3. CASE ResolverQueues(c) \/ ResolverEnters(c)
  <2>1. ~Serial(c) => UNCHANGED turn
    BY <1>3 DEF ResolverQueues, ResolverEnters, Enqueues, Enters, laneVars, Serial
  <2>2. turn'[i] = turn[i]
    BY <1>0, <1>3 DEF ResolverQueues, ResolverEnters, Enqueues, Enters, laneVars, Serial, Join,
       Begin, TypeCorrectLane, i, o
  <2>3. job[c].kind = "resolver" /\ pc'[c] \in {"outside", "inside"}
        /\ pc[c] \in {"loaded", "outside"}
    BY <1>0, <1>3 DEF ResolverQueues, ResolverEnters, Berthed, Goes
  <2>4. ~(\E k \in Kinds, x \in Conn : Load(c, k, x))
    BY <2>3 DEF Load
  <2> QED BY <1>2, <2>1, <2>2, <2>3, <2>4 DEF Berthed, i, o
<1>4. CASE GetAccessToken(c) \/ StartRefresh(c) \/ RereadFails(c) \/ LeaveLane(c) \/ GapBegins(c)
  <2>1. ~Serial(c) => UNCHANGED turn
    <3>1. CASE GapBegins(c)
      BY <3>1, <1>0 DEF GapBegins, Settle, Berthed, i
    <3>2. CASE ~GapBegins(c)
      BY <1>4, <3>2 DEF GetAccessToken, StartRefresh, RereadFails, LeaveLane, Enqueues, Enters,
         Leaves, laneVars, Serial
    <3> QED BY <3>1, <3>2
  <2>2. turn'[o] = turn[o]
    BY <1>0, <1>4 DEF GetAccessToken, StartRefresh, RereadFails, LeaveLane, GapBegins, Enqueues,
       Enters, Leaves, laneVars, Join, Begin, Settle, Leave, TypeCorrectLane, i, o
  <2>3. /\ pc[c] \in {"loaded", "inside", "queued", "fetched"}
        /\ pc[c] = "loaded" => job[c].kind # "resolver"
        /\ pc'[c] \in {"queued", "sharing", "posting", "fetched", "persisting"}
    BY <1>0, <1>4 DEF GetAccessToken, StartRefresh, RereadFails, LeaveLane, GapBegins, Goes,
       callVars
  <2>4. pc'[c] \in {"sharing", "persisting"} => turn'[i] = "out"
    <3>1. CASE GetAccessToken(c)
      BY <1>0, <3>1 DEF GetAccessToken, Goes, Berthed, laneVars, i
    <3>2. CASE LeaveLane(c)
      BY <1>0, <3>2 DEF LeaveLane, Leaves, Leave, TypeCorrectLane, Berthed, laneVars, Serial, i
    <3>3. CASE StartRefresh(c) \/ RereadFails(c) \/ GapBegins(c)
      BY <1>0, <3>3 DEF StartRefresh, RereadFails, GapBegins, Goes, callVars
    <3> QED BY <1>4, <3>1, <3>2, <3>3
  <2>5. ~(\E k \in Kinds, x \in Conn : Load(c, k, x))
    BY <2>3 DEF Load
  <2>6. ~Serial(c) => turn'[i] = "out"
    BY <2>1 DEF Berthed, i
  <2> QED BY <1>2, <2>2, <2>3, <2>4, <2>5, <2>6 DEF Berthed, i, o
<1>5. CASE Consume(c) \/ Unreached(c) \/ Answer(c) \/ LoseAnswer(c)
  <2>1. UNCHANGED turn /\ pc[c] \in {"posting", "answered"} /\ pc'[c] \in {"answered", "fetched"}
    BY <1>0, <1>5 DEF Consume, Unreached, Answer, LoseAnswer, Goes, laneVars
  <2>2. ~(\E k \in Kinds, x \in Conn : Load(c, k, x))
    BY <2>1 DEF Load
  <2> QED BY <1>2, <2>1, <2>2 DEF Berthed
<1>6. CASE Return(c) \/ PersistFails(c) \/ GuardFails(c)
  <2>1. PICK rows, ran : Resolves(c, rows, ran)
    BY <1>6 DEF Return, PersistFails, GuardFails
  <2>2. /\ UNCHANGED turn
        /\ pc[c] = "persisting"
        /\ pc'[c] = "returned" \/ (pc'[c] = "idle" /\ job[c].kind # "resolver")
    BY <1>0, <2>1 DEF Resolves, Resumes, laneVars
  <2>3. ~(\E k \in Kinds, x \in Conn : Load(c, k, x))
    BY <2>2 DEF Load
  <2> QED BY <1>2, <2>2, <2>3 DEF Berthed
<1>7. CASE WriteBack(c) \/ WriteFails(c) \/ ResolverGap(c) \/ ResolverLeaves(c)
  <2>1. pc[c] \in {"returned", "gap"} /\ pc'[c] \in {"gap", "idle"}
    BY <1>0, <1>7 DEF WriteBack, WriteFails, ResolverGap, ResolverLeaves, Goes
  <2>2. turn'[i] = turn[i]
    BY <1>0, <1>7 DEF WriteBack, WriteFails, ResolverGap, ResolverLeaves, Leaves, Leave, Settle,
       laneVars, TypeCorrectLane, i, o
  <2>3. pc'[c] = "idle" => turn'[o] = "out"
    <3>1. CASE job[c].kind # "resolver"
      BY <1>7, <3>1 DEF WriteBack, WriteFails, ResolverGap, ResolverLeaves, laneVars, Berthed, o
    <3>2. CASE job[c].kind = "resolver" /\ ~ResolverGap(c)
      <4>1. Leaves(c, o)
        BY <1>7, <3>2 DEF WriteBack, WriteFails, ResolverLeaves, o
      <4> QED BY <1>0, <4>1 DEF Leaves, Leave, TypeCorrectLane, Berthed, laneVars, Serial, o
    <3>3. CASE ResolverGap(c)
      BY <1>0, <3>3 DEF ResolverGap, Goes
    <3> QED BY <3>1, <3>2, <3>3
  <2>4. pc'[c] = "gap" => turn[o] # "out"
    <3>1. CASE ResolverGap(c)
      BY <3>1 DEF ResolverGap, Settle, o
    <3>2. CASE ~ResolverGap(c)
      BY <1>0, <1>7, <3>2 DEF WriteBack, WriteFails, ResolverLeaves, Goes
    <3> QED BY <3>1, <3>2
  <2>5. ~(\E k \in Kinds, x \in Conn : Load(c, k, x))
    BY <2>1 DEF Load
  <2> QED BY <1>2, <2>1, <2>2, <2>3, <2>4, <2>5 DEF Berthed, i, o
<1> QED BY <1>1, <1>3, <1>4, <1>5, <1>6, <1>7 DEF CallStep, i, o

LEMMA BerthedStep ==
    ASSUME TokenInv, NEW c \in Call, CallStep(c), \A d \in Call : Berthed(d)
    PROVE  \A d \in Call : Berthed(d)'
<1>1. ASSUME NEW d \in Call, d # c PROVE Berthed(d)'
  <2>1. Berthed(d) /\ SlotsStand(d)
    BY <1>1, OthersSlotsStand
  <2>2. CASE Still(d)
    BY <2>1, <2>2 DEF Berthed, Still, SlotsStand, Serial, LaneOfCall
  <2>3. CASE Woken(c, d)
    BY <2>1, <2>3 DEF Berthed, Woken, SlotsStand, Serial, LaneOfCall
  <2> QED BY <1>1, <2>2, <2>3, OthersStand
<1>2. Berthed(c)'
  <2>1. Moves(c) /\ pc \in [Call -> Place]
    BY TurnMoves DEF TokenInv, Minted
  <2>2. pc'[c] \in {"outside", "inside", "gap"} => job'[c].kind = "resolver"
    <3>1. pc'[c] = "gap" => ResolverGap(c)
      BY <2>1 DEF CallStep, Load, ResolverQueues, ResolverEnters, GetAccessToken, StartRefresh,
         RereadFails, Consume, Unreached, Answer, LoseAnswer, GapBegins, LeaveLane, Return,
         PersistFails, GuardFails, Resolves, Resumes, WriteBack, WriteFails, ResolverLeaves, Goes,
         callVars
    <3> QED BY <2>1, <3>1 DEF Moves, Berthed, ResolverGap
  <2>3. pc'[c] = "gap" => Serial(c)'
    <3>1. pc'[c] = "gap" => ResolverGap(c)
      BY <2>1 DEF CallStep, Load, ResolverQueues, ResolverEnters, GetAccessToken, StartRefresh,
         RereadFails, Consume, Unreached, Answer, LoseAnswer, GapBegins, LeaveLane, Return,
         PersistFails, GuardFails, Resolves, Resumes, WriteBack, WriteFails, ResolverLeaves, Goes,
         callVars
    <3>2. ResolverGap(c) => Serial(c) /\ job'[c].conn = job[c].conn
      BY DEF ResolverGap, Settle, Berthed
    <3> QED BY <3>1, <3>2 DEF Serial, LaneOfCall
  <2> QED BY <2>2, <2>3, OwnSlots DEF Berthed
<1> QED BY <1>1, <1>2

\* A resolver in a lane waits for the refresh it has started, which waits for it.
LEMMA NestedStep ==
    ASSUME TokenInv, NEW c \in Call, CallStep(c), \A d \in Call : Berthed(d) /\ Nested(d)
    PROVE  \A d \in Call : Nested(d)'
<1>1. ASSUME NEW d \in Call, d # c PROVE Nested(d)'
  <2>1. Nested(d) /\ SlotsStand(d)
    BY <1>1, OthersSlotsStand
  <2>2. CASE Still(d)
    BY <2>1, <2>2 DEF Nested, Still, SlotsStand, Serial, LaneOfCall
  <2>3. CASE Woken(c, d)
    BY <2>1, <2>3 DEF Nested, Woken, SlotsStand, Serial, LaneOfCall
  <2> QED BY <1>1, <2>2, <2>3, OthersStand
<1>2. Nested(c)'
  <2> DEFINE i == Inner(c)
             o == Outer(c)
             g == LaneOfCall(c)
  <2>0. /\ i \in Slot /\ o \in Slot /\ i # o /\ LaneInv /\ TypeCorrectLane
        /\ pc \in [Call -> Place] /\ Moves(c) /\ Berthed(c) /\ Nested(c)
        /\ g # NoGroup => g \in Group
    BY Slots, TurnMoves, GroupOfCall DEF TokenInv, LaneInv, Minted
  <2> HIDE DEF i, o
  <2>1. CASE pc'[c] \in {"idle", "loaded"}
    BY <2>1 DEF Nested
  <2>2. CASE pc'[c] \notin {"idle", "loaded"}
    <3> SUFFICES ASSUME job'[c].kind = "resolver", Serial(c)' PROVE Nested(c)'
      BY DEF Nested
    <3>1. /\ job[c].kind = "resolver" /\ Serial(c) /\ LaneOfCall(c)' = g
          /\ ~(\E k \in Kinds, x \in Conn : Load(c, k, x))
      BY <2>0, <2>2 DEF Moves, Serial, LaneOfCall, Load, Goes
    <3>2. CASE ResolverQueues(c) \/ ResolverEnters(c)
      <4>1. pc'[c] \in {"outside", "inside"} /\ laneOf'[o] = g
        BY <2>0, <3>1, <3>2 DEF ResolverQueues, ResolverEnters, Enqueues, Enters, Join, Begin,
           Goes, Nested, Serial, TypeCorrectLane, o
      <4>2. pc'[c] = "inside" => turn'[o] = "running"
        BY <2>0, <3>1, <3>2 DEF ResolverQueues, ResolverEnters, Enters, Begin,
           Goes, Serial, TypeCorrectLane, o
      <4> QED BY <3>1, <4>1, <4>2 DEF Nested, o
    <3>3. CASE GetAccessToken(c)
      <4>1. /\ pc[c] = "inside" /\ pc'[c] \in {"queued", "sharing"}
            /\ laneOf[o] = g /\ turn[o] = "running"
        BY <2>0, <3>1, <3>3 DEF GetAccessToken, Goes, Nested, o
      <4>2. /\ turn'[o] = "running" /\ laneOf'[o] = g
            /\ pc'[c] = "queued" => <<o, i>> \in before'
        BY <2>0, <3>1, <3>3, <4>1 DEF GetAccessToken, Goes, Enqueues, Serial, Join, laneVars,
           TypeCorrectLane, In, i, o
      <4> QED BY <3>1, <4>1, <4>2 DEF Nested, i, o
    <3>4. ~(StartRefresh(c) \/ RereadFails(c))
      BY <2>0, <3>1, NestedWaits
    <3>5. CASE \/ Consume(c) \/ Unreached(c) \/ Answer(c) \/ LoseAnswer(c)
               \/ GapBegins(c) \/ LeaveLane(c)
      BY <2>0, <3>1, <3>5 DEF Nested, Consume, Unreached, Answer, LoseAnswer, GapBegins, LeaveLane
    <3>6. CASE Return(c) \/ PersistFails(c) \/ GuardFails(c)
      BY <2>0, <3>1, <3>6 DEF Nested, Return, PersistFails, GuardFails, Resolves
    <3>7. CASE WriteBack(c) \/ WriteFails(c) \/ ResolverLeaves(c)
      BY <2>0, <2>2, <3>1, <3>7 DEF WriteBack, WriteFails, ResolverLeaves, Goes
    <3>8. CASE ResolverGap(c)
      <4>1. pc'[c] = "gap" /\ turn'[o] = "settling" /\ laneOf'[o] = g
        BY <2>0, <3>1, <3>8 DEF ResolverGap, Settle, Goes, Nested, TypeCorrectLane, o
      <4> QED BY <3>1, <4>1 DEF Nested, o
    <3> QED BY <3>1, <3>2, <3>3, <3>4, <3>5, <3>6, <3>7, <3>8 DEF CallStep
  <2> QED BY <2>1, <2>2
<1> QED BY <1>1, <1>2

\* On the way to an unserialized refresh, and in the rest of one.
Rushing(c) == ~Serial(c) /\ pc[c] \in {"outside", "inside", "queued"}

Busy(c) ==
    ~Serial(c) /\ pc[c] \in {"outside", "inside", "queued", "fetched", "persisting", "returned"}

\* While the event loop takes something new, nobody is in either.
LEMMA QuietRests ==
    ASSUME Quiet, NEW c \in Call, Berthed(c)
    PROVE  ~Rushing(c) /\ ~Busy(c)
BY DEF Quiet, Berthed, Rushing, Busy, Serial

LEMMA UnserializedStep ==
    ASSUME TokenInv, NEW c \in Call, CallStep(c),
           \A d \in Call : Berthed(d) /\ Nested(d) /\ Unserialized(d)
    PROVE  \A d \in Call : Unserialized(d)'
<1>0. Moves(c)
  BY TurnMoves
<1>1. ASSUME NEW d \in Call, d # c
      PROVE  /\ Rushing(d)' => Rushing(d)
             /\ Busy(d)' => Busy(d) \/ (pc[c] = "persisting" /\ Busy(c))
  <2>1. CASE Still(d)
    BY <2>1 DEF Still, Rushing, Busy, Serial, LaneOfCall
  <2>2. CASE Woken(c, d)
    BY <2>2 DEF Woken, Rushing, Busy, Serial, LaneOfCall
  <2> QED BY <1>1, <2>1, <2>2, OthersStand
<1>2. /\ Rushing(c)' => Quiet \/ (Rushing(c) /\ pc[c] # "persisting")
      /\ Busy(c)' => Quiet \/ Busy(c)
  <2>1. CASE pc'[c] = "fetched" /\ pc[c] = "fetched"
    BY <1>0, <2>1 DEF Moves, Rushing, Busy, Serial, LaneOfCall
  <2>2. CASE ~(pc'[c] = "fetched" /\ pc[c] = "fetched")
    BY <1>0, <2>2 DEF Moves, Rushing, Busy, Serial, LaneOfCall
  <2> QED BY <2>1, <2>2
<1>3. \A d \in Call : Quiet => ~Rushing(d) /\ ~Busy(d)
  BY QuietRests
<1>4. ASSUME NEW a \in Call, NEW b \in Call, a # b PROVE ~(Rushing(a)' /\ Busy(b)')
  <2>0. \A d, e \in Call : d # e => ~(Rushing(d) /\ Busy(e))
    BY DEF Unserialized, Rushing, Busy
  <2>1. CASE a = c
    BY <1>1, <1>2, <1>3, <1>4, <2>0, <2>1
  <2>2. CASE b = c
    BY <1>1, <1>2, <1>3, <1>4, <2>0, <2>2
  <2>3. CASE a # c /\ b # c
    BY <1>1, <1>4, <2>0, <2>3
  <2> QED BY <2>1, <2>2, <2>3
<1> QED BY <1>4 DEF Unserialized, Rushing, Busy

LEMMA UndisturbedStep ==
    ASSUME TokenInv, TurnInv, NEW c \in Call, CallStep(c)
    PROVE  \A d \in Call : Undisturbed(d)'
<1> SUFFICES ASSUME NEW a \in Call, pc'[a] = "returned", NEW d \in Call,
                    Refreshing(d)', job'[d].conn = job'[a].conn
             PROVE  (pc[d] = "queued" /\ job[d].kind = "resolver" /\ Serial(d))'
  BY DEF Undisturbed
<1>0. /\ Moves(c) /\ a # d
      /\ \A e \in Call : Berthed(e) /\ Nested(e) /\ Unserialized(e) /\ Undisturbed(e)
      /\ \A e \in Call : Refreshing(e) => entry[job[e].conn] = e
  BY TurnMoves DEF TurnInv, MutexHeld, Refreshing
<1>1. /\ \A e \in Call : e # c => Still(e) \/ Woken(c, e)
      /\ \A e \in Call : Refreshing(e)' /\ e # c => Still(e) /\ Refreshing(e)
  BY OthersStand DEF Still, Woken, Refreshing
<1>2. CASE pc[c] = "persisting" /\ pc'[c] # "persisting"
  <2>1. Refreshing(c) /\ d # c /\ job'[c].conn = job[c].conn
    BY <1>0, <1>2 DEF Moves, Refreshing
  <2>2. Refreshing(d) /\ job'[d].conn = job[d].conn
    BY <1>1, <2>1 DEF Still
  <2>3. job[a].conn # job[c].conn
    <3>1. job'[a].conn = job[a].conn
      BY <1>1, <2>1 DEF Still, Woken
    <3>2. entry[job[d].conn] = d /\ entry[job[c].conn] = c
      BY <1>0, <2>1, <2>2
    <3> QED BY <2>1, <2>2, <3>1, <3>2
  <2>4. Still(a) /\ Still(d)
    BY <1>1, <2>1, <2>3 DEF Woken
  <2>5. Undisturbed(a) /\ pc[a] = "returned" /\ job[d].conn = job[a].conn /\ Refreshing(d)
    BY <1>0, <2>2, <2>4 DEF Still
  <2> QED BY <2>4, <2>5 DEF Undisturbed, Still, Serial, LaneOfCall
<1>3. CASE ~(pc[c] = "persisting" /\ pc'[c] # "persisting")
  <2>1. Still(a) /\ a # c /\ pc[a] = "returned" /\ Undisturbed(a)
    <3>1. pc[c] # "persisting"
      BY <1>0, <1>3 DEF Moves
    <3>2. a # c
      BY <1>0, <3>1 DEF Moves
    <3> QED BY <1>0, <1>1, <3>1, <3>2 DEF Woken, Still
  <2>2. CASE d # c
    <3>1. Still(d) /\ Refreshing(d)
      BY <1>1, <2>2
    <3> QED BY <2>1, <3>1 DEF Undisturbed, Still, Serial, LaneOfCall
  <2>3. CASE d = c
    <3>1. ~Quiet
      BY <2>1 DEF Quiet
    <3>2. /\ job'[c].conn = job[c].conn /\ job'[c].kind = job[c].kind
          /\ job[a].conn = job[c].conn
      BY <1>0, <2>1, <2>3, <3>1 DEF Moves, Still
    <3>3. CASE Refreshing(c)
      <4>1. pc[c] = "queued" /\ job[c].kind = "resolver" /\ Serial(c)
        BY <2>1, <3>2, <3>3 DEF Undisturbed
      <4>2. StartRefresh(c) \/ RereadFails(c)
        BY <1>0, <3>1, <4>1 DEF Moves
      <4> QED BY <1>0, <4>1, <4>2, NestedWaits
    <3>4. CASE ~Refreshing(c)
      <4>1. pc[c] = "inside" /\ pc'[c] = "queued"
        BY <1>0, <2>3, <3>1, <3>4 DEF Moves, Refreshing
      <4>2. Serial(c)
        BY <1>0, <2>1, <3>2, <4>1 DEF Unserialized, Serial, LaneOfCall
      <4> QED BY <1>0, <2>3, <3>2, <4>1, <4>2 DEF Berthed, Serial, LaneOfCall
    <3> QED BY <3>3, <3>4
  <2> QED BY <2>2, <2>3
<1> QED BY <1>2, <1>3

\* Every turn of a caller leaves the callers in order.
LEMMA TurnsStep ==
    ASSUME TokenInv, TurnInv, NEW c \in Call, CallStep(c)
    PROVE  TurnInv'
BY MutexStep, BerthedStep, NestedStep, UnserializedStep, UndisturbedStep DEF TurnInv

\* So do a sign-in, an expiry and a lapse, which move nobody, and a crash.
LEMMA TurnsStand ==
    ASSUME TurnInv, UNCHANGED <<laneVars, pc, job, entry>>
    PROVE  TurnInv'
BY DEF TurnInv, MutexHeld, Berthed, Nested, Unserialized, Undisturbed, Refreshing, Serial,
       LaneOfCall, laneVars

LEMMA TurnsCrash ==
    ASSUME TokenInv, TurnInv, Crash
    PROVE  TurnInv'
<1>1. MutexHeld'
  BY DEF Crash, MutexHeld, Refreshing
<1>2. ASSUME NEW c \in Call PROVE Berthed(c)'
  BY Slots DEF Crash, Berthed
<1>3. ASSUME NEW c \in Call PROVE Nested(c)' /\ Unserialized(c)' /\ Undisturbed(c)'
  BY DEF Crash, Nested, Unserialized, Undisturbed
<1> QED BY <1>1, <1>2, <1>3 DEF TurnInv

LEMMA TurnsInit == TokenInit => TurnInv
<1> SUFFICES ASSUME TokenInit PROVE TurnInv
  OBVIOUS
<1>1. MutexHeld
  BY DEF TokenInit, MutexHeld, Refreshing
<1>2. ASSUME NEW c \in Call PROVE Berthed(c)
  BY Slots DEF TokenInit, Init, Berthed
<1>3. ASSUME NEW c \in Call PROVE Nested(c) /\ Unserialized(c) /\ Undisturbed(c)
  BY DEF TokenInit, Nested, Unserialized, Undisturbed
<1> QED BY <1>1, <1>2, <1>3 DEF TurnInv

-----------------------------------------------------------------------------
(* What the tokens are worth.                                              *)

\* A connection has one refresh at a time, and none while its last result is
\* still to be written.
LEMMA NobodyElse ==
    ASSUME TurnInv, NEW c \in Call, Refreshing(c),
           ~(pc[c] = "queued" /\ job[c].kind = "resolver" /\ Serial(c)),
           NEW d \in Call, d # c, job[d].conn = job[c].conn
    PROVE  ~Refreshing(d) /\ pc[d] # "returned"
BY DEF TurnInv, MutexHeld, Undisturbed

LEMMA NobodyInGap ==
    ASSUME TokenInv, TurnInv, NEW c \in Call, pc[c] = "posting",
           NEW d \in Call, job[d].conn = job[c].conn
    PROVE  pc[d] # "gap"
<1> SUFFICES ASSUME pc[d] = "gap" PROVE FALSE
  OBVIOUS
<1>1. LaneOfCall(c) = LaneOfCall(d) /\ LaneOfCall(c) # NoGroup /\ job[d].kind = "resolver"
  BY DEF TurnInv, Berthed, LaneOfCall, Serial
<1>2. turn[Outer(d)] = "settling" /\ laneOf[Outer(d)] = LaneOfCall(d)
  BY <1>1 DEF TurnInv, Nested, Serial
<1>3. turn[Inner(c)] = "running" /\ laneOf[Inner(c)] = LaneOfCall(c)
  BY <1>1 DEF TokenInv, Docked
<1>4. Inner(c) = Outer(d)
  BY <1>1, <1>2, <1>3, Slots, OneWorks DEF TokenInv, OneAtATime, Presenting
<1> QED BY <1>4, Slots

\* Only a POST uses a token.
LEMMA UsedKept ==
    ASSUME NEW c \in Call, CallStep(c), ~Consume(c)
    PROVE  /\ \A x \in Conn : Used(x)' = Used(x)
           /\ lost \subseteq lost' /\ misled \subseteq misled' /\ reused' = reused
<1>1. UNCHANGED upstreamVars
  BY DEF CallStep, Load, ResolverQueues, ResolverEnters, GetAccessToken, StartRefresh, RereadFails,
     Unreached, Answer, LoseAnswer, GapBegins, LeaveLane, Return, PersistFails, GuardFails,
     Resolves, WriteBack, WriteFails, ResolverGap, ResolverLeaves
<1>2. lost \subseteq lost' /\ misled \subseteq misled'
  BY DEF CallStep, Load, ResolverQueues, ResolverEnters, GetAccessToken, StartRefresh, RereadFails,
     Unreached, Answer, LoseAnswer, GapBegins, LeaveLane, Return, PersistFails, GuardFails,
     Resolves, WriteBack, WriteFails, ResolverGap, ResolverLeaves
<1> QED BY <1>1, <1>2 DEF Used, upstreamVars

\* And it uses the one it sends, for a new one.
LEMMA Uses ==
    ASSUME TokenInv, NEW c \in Call, Consume(c), NEW x, x = job[c].conn
    PROVE  /\ \A y \in Conn : y # x => Used(y)' = Used(y)
           /\ lost' = lost /\ misled' = misled
           /\ \/ /\ Used(x)' \subseteq Used(x) \cup {job[c].sent}
                 /\ job'[c].got # 0 /\ job'[c].got \notin Used(x)'
                 /\ job'[c].sent = job[c].sent /\ job'[c].conn = x
                 /\ job[c].sent < job'[c].got /\ reused' = reused
              \/ /\ Used(x)' \subseteq Used(x) /\ job' = job
                 /\ reused' \subseteq reused \cup ({<<x, job[c].sent>>} \cap ({x} \X Used(x)))
<1> DEFINE t == job[c].sent
<1>0. /\ x \in Conn /\ issued \in [Conn -> Nat] /\ live \in [Conn -> SUBSET Nat]
      /\ revoked \in [Conn -> SUBSET Nat] /\ issued[x] \in Nat
      /\ lost' = lost /\ misled' = misled
  BY JobTypes DEF TokenInv, Minted, Consume
<1>1. CASE t \in live[x]
  <2>1. PICK n \in Nat : n = issued[x] + 1
    BY <1>0
  <2>2. /\ issued' = [issued EXCEPT ![x] = n]
        /\ live' = [live EXCEPT ![x] = (@ \ {t}) \cup {n}]
        /\ job' = [job EXCEPT ![c].got = n] /\ UNCHANGED <<revoked, reused>>
    BY <1>0, <1>1, <2>1 DEF Consume
  <2>3. /\ issued'[x] = n /\ live'[x] = (live[x] \ {t}) \cup {n}
        /\ \A y \in Conn : y # x => issued'[y] = issued[y] /\ live'[y] = live[y]
    BY <1>0, <2>2
  <2>4. 1..n = (1..issued[x]) \cup {n}
    BY <1>0, <2>1
  <2>5. Used(x)' \subseteq Used(x) \cup {t} /\ n \notin Used(x)'
    BY <2>2, <2>3, <2>4 DEF Used
  <2>6. \A y \in Conn : y # x => Used(y)' = Used(y)
    BY <2>2, <2>3 DEF Used
  <2>7. /\ job'[c].got = n /\ job'[c].sent = t /\ job'[c].conn = x
    <3> HIDE DEF Job
    <3>1. job \in [Call -> Job] /\ job[c] \in Job
      BY DEF TokenInv, Minted
    <3>2. /\ [job[c] EXCEPT !.got = n].got = n /\ [job[c] EXCEPT !.got = n].sent = t
          /\ [job[c] EXCEPT !.got = n].conn = x
      BY <3>1, GotJob
    <3> QED BY <2>2, <3>1, <3>2
  <2>8. n # 0 /\ t < n
    <3>1. t \in 1..issued[x]
      BY <1>0, <1>1 DEF TokenInv, Minted, Tokens
    <3> QED BY <1>0, <2>1, <3>1
  <2> QED BY <1>0, <2>2, <2>5, <2>6, <2>7, <2>8
<1>2. CASE t \notin live[x]
  <2>1. issued' = issued /\ job' = job
    BY <1>2 DEF Consume
  <2>2. CASE t \in Used(x)
    <3>1. /\ live' = [live EXCEPT ![x] = {}] /\ revoked' = [revoked EXCEPT ![x] = @ \cup live[x]]
          /\ reused' = reused \cup {<<x, t>>}
      BY <1>2, <2>2 DEF Consume
    <3>2. /\ live'[x] = {} /\ revoked'[x] = revoked[x] \cup live[x]
          /\ \A y \in Conn : y # x => live'[y] = live[y] /\ revoked'[y] = revoked[y]
      BY <1>0, <3>1
    <3> QED BY <1>0, <2>1, <2>2, <3>1, <3>2 DEF Used
  <2>3. CASE t \notin Used(x)
    <3>1. UNCHANGED <<live, revoked, reused>>
      BY <1>2, <2>3 DEF Consume
    <3> QED BY <1>0, <2>1, <3>1 DEF Used
  <2> QED BY <2>2, <2>3
<1> QED BY <1>1, <1>2

-----------------------------------------------------------------------------
(* A POST.                                                                 *)

LEMMA ConsumeValues ==
    ASSUME TokenInv, TurnInv, ValueInv, NEW c \in Call, Consume(c)
    PROVE  ValueInv'
<1>1. PICK x \in Conn, t \in Nat : x = job[c].conn /\ t = job[c].sent
  BY JobTypes
<1>2. /\ CallStep(c) /\ pc[c] = "posting" /\ pc'[c] = "answered"
      /\ HoldsGood(c) /\ UNCHANGED <<db, lost, misled>> /\ Good(x, t) /\ job[c].got = 0
      /\ \A d \in Call : job[d].conn \in Conn
  BY <1>1, JobTypes DEF CallStep, Consume, TokenInv, Minted, Goes, ValueInv, HoldsGood
<1>3. \A y \in Conn : y # x => Used(y)' = Used(y)
  BY <1>1, <1>2, Uses
<1>4. \A d \in Call : d # c => Still(d)
  BY <1>1, <1>2, OthersStand DEF Woken
<1>5. ASSUME NEW d \in Call, d # c, job[d].conn = x
      PROVE  ~Refreshing(d) /\ pc[d] \notin {"returned", "gap"}
  BY <1>1, <1>2, <1>5, NobodyElse, NobodyInGap DEF Refreshing
<1>6. ASSUME NEW d \in Call, d # c PROVE HoldsGood(d)'
  <2>1. Still(d) /\ HoldsGood(d)
    BY <1>4, <1>6 DEF ValueInv
  <2>2. CASE job[d].conn = x
    BY <1>1, <1>5, <1>6, <2>1, <2>2 DEF HoldsGood, Still, Refreshing
  <2>3. CASE job[d].conn # x
    BY <1>1, <1>2, <1>3, <2>1, <2>3 DEF HoldsGood, Still, Good
  <2> QED BY <2>2, <2>3
<1>7. \A y \in Conn : y # x => \A s : Good(y, s) => Good(y, s)'
  BY <1>1, <1>2, <1>3 DEF Good
<1>8. ASSUME NEW y \in Conn, y # x
      PROVE  Good(y, db[y].token)' \/ \E d \in Call : (job[d].conn = y /\ WillWrite(d))'
  <2>1. CASE Good(y, db[y].token)
    BY <1>1, <1>2, <1>7, <1>8, <2>1
  <2>2. ASSUME NEW d \in Call, job[d].conn = y, WillWrite(d)
        PROVE  (job[d].conn = y /\ WillWrite(d))'
    BY <1>1, <1>2, <1>4, <1>8, <2>2 DEF Still, WillWrite, Serial, LaneOfCall
  <2> QED BY <1>8, <2>1, <2>2 DEF ValueInv, RowGood
<1>9. Good(x, db[x].token)
  <2>1. \A d \in Call : job[d].conn = x => ~WillWrite(d)
    BY <1>1, <1>2, <1>5 DEF Refreshing, WillWrite
  <2> QED BY <1>1, <1>2, <2>1 DEF ValueInv, RowGood
<1>10. CASE /\ Used(x)' \subseteq Used(x) \cup {t}
           /\ job'[c].got # 0 /\ job'[c].got \notin Used(x)'
           /\ job'[c].sent = t /\ job'[c].conn = x
           /\ reused' = reused
  <2>1. \A s : s # t /\ Good(x, s) => Good(x, s)'
    BY <1>1, <1>2, <1>10 DEF Good
  <2>2. HoldsGood(c)'
    BY <1>1, <1>2, <1>10 DEF HoldsGood, Good
  <2>3. RowGood'
    <3>1. Good(x, db[x].token)' \/ (job'[c].conn = x /\ WillWrite(c)')
      BY <1>1, <1>2, <1>9, <1>10, <2>1 DEF WillWrite
    <3> QED BY <1>8, <3>1 DEF RowGood
  <2>4. (reused \subseteq lost \cup misled)'
    BY <1>1, <1>2, <1>10 DEF ValueInv
  <2> QED BY <1>6, <2>2, <2>3, <2>4 DEF ValueInv
<1>11. CASE /\ Used(x)' \subseteq Used(x) /\ job' = job
            /\ reused' \subseteq reused \cup ({<<x, t>>} \cap ({x} \X Used(x)))
  <2>1. \A s : Good(x, s) => Good(x, s)'
    BY <1>1, <1>2, <1>11 DEF Good
  <2>2. HoldsGood(c)'
    BY <1>1, <1>2, <1>11 DEF HoldsGood
  <2>3. RowGood'
    BY <1>1, <1>2, <1>8, <1>9, <2>1 DEF RowGood
  <2>4. (reused \subseteq lost \cup misled)'
    BY <1>1, <1>2, <1>11 DEF ValueInv, Good
  <2> QED BY <1>6, <2>2, <2>3, <2>4 DEF ValueInv
<1> QED BY <1>1, <1>2, <1>10, <1>11, Uses

-----------------------------------------------------------------------------
(* The other turns of a caller.                                            *)

\* The refresh of a connection alone can have left its row behind.
LEMMA RefreshAlone ==
    ASSUME TurnInv, ValueInv, NEW c \in Call, Refreshing(c),
           ~(pc[c] = "queued" /\ job[c].kind = "resolver" /\ Serial(c)),
           NEW x \in Conn, x = job[c].conn, ~WillWrite(c)
    PROVE  Good(x, db[x].token)
<1>1. \A d \in Call : d # c /\ job[d].conn = x => ~Refreshing(d) /\ pc[d] # "returned"
  BY NobodyElse
<1>2. \A d \in Call : d # c /\ job[d].conn = x => ~WillWrite(d)
  BY <1>1 DEF WillWrite, Refreshing
<1> QED BY <1>2 DEF ValueInv, RowGood

\* A refresh takes over or sends a good token.
LEMMA StartsGood ==
    ASSUME TokenInv, TurnInv, ValueInv, NEW c \in Call, StartRefresh(c) \/ RereadFails(c)
    PROVE  HoldsGood(c)'
<1>1. PICK x \in Conn : x = job[c].conn
  BY JobTypes
<1>2. /\ pc[c] = "queued" /\ Refreshing(c) /\ CallStep(c) /\ ~Consume(c) /\ job[c].got = 0
  BY DEF StartRefresh, RereadFails, Refreshing, CallStep, Consume, ValueInv, HoldsGood
<1>3. ~(job[c].kind = "resolver" /\ Serial(c))
  BY NestedWaits DEF TurnInv
<1>4. Good(x, db[x].token)
  BY <1>1, <1>2, <1>3, RefreshAlone DEF WillWrite
<1>5. /\ \A t : Good(x, t) => Good(x, t)'
      /\ \A T, t : t \in T /\ Stale(x, T) \subseteq misled' => Good(x, t)'
  <2>1. Used(x)' = Used(x) /\ lost \subseteq lost' /\ misled \subseteq misled'
    BY <1>2, UsedKept
  <2> QED BY <2>1 DEF Good, Stale
<1>6. /\ pc \in [Call -> Place]
      /\ Goes(c, "fetched") => pc'[c] = "fetched"
      /\ Goes(c, "posting") => pc'[c] = "posting"
  BY DEF TokenInv, Minted, Goes
<1>7. ASSUME NEW t, Good(x, t)', job' = [job EXCEPT ![c].got = t], Goes(c, "fetched")
      PROVE  HoldsGood(c)'
  <2>1. job'[c].got = t /\ job'[c].conn = x
    <3> HIDE DEF Job
    <3>1. job \in [Call -> Job] /\ job[c] \in Job
      BY DEF TokenInv, Minted
    <3>2. [job[c] EXCEPT !.got = t].got = t /\ [job[c] EXCEPT !.got = t].conn = x
      BY <1>1, <3>1 DEF Job
    <3> QED BY <1>7, <3>1, <3>2
  <2> QED BY <1>6, <1>7, <2>1 DEF HoldsGood
<1>8. ASSUME NEW t, Good(x, t)', job' = [job EXCEPT ![c].sent = t], Goes(c, "posting")
      PROVE  HoldsGood(c)'
  <2>1. job'[c].sent = t /\ job'[c].conn = x /\ job'[c].got = 0
    <3> HIDE DEF Job
    <3>1. job \in [Call -> Job] /\ job[c] \in Job
      BY DEF TokenInv, Minted
    <3>2. /\ [job[c] EXCEPT !.sent = t].sent = t
          /\ [job[c] EXCEPT !.sent = t].conn = x
          /\ [job[c] EXCEPT !.sent = t].got = 0
      BY <1>1, <1>2, <3>1 DEF Job
    <3> QED BY <1>8, <3>1, <3>2
  <2> QED BY <1>6, <1>8, <2>1 DEF HoldsGood
<1>9. CASE RereadFails(c)
  <2>0. PICK t : t = job[c].read
    OBVIOUS
  <2>1. /\ job' = [job EXCEPT ![c].sent = t] /\ Goes(c, "posting")
        /\ Stale(x, {t}) \subseteq misled'
    BY <1>1, <1>9, <2>0 DEF RereadFails
  <2>2. Good(x, t)'
    BY <1>5, <2>1
  <2> QED BY <1>8, <2>1, <2>2
<1>10. CASE StartRefresh(c)
  <2>1. \A t \in Hits(c) : Good(x, t)'
    <3>1. Stale(x, Hits(c)) \subseteq misled'
      BY <1>1, <1>10 DEF StartRefresh
    <3> QED BY <1>5, <3>1
  <2>2. \/ \E t \in Hits(c) \cup {db[x].token} :
              job' = [job EXCEPT ![c].got = t] /\ Goes(c, "fetched")
        \/ job' = [job EXCEPT ![c].sent = db[x].token] /\ Goes(c, "posting")
    BY <1>1, <1>10 DEF StartRefresh
  <2> QED BY <1>4, <1>5, <1>7, <1>8, <2>1, <2>2
<1> QED BY <1>9, <1>10

LEMMA HoldsStep ==
    ASSUME TokenInv, TurnInv, ValueInv, NEW c \in Call, CallStep(c), ~Consume(c)
    PROVE  \A d \in Call : HoldsGood(d)'
<1>0. /\ \A x \in Conn : \A t : Good(x, t) => Good(x, t)'
      /\ \A d \in Call : HoldsGood(d) /\ job[d].conn \in Conn
      /\ pc \in [Call -> Place] /\ Moves(c)
  BY UsedKept, JobTypes, TurnMoves DEF Good, ValueInv, TokenInv, Minted
<1>1. ASSUME NEW d \in Call, d # c PROVE HoldsGood(d)'
  <2>1. CASE Still(d)
    BY <1>0, <2>1 DEF HoldsGood, Still
  <2>2. CASE Woken(c, d)
    <3>1. job[c].got # 0 => Good(job[c].conn, job[c].got)
      BY <1>0, <2>2 DEF HoldsGood, Woken
    <3> QED BY <1>0, <2>2, <3>1 DEF HoldsGood, Woken
  <2> QED BY <1>1, <2>1, <2>2, OthersStand
<1>2. HoldsGood(c)'
  <2>1. CASE StartRefresh(c) \/ RereadFails(c)
    BY <2>1, StartsGood
  <2>2. CASE \E k \in Kinds, x \in Conn : Load(c, k, x)
    <3>1. pc'[c] = "loaded" /\ job'[c].got = 0
      BY <1>0, <2>2 DEF Load, Goes, Moves
    <3> QED BY <3>1 DEF HoldsGood
  <2>3. CASE LoseAnswer(c)
    <3>1. job'[c].got = 0 /\ pc'[c] = "fetched"
      <4>1. pc'[c] = "fetched"
        BY <1>0, <2>3 DEF LoseAnswer, Goes
      <4>2. job'[c].got = 0
        <5> HIDE DEF Job
        <5>1. job \in [Call -> Job] /\ job[c] \in Job
          BY DEF TokenInv, Minted
        <5>2. [job[c] EXCEPT !.got = 0].got = 0
          BY <5>1 DEF Job
        <5> QED BY <2>3, <5>1, <5>2 DEF LoseAnswer
      <4> QED BY <4>1, <4>2
    <3> QED BY <3>1 DEF HoldsGood
  <2>4. CASE Unreached(c)
    <3>1. pc'[c] = "answered" /\ job'[c] = job[c] /\ job[c].got = 0
      BY <1>0, <2>4 DEF Unreached, Goes, HoldsGood
    <3> QED BY <3>1 DEF HoldsGood
  <2>5. CASE /\ ~StartRefresh(c) /\ ~RereadFails(c) /\ ~Unreached(c) /\ ~LoseAnswer(c)
             /\ ~\E k \in Kinds, x \in Conn : Load(c, k, x)
    <3>1. job'[c] = job[c]
      <4>1. CASE Return(c) \/ PersistFails(c) \/ GuardFails(c)
        BY <4>1 DEF Return, PersistFails, GuardFails, Resolves
      <4>2. CASE ~(Return(c) \/ PersistFails(c) \/ GuardFails(c))
        <5>1. job' = job
          BY <2>5, <4>2 DEF CallStep, ResolverQueues, ResolverEnters, GetAccessToken, Answer,
             GapBegins, LeaveLane, WriteBack, WriteFails, ResolverGap, ResolverLeaves, callVars
        <5> QED BY <5>1
      <4> QED BY <4>1, <4>2
    <3>2. pc[c] # "posting" /\ pc[c] # "idle"
      BY <2>5 DEF CallStep, ResolverQueues, ResolverEnters, GetAccessToken, Answer,
         GapBegins, LeaveLane, Return, PersistFails, GuardFails, Resolves, WriteBack, WriteFails,
         ResolverGap, ResolverLeaves
    <3>3. pc'[c] # "posting"
      BY <1>0, <2>5 DEF Moves
    <3> QED BY <1>0, <2>5, <3>1, <3>2, <3>3 DEF HoldsGood, Moves
  <2> QED BY <2>1, <2>2, <2>3, <2>5, <2>4
<1> QED BY <1>1, <1>2

\* The rows.  Somebody writes what a refresh has got, or the row counts as lost.
LEMMA RowKept ==
    ASSUME TokenInv, ValueInv, NEW c \in Call, CallStep(c), ~Consume(c), UNCHANGED db,
           WillWrite(c) => job'[c].conn = job[c].conn /\ WillWrite(c)'
    PROVE  RowGood'
<1>1. \A y \in Conn : Good(y, db[y].token) => Good(y, db[y].token)'
  BY UsedKept DEF Good
<1>2. ASSUME NEW d \in Call, WillWrite(d)
      PROVE  WillWrite(d)' /\ job'[d].conn = job[d].conn
  <2>1. CASE d = c
    BY <1>2, <2>1
  <2>2. CASE d # c
    <3>1. Still(d)
      BY <1>2, <2>2, OthersStand DEF Woken, WillWrite
    <3> QED BY <1>2, <3>1 DEF Still, WillWrite, Serial, LaneOfCall
  <2> QED BY <2>1, <2>2
<1> QED BY <1>1, <1>2 DEF ValueInv, RowGood

LEMMA RowSettled ==
    ASSUME TokenInv, ValueInv, NEW c \in Call, CallStep(c), ~Consume(c),
           NEW x \in Conn, x = job[c].conn, \A y \in Conn : y # x => db'[y] = db[y],
           \/ Good(x, db[x].token)'
           \/ job'[c].conn = x /\ WillWrite(c)'
    PROVE  RowGood'
<1>1. \A y \in Conn : y # x /\ Good(y, db[y].token) => Good(y, db[y].token)'
  BY UsedKept DEF Good
<1>2. ASSUME NEW d \in Call, WillWrite(d), job[d].conn # x
      PROVE  WillWrite(d)' /\ job'[d].conn = job[d].conn
  <2>1. Still(d)
    BY <1>2, OthersStand DEF Woken, WillWrite
  <2>2. job[d].conn \in Conn
    BY JobTypes
  <2> QED BY <1>2, <2>1, <2>2 DEF Still, WillWrite, Serial, LaneOfCall
<1> QED BY <1>1, <1>2 DEF ValueInv, RowGood

\* The row of x after it has been written.
LEMMA RowWritten ==
    ASSUME TokenInv, NEW x \in Conn, NEW t \in Nat, db' = [db EXCEPT ![x] = Row(t)]
    PROVE  db'[x].token = t /\ \A y \in Conn : y # x => db'[y] = db[y]
BY DEF TokenInv, Minted, Row

LEMMA RowStep ==
    ASSUME TokenInv, TurnInv, ValueInv, NEW c \in Call, CallStep(c), ~Consume(c)
    PROVE  RowGood'
<1>1. PICK x \in Conn, t \in Nat : x = job[c].conn /\ t = job[c].got
  BY JobTypes
<1>2. /\ \A s : Good(x, s) => Good(x, s)'
      /\ Moves(c) /\ HoldsGood(c) /\ pc \in [Call -> Place]
  BY UsedKept, TurnMoves DEF Good, ValueInv, TokenInv, Minted
<1>3. CASE \/ \E k \in Kinds, y \in Conn : Load(c, k, y)
           \/ ResolverQueues(c) \/ ResolverEnters(c) \/ GetAccessToken(c) \/ StartRefresh(c)
           \/ RereadFails(c) \/ Unreached(c)
  <2>1. UNCHANGED db /\ ~WillWrite(c)
    BY <1>3 DEF Load, ResolverQueues, ResolverEnters, GetAccessToken, StartRefresh, RereadFails,
       Unreached, WillWrite
  <2> QED BY <2>1, RowKept
<1>4. CASE Answer(c) \/ GapBegins(c) \/ LeaveLane(c)
  <2>1. /\ UNCHANGED <<db, job>> /\ pc[c] \in {"answered", "fetched"}
        /\ pc'[c] \in {"fetched", "persisting"}
    BY <1>2, <1>4 DEF Answer, GapBegins, LeaveLane, Goes, callVars
  <2> QED BY <2>1, RowKept DEF WillWrite
<1>5. CASE LoseAnswer(c)
  <2>1. ~WillWrite(c) => Good(x, db[x].token)
    BY <1>1, <1>5, RefreshAlone DEF LoseAnswer, Refreshing
  <2>2. WillWrite(c) => <<x, db[x].token>> \in lost'
    BY <1>1, <1>5 DEF LoseAnswer, WillWrite
  <2>3. UNCHANGED db
    BY <1>5 DEF LoseAnswer
  <2>4. Good(x, db[x].token)'
    BY <1>2, <2>1, <2>2, <2>3 DEF Good
  <2> QED BY <1>1, <2>3, <2>4, RowSettled
<1>6. CASE Return(c) \/ PersistFails(c) \/ GuardFails(c)
  <2>0. /\ pc[c] = "persisting" /\ job'[c] = job[c] /\ Refreshing(c)
        /\ ~(job[c].kind = "resolver" /\ Serial(c)) /\ (t # 0 => Good(x, t))
    BY <1>1, <1>2, <1>6 DEF Return, PersistFails, GuardFails, Resolves, Refreshing, TurnInv, Nested,
       HoldsGood
  <2>1. CASE (Return(c) /\ Persists(c)) \/ GuardFails(c)
    <3>1. db' = [db EXCEPT ![x] = Row(t)] /\ t # 0
      BY <1>1, <2>1 DEF Return, GuardFails, Resolves, Written, Persists
    <3>2. db'[x].token = t /\ \A y \in Conn : y # x => db'[y] = db[y]
      BY <3>1, RowWritten
    <3>3. Good(x, db[x].token)'
      BY <1>2, <2>0, <3>1, <3>2 DEF Good
    <3> QED BY <1>1, <3>2, <3>3, RowSettled
  <2>2. CASE t = 0
    <3>1. UNCHANGED db
      BY <1>1, <1>6, <2>2 DEF Return, PersistFails, GuardFails, Resolves, Written, Persists
    <3>2. Good(x, db[x].token)
      BY <1>1, <2>0, <2>2, RefreshAlone DEF WillWrite
    <3>3. Good(x, db[x].token)'
      BY <1>2, <3>1, <3>2
    <3> QED BY <1>1, <3>1, <3>3, RowSettled
  <2>3. CASE PersistFails(c) /\ job[c].kind = "reactive"
    <3>1. UNCHANGED db /\ Unsaved(x) \subseteq lost'
      BY <1>1, <2>3 DEF PersistFails, Resolves
    <3>2. Used(x)' = Used(x)
      BY UsedKept
    <3>3. Good(x, db[x].token)'
      BY <3>1, <3>2 DEF Good, Unsaved, Stale
    <3> QED BY <1>1, <3>1, <3>3, RowSettled
  <2>4. CASE /\ t # 0
             /\ (Return(c) /\ ~Persists(c)) \/ (PersistFails(c) /\ job[c].kind # "reactive")
    <3>1. UNCHANGED db /\ pc'[c] = "returned"
      BY <1>1, <2>4 DEF Return, PersistFails, Resolves, Written, Resumes
    <3>2. job'[c].conn = x /\ WillWrite(c)'
      BY <1>1, <2>0, <2>4, <3>1 DEF WillWrite, Serial, LaneOfCall
    <3> QED BY <1>1, <3>1, <3>2, RowSettled
  <2> QED BY <1>6, <2>1, <2>2, <2>3, <2>4
<1>7. CASE WriteBack(c) \/ (ResolverLeaves(c) /\ t # 0)
  <2>1. db' = [db EXCEPT ![x] = Row(t)] /\ pc[c] \in {"returned", "gap"} /\ t # 0
    BY <1>1, <1>7 DEF WriteBack, ResolverLeaves, TokenInv, Held
  <2>2. db'[x].token = t /\ \A y \in Conn : y # x => db'[y] = db[y]
    BY <2>1, RowWritten
  <2>3. Good(x, db[x].token)'
    BY <1>1, <1>2, <2>1, <2>2 DEF HoldsGood
  <2> QED BY <1>1, <2>2, <2>3, RowSettled
<1>8. CASE ResolverLeaves(c) /\ t = 0
  BY <1>1, <1>8, RowKept DEF ResolverLeaves, WillWrite
<1>9. CASE ResolverGap(c)
  <2>1. Serial(c) /\ job[c].kind = "resolver" /\ pc[c] = "returned" /\ UNCHANGED db
    BY <1>9 DEF ResolverGap, Settle, TurnInv, Berthed
  <2> QED BY <2>1, RowKept DEF WillWrite
<1>10. CASE WriteFails(c)
  <2>1. UNCHANGED db /\ Unsaved(x) \subseteq lost'
    BY <1>1, <1>10 DEF WriteFails
  <2>2. Used(x)' = Used(x)
    BY UsedKept
  <2>3. Good(x, db[x].token)'
    BY <2>1, <2>2 DEF Good, Unsaved, Stale
  <2> QED BY <1>1, <2>1, <2>3, RowSettled
<1> QED BY <1>3, <1>4, <1>5, <1>6, <1>7, <1>8, <1>9, <1>10 DEF CallStep

LEMMA ValuesStep ==
    ASSUME TokenInv, TurnInv, ValueInv, NEW c \in Call, CallStep(c)
    PROVE  ValueInv'
<1>1. CASE Consume(c)
  BY <1>1, ConsumeValues
<1>2. CASE ~Consume(c)
  <2>1. (reused \subseteq lost \cup misled)'
    BY <1>2, UsedKept DEF ValueInv
  <2> QED BY <1>2, <2>1, HoldsStep, RowStep DEF ValueInv
<1> QED BY <1>1, <1>2

\* A sign-in brings a good token, and what expires or lapses takes none away.
LEMMA LoginValues ==
    ASSUME TokenInv, ValueInv, NEW x \in Conn, Login(x)
    PROVE  ValueInv'
<1>1. PICK n \in Nat : n = issued[x] + 1
  BY DEF TokenInv, Minted
<1>2. /\ UNCHANGED <<pc, job, entry, rotated, revoked, reused, lost, misled>>
      /\ issued \in [Conn -> Nat] /\ live \in [Conn -> SUBSET Nat]
      /\ issued' = [issued EXCEPT ![x] = n] /\ live' = [live EXCEPT ![x] = @ \cup {n}]
      /\ db' = [db EXCEPT ![x] = Row(n)]
  BY <1>1 DEF TokenInv, Minted, Login, callVars
<1>3. /\ issued'[x] = n /\ live'[x] = live[x] \cup {n} /\ 1..n = (1..issued[x]) \cup {n}
      /\ \A y \in Conn : y # x => issued'[y] = issued[y] /\ live'[y] = live[y]
  BY <1>1, <1>2
<1>4. \A y \in Conn : Used(y)' \subseteq Used(y)
  BY <1>2, <1>3 DEF Used
<1>5. \A y \in Conn : \A t : Good(y, t) => Good(y, t)'
  BY <1>2, <1>4 DEF Good
<1>6. db'[x].token = n /\ (\A y \in Conn : y # x => db'[y] = db[y]) /\ n \notin Used(x)'
  BY <1>2, <1>3, RowWritten DEF Used
<1>7. \A d \in Call : HoldsGood(d)'
  BY <1>2, <1>5, JobTypes DEF ValueInv, HoldsGood
<1>8. RowGood'
  <2> SUFFICES ASSUME NEW y \in Conn
               PROVE  (Good(y, db[y].token) \/ \E d \in Call : job[d].conn = y /\ WillWrite(d))'
    BY DEF RowGood
  <2>1. CASE y = x
    BY <1>6, <2>1 DEF Good
  <2>2. CASE y # x /\ Good(y, db[y].token)
    BY <1>5, <1>6, <2>2
  <2>3. ASSUME y # x, NEW d \in Call, job[d].conn = y, WillWrite(d)
        PROVE  (job[d].conn = y /\ WillWrite(d))'
    BY <1>2, <1>6, <2>3 DEF WillWrite, Serial, LaneOfCall
  <2> QED BY <2>1, <2>2, <2>3 DEF ValueInv, RowGood
<1> QED BY <1>2, <1>7, <1>8 DEF ValueInv

LEMMA LapseValues ==
    ASSUME TokenInv, ValueInv, NEW x \in Conn, AccessExpires(x) \/ RotationLapses(x)
    PROVE  ValueInv'
<1>1. /\ UNCHANGED <<pc, job, entry, upstreamVars, lost, misled>>
      /\ \A y \in Conn : db'[y].token = db[y].token
  <2>1. CASE AccessExpires(x)
    BY <2>1 DEF AccessExpires, callVars, TokenInv, Minted
  <2>2. CASE RotationLapses(x)
    BY <2>2 DEF RotationLapses, TokenInv, Minted
  <2> QED BY <2>1, <2>2
<1>2. \A y \in Conn : \A t : Good(y, t)' <=> Good(y, t)
  BY <1>1 DEF Good, Used, upstreamVars
<1>3. \A d \in Call : HoldsGood(d)' /\ (WillWrite(d)' <=> WillWrite(d))
  BY <1>1, <1>2, JobTypes DEF ValueInv, HoldsGood, WillWrite, Serial, LaneOfCall
<1>4. RowGood'
  BY <1>1, <1>2, <1>3 DEF ValueInv, RowGood
<1> QED BY <1>1, <1>3, <1>4 DEF ValueInv, upstreamVars

\* A crash loses no more than it is charged with.
LEMMA CrashValues ==
    ASSUME TokenInv, ValueInv, Crash
    PROVE  ValueInv'
<1>1. /\ UNCHANGED <<job, upstreamVars, db, misled>> /\ pc' = [c \in Call |-> "idle"]
      /\ lost' = lost \cup UNION {Unsaved(x) : x \in Conn}
  BY DEF Crash
<1>2. \A x \in Conn : Used(x)' = Used(x)
  BY <1>1 DEF Used, upstreamVars
<1>3. ASSUME NEW x \in Conn PROVE Good(x, db[x].token)'
  <2>1. db[x].token \in Used(x) => <<x, db[x].token>> \in Unsaved(x)
    BY DEF Unsaved, Stale
  <2> QED BY <1>1, <1>2, <2>1 DEF Good
<1>4. RowGood' /\ \A d \in Call : HoldsGood(d)'
  BY <1>1, <1>3 DEF RowGood, HoldsGood
<1>5. (reused \subseteq lost \cup misled)'
  BY <1>1 DEF ValueInv, upstreamVars
<1> QED BY <1>4, <1>5 DEF ValueInv

-----------------------------------------------------------------------------
(* The rotation map.                                                       *)

\* Only a POST leaves an answer that is worth something under way.
LEMMA Answered ==
    ASSUME TokenInv, ValueInv, NEW c \in Call, CallStep(c), ~Consume(c), pc'[c] = "answered"
    PROVE  job'[c].got = 0
<1>1. pc[c] = "posting" => job[c].got = 0
  BY DEF ValueInv, HoldsGood
<1>2. pc \in [Call -> Place]
  BY DEF TokenInv, Minted
<1>3. Unreached(c)
  <2> SUFFICES ASSUME ~Unreached(c) PROVE FALSE
    OBVIOUS
  <2>1. CASE Return(c) \/ PersistFails(c) \/ GuardFails(c)
    BY <2>1 DEF Return, PersistFails, GuardFails, Resolves, Resumes
  <2>2. CASE ~(Return(c) \/ PersistFails(c) \/ GuardFails(c))
    BY <1>2, <2>2 DEF CallStep, Goes, Load, ResolverQueues, ResolverEnters, GetAccessToken,
       StartRefresh, RereadFails, Answer, LoseAnswer, GapBegins, Settle, callVars, LeaveLane,
       WriteBack, WriteFails, ResolverGap, ResolverLeaves
  <2> QED BY <2>1, <2>2
<1> QED BY <1>1, <1>3 DEF Unreached

\* Only an answer that comes in changes the map, and one that does not is lost.
LEMMA MapKept ==
    ASSUME TokenInv, NEW c \in Call, CallStep(c), ~Consume(c), ~(Answer(c) /\ job[c].got # 0)
    PROVE  /\ rotated' = rotated
           /\ pc[c] = "answered" /\ job[c].got # 0 => <<job[c].conn, job[c].sent>> \in lost'
<1>1. rotated' = rotated
  BY DEF CallStep, Load, ResolverQueues, ResolverEnters, GetAccessToken, StartRefresh,
     RereadFails, Unreached, Answer, LoseAnswer, GapBegins, callVars, LeaveLane, Return,
     PersistFails, GuardFails, Resolves, WriteBack, WriteFails, ResolverGap, ResolverLeaves
<1>2. ASSUME pc[c] = "answered", job[c].got # 0
      PROVE  <<job[c].conn, job[c].sent>> \in lost'
  <2>1. LoseAnswer(c)
    BY <1>2 DEF CallStep, Load, ResolverQueues, ResolverEnters, GetAccessToken, StartRefresh,
       RereadFails, Unreached, Answer, GapBegins, LeaveLane, Return, PersistFails, GuardFails,
       Resolves, WriteBack, WriteFails, ResolverGap, ResolverLeaves
  <2> QED BY <1>2, <2>1 DEF LoseAnswer
<1> QED BY <1>1, <1>2

\* A POST with a token that the map answers with is an answer under way.
LEMMA ConsumeMaps ==
    ASSUME TokenInv, TurnInv, ValueInv, MapInv, NEW c \in Call, Consume(c)
    PROVE  MapInv'
<1>1. PICK x \in Conn, t \in Nat : x = job[c].conn /\ t = job[c].sent
  BY JobTypes
<1>2. /\ CallStep(c) /\ pc[c] = "posting" /\ pc'[c] = "answered" /\ job[c].got \in Nat
      /\ UNCHANGED <<rotated, lost>> /\ job[c].got = 0
      /\ \A d \in Call : job[d].conn \in Conn
  BY <1>1, JobTypes DEF CallStep, Consume, TokenInv, Minted, Goes, ValueInv, HoldsGood
<1>3. \A d \in Call : d # c => Still(d)
  BY <1>1, <1>2, OthersStand DEF Woken
<1>4. ASSUME NEW d \in Call, d # c, job[d].conn = x PROVE pc[d] # "answered"
  BY <1>1, <1>2, <1>4, NobodyElse DEF Refreshing
<1>5. \A y \in Conn : y # x => Used(y)' = Used(y)
  BY <1>1, <1>2, Uses
<1>6. ASSUME NEW d \in Call, d # c PROVE Fresh(d)'
  <2>1. Still(d) /\ Fresh(d)
    BY <1>3, <1>6 DEF MapInv
  <2>2. CASE job[d].conn = x
    BY <1>4, <1>6, <2>1, <2>2 DEF Fresh, Still
  <2>3. CASE job[d].conn # x
    BY <1>1, <1>2, <1>5, <2>1, <2>3 DEF Fresh, Still
  <2> QED BY <2>2, <2>3
<1>7. ASSUME NEW y \in Conn, y # x, NEW s, Told(y, s) PROVE Told(y, s)'
  BY <1>1, <1>2, <1>3, <1>7 DEF Told, Still
<1>8. \A s : Told(x, s) => Told(x, s)'
  <2>1. ASSUME NEW s, Told(x, s)
        PROVE  (\E q \in rotated[x] : q[1] = s) \/ <<x, s>> \in lost
    BY <1>1, <1>2, <1>4, <2>1 DEF Told
  <2> QED BY <1>2, <2>1 DEF Told
<1>9. CASE /\ Used(x)' \subseteq Used(x) \cup {t}
          /\ job'[c].got # 0 /\ job'[c].got \notin Used(x)' /\ t < job'[c].got
          /\ job'[c].sent = t /\ job'[c].conn = x
  <2>1. Fresh(c)' /\ Told(x, t)'
    BY <1>2, <1>9 DEF Fresh, Told
  <2>2. ASSUME NEW y \in Conn, NEW p \in rotated'[y]
        PROVE  p[1] < p[2] /\ (p[2] \in Used(y)' => Told(y, p[2])')
    <3>1. p \in rotated[y] /\ p[1] < p[2] /\ (p[2] \in Used(y) => Told(y, p[2]))
      BY <1>2, <2>2 DEF MapInv
    <3>2. CASE y = x
      BY <1>8, <1>9, <2>1, <3>1, <3>2
    <3>3. CASE y # x
      BY <1>5, <1>7, <3>1, <3>3
    <3> QED BY <3>2, <3>3
  <2> QED BY <1>6, <2>1, <2>2 DEF MapInv
<1>10. CASE Used(x)' \subseteq Used(x) /\ job' = job
  <2>1. Fresh(c)'
    BY <1>2, <1>10 DEF Fresh
  <2>2. ASSUME NEW y \in Conn, NEW p \in rotated'[y]
        PROVE  p[1] < p[2] /\ (p[2] \in Used(y)' => Told(y, p[2])')
    <3>1. p \in rotated[y] /\ p[1] < p[2] /\ (p[2] \in Used(y) => Told(y, p[2]))
      BY <1>2, <2>2 DEF MapInv
    <3> QED BY <1>5, <1>7, <1>8, <1>10, <3>1
  <2> QED BY <1>6, <2>1, <2>2 DEF MapInv
<1> QED BY <1>1, <1>2, <1>9, <1>10, Uses

\* What other turns of callers add to the map is an answer nobody has used.
LEMMA MapStep ==
    ASSUME TokenInv, TurnInv, ValueInv, MapInv, NEW c \in Call, CallStep(c)
    PROVE  MapInv'
<1>1. CASE Consume(c)
  BY <1>1, ConsumeMaps
<1>2. CASE ~Consume(c)
  <2>1. PICK x \in Conn : x = job[c].conn
    BY JobTypes
  <2>2. (\A y \in Conn : Used(y)' = Used(y)) /\ lost \subseteq lost'
    BY <1>2, UsedKept
  <2>3. \A d \in Call : d # c => Still(d) \/ Woken(c, d)
    BY OthersStand
  <2>4. /\ pc \in [Call -> Place] /\ rotated \in [Conn -> SUBSET (Nat \X Nat)]
        /\ \A d \in Call : job[d].conn \in Conn /\ job[d].sent \in Nat /\ job[d].got \in Nat
    BY JobTypes DEF TokenInv, Minted
  <2>5. ASSUME pc'[c] = "answered" PROVE job'[c].got = 0
    BY <1>2, <2>4, <2>5, Answered
  <2>6. ASSUME NEW d \in Call PROVE Fresh(d)'
    <3>1. CASE d = c
      BY <2>5, <3>1 DEF Fresh
    <3>2. CASE d # c /\ Still(d)
      BY <2>2, <2>4, <3>2 DEF MapInv, Fresh, Still
    <3>3. CASE d # c /\ Woken(c, d)
      BY <3>3 DEF Fresh, Woken
    <3> QED BY <2>3, <3>1, <3>2, <3>3
  <2>7. ASSUME NEW y \in Conn, NEW s, Told(y, s),
               rotated[y] \subseteq rotated'[y],
               pc[c] = "answered" /\ job[c].conn = y /\ job[c].sent = s /\ job[c].got # 0
               => (\E q \in rotated'[y] : q[1] = s) \/ <<y, s>> \in lost'
        PROVE  Told(y, s)'
    BY <2>2, <2>3, <2>7 DEF Told, Still, Woken
  <2>8. CASE Answer(c) /\ job[c].got # 0
    <3>1. /\ rotated' = [rotated EXCEPT ![x] = @ \cup {<<job[c].sent, job[c].got>>}]
          /\ pc[c] = "answered"
      BY <2>1, <2>8 DEF Answer
    <3>2. /\ rotated'[x] = rotated[x] \cup {<<job[c].sent, job[c].got>>}
          /\ \A y \in Conn : y # x => rotated'[y] = rotated[y]
      BY <2>4, <3>1
    <3>3. job[c].sent < job[c].got /\ job[c].got \notin Used(x)
      BY <2>1, <2>8, <3>1 DEF MapInv, Fresh
    <3>4. ASSUME NEW y \in Conn, NEW s, Told(y, s) PROVE Told(y, s)'
      <4>1. /\ rotated[y] \subseteq rotated'[y]
            /\ job[c].conn = y /\ job[c].sent = s => \E q \in rotated'[y] : q[1] = s
        <5>1. y # x => rotated'[y] = rotated[y] /\ job[c].conn # y
          BY <2>1, <3>2
        <5>2. ASSUME y = x, job[c].sent = s PROVE \E q \in rotated'[y] : q[1] = s
          <6>1. <<job[c].sent, job[c].got>> \in rotated'[y]
            BY <3>2, <5>2
          <6> QED BY <5>2, <6>1
        <5> QED BY <2>1, <3>2, <5>1, <5>2
      <4> QED BY <2>7, <3>4, <4>1
    <3>5. ASSUME NEW y \in Conn, NEW p \in rotated'[y]
          PROVE  p[1] < p[2] /\ (p[2] \in Used(y)' => Told(y, p[2])')
      <4>1. CASE p \in rotated[y]
        BY <2>2, <3>4, <4>1 DEF MapInv
      <4>2. CASE y = x /\ p = <<job[c].sent, job[c].got>>
        BY <2>2, <3>3, <4>2
      <4> QED BY <3>2, <3>5, <4>1, <4>2
    <3> QED BY <2>6, <3>5 DEF MapInv
  <2>9. CASE ~(Answer(c) /\ job[c].got # 0)
    <3>1. /\ rotated' = rotated
          /\ pc[c] = "answered" /\ job[c].got # 0 => <<job[c].conn, job[c].sent>> \in lost'
      BY <1>2, <2>9, MapKept
    <3>2. ASSUME NEW y \in Conn, NEW s, Told(y, s) PROVE Told(y, s)'
      BY <2>7, <3>1, <3>2
    <3>3. ASSUME NEW y \in Conn, NEW p \in rotated'[y]
          PROVE  p[1] < p[2] /\ (p[2] \in Used(y)' => Told(y, p[2])')
      BY <2>2, <3>1, <3>2, <3>3 DEF MapInv
    <3> QED BY <2>6, <3>3 DEF MapInv
  <2> QED BY <2>8, <2>9
<1> QED BY <1>1, <1>2

\* A sign-in adds a token that is not used, and a row's expiry is nothing to the map.
LEMMA MapStands ==
    ASSUME TokenInv, MapInv, NEW x \in Conn, Login(x) \/ AccessExpires(x)
    PROVE  MapInv'
<1>1. UNCHANGED <<pc, job, rotated, lost>>
  BY DEF Login, AccessExpires, callVars
<1>2. \A y \in Conn : Used(y)' \subseteq Used(y)
  <2>1. CASE AccessExpires(x)
    BY <2>1 DEF AccessExpires, upstreamVars, Used
  <2>2. CASE Login(x)
    <3>1. PICK n \in Nat : n = issued[x] + 1
      BY DEF TokenInv, Minted
    <3>2. /\ issued \in [Conn -> Nat] /\ live \in [Conn -> SUBSET Nat] /\ revoked' = revoked
          /\ issued' = [issued EXCEPT ![x] = n] /\ live' = [live EXCEPT ![x] = @ \cup {n}]
      BY <2>2, <3>1 DEF TokenInv, Minted, Login
    <3>3. /\ issued'[x] = n /\ live'[x] = live[x] \cup {n} /\ 1..n = (1..issued[x]) \cup {n}
          /\ \A y \in Conn : y # x => issued'[y] = issued[y] /\ live'[y] = live[y]
      BY <3>1, <3>2
    <3> QED BY <3>2, <3>3 DEF Used
  <2> QED BY <2>1, <2>2
<1>3. \A y \in Conn : \A s : Told(y, s) => Told(y, s)'
  BY <1>1 DEF Told
<1>4. \A d \in Call : Fresh(d)'
  BY <1>1, <1>2, JobTypes DEF MapInv, Fresh
<1>5. ASSUME NEW y \in Conn, NEW p \in rotated'[y]
      PROVE  p[1] < p[2] /\ (p[2] \in Used(y)' => Told(y, p[2])')
  BY <1>1, <1>2, <1>3, <1>5 DEF MapInv
<1> QED BY <1>4, <1>5 DEF MapInv

\* The entry that lapses is the oldest: of what the others answer with it tells
\* nothing, for it leads to an older token than they.
LEMMA MapLapses ==
    ASSUME TokenInv, MapInv, NEW x \in Conn, RotationLapses(x)
    PROVE  MapInv'
<1>1. PICK p \in rotated[x] : /\ \A q \in rotated[x] : p[2] <= q[2]
                              /\ rotated' = [rotated EXCEPT ![x] = @ \ {p}]
  BY DEF RotationLapses
<1>2. /\ UNCHANGED <<pc, job, lost>> /\ rotated \in [Conn -> SUBSET (Nat \X Nat)]
      /\ \A y \in Conn : Used(y)' = Used(y)
  BY DEF RotationLapses, upstreamVars, Used, TokenInv, Minted
<1>3. rotated'[x] = rotated[x] \ {p} /\ \A y \in Conn : y # x => rotated'[y] = rotated[y]
  BY <1>1, <1>2
<1>4. \A d \in Call : Fresh(d)'
  BY <1>2, JobTypes DEF MapInv, Fresh
<1>5. ASSUME NEW y \in Conn, NEW r \in rotated'[y]
      PROVE  r[1] < r[2] /\ (r[2] \in Used(y)' => Told(y, r[2])')
  <2>1. r \in rotated[y] /\ r[1] < r[2] /\ (r[2] \in Used(y) => Told(y, r[2]))
    BY <1>3, <1>5 DEF MapInv
  <2>2. CASE y # x
    BY <1>2, <1>3, <2>1, <2>2 DEF Told
  <2>3. CASE y = x
    <3>1. p[1] < p[2] /\ p[2] <= r[2] /\ p[1] \in Nat /\ p[2] \in Nat /\ r[2] \in Nat
      BY <1>1, <1>2, <2>1, <2>3 DEF MapInv
    <3>2. p[1] # r[2]
      BY <3>1
    <3>3. Told(x, r[2]) => Told(x, r[2])'
      BY <1>2, <1>3, <3>2 DEF Told
    <3> QED BY <1>2, <2>1, <2>3, <3>3
  <2> QED BY <2>2, <2>3
<1> QED BY <1>4, <1>5 DEF MapInv

LEMMA MapCrash ==
    ASSUME Crash
    PROVE  MapInv'
<1>1. pc' = [c \in Call |-> "idle"] /\ rotated' = [x \in Conn |-> {}]
  BY DEF Crash
<1> QED BY <1>1 DEF MapInv, Fresh

-----------------------------------------------------------------------------
(* The theorems about the tokens.                                          *)

\* In every reachable state, faults or not, a connection has one refresh at a
\* time, which begins only when the last result is written.
THEOREM TurnInvariant == TokenSpec => []TurnInv
<1>1. TokenInv /\ TurnInv /\ [TokenNext]_tokenVars => TurnInv'
  <2> SUFFICES ASSUME TokenInv, TurnInv, [TokenNext]_tokenVars PROVE TurnInv'
    OBVIOUS
  <2>1. CASE UNCHANGED tokenVars
    BY <2>1, TurnsStand DEF tokenVars, callVars
  <2>2. ASSUME NEW x \in Conn, Login(x) \/ AccessExpires(x) \/ RotationLapses(x) PROVE TurnInv'
    BY <2>2, TurnsStand DEF Login, AccessExpires, RotationLapses, callVars
  <2>3. CASE TokenNext
    BY <2>2, <2>3, TurnsStep, TurnsCrash DEF TokenNext, Working, Failing, Proceeds, CallStep
  <2> QED BY <2>1, <2>3
<1> QED BY <1>1, TurnsInit, TokenInvariant, PTL DEF TokenSpec

\* The quota page's refresh of a serialized connection never gets as far as
\* the token endpoint: it waits in the lane for itself.
THEOREM NestedNeverPosts ==
    TokenSpec => [](\A c \in Call : job[c].kind = "resolver" /\ LaneOfCall(c) # NoGroup =>
                        pc[c] \notin {"posting", "answered", "fetched", "persisting"})
<1>1. TurnInv => \A c \in Call : job[c].kind = "resolver" /\ LaneOfCall(c) # NoGroup =>
                     pc[c] \notin {"posting", "answered", "fetched", "persisting"}
  BY DEF TurnInv, Nested, Serial
<1> QED BY <1>1, TurnInvariant, PTL

\* In every reachable state, faults or not, what callers send and have got and
\* what the rows keep is good, but for what is about to be written.
THEOREM ValueInvariant == TokenSpec => []ValueInv
<1>1. TokenInit => ValueInv
  <2> SUFFICES ASSUME TokenInit PROVE ValueInv
    OBVIOUS
  <2>1. \A x \in Conn : Used(x) = {}
    BY DEF TokenInit, Used
  <2> QED BY <2>1 DEF TokenInit, ValueInv, RowGood, HoldsGood, Good
<1>2. TokenInv /\ TurnInv /\ ValueInv /\ [TokenNext]_tokenVars => ValueInv'
  <2> SUFFICES ASSUME TokenInv, TurnInv, ValueInv, [TokenNext]_tokenVars PROVE ValueInv'
    OBVIOUS
  <2>1. CASE UNCHANGED tokenVars
    BY <2>1 DEF tokenVars, callVars, upstreamVars, ValueInv, RowGood, HoldsGood, Good,
       Used, WillWrite, Serial, LaneOfCall
  <2>2. CASE TokenNext
    BY <2>2, ValuesStep, LoginValues, LapseValues, CrashValues
       DEF TokenNext, Working, Failing, Proceeds, CallStep
  <2> QED BY <2>1, <2>2
<1> QED BY <1>1, <1>2, TokenInvariant, TurnInvariant, PTL DEF TokenSpec

\* Between refreshes the row holds a token that is still good, or was revoked,
\* or whose successor is known to be lost, or to which a caller was misled.
THEOREM RowsStayLive == TokenSpec => []RowTokenLive
<1>1. TokenInv /\ ValueInv /\ TurnInv => RowTokenLive
  <2> SUFFICES ASSUME TokenInv, ValueInv, TurnInv, NEW x \in Conn, entry[x] = NoCall, Quiet
               PROVE  \/ db[x].token \in live[x] \cup revoked[x]
                      \/ <<x, db[x].token>> \in lost \cup misled
    BY DEF RowTokenLive
  <2>1. \A c \in Call : job[c].conn = x => ~Refreshing(c) /\ pc[c] # "returned"
    BY TokenAssumption DEF TurnInv, MutexHeld, Quiet
  <2>2. Good(x, db[x].token)
    BY <2>1 DEF ValueInv, RowGood, WillWrite, Refreshing
  <2>3. db[x].token \in 1..issued[x]
    BY DEF TokenInv, Minted, Tokens
  <2> QED BY <2>2, <2>3 DEF Good, Used
<1> QED BY <1>1, ValueInvariant, TokenInvariant, TurnInvariant, PTL

\* A used token is presented again only if its successor was lost, or the
\* rotation map or a row that could not be read misled a caller to it.
THEOREM ReuseOnlyForCause == TokenSpec => []ReuseHasCause
<1>1. ValueInv => ReuseHasCause
  BY DEF ValueInv, ReuseHasCause
<1> QED BY <1>1, ValueInvariant, PTL

\* In every reachable state the map's entries lead to newer tokens, and from a
\* used one of these further on.
THEOREM MapInvariant == TokenSpec => []MapInv
<1>1. TokenInit => MapInv
  BY DEF TokenInit, MapInv, Fresh
<1>2. TokenInv /\ TurnInv /\ ValueInv /\ MapInv /\ [TokenNext]_tokenVars => MapInv'
  <2> SUFFICES ASSUME TokenInv, TurnInv, ValueInv, MapInv, [TokenNext]_tokenVars PROVE MapInv'
    OBVIOUS
  <2>1. CASE UNCHANGED tokenVars
    BY <2>1 DEF tokenVars, callVars, upstreamVars, MapInv, Fresh, Told, Used
  <2>2. CASE TokenNext
    BY <2>2, MapStep, MapStands, MapLapses, MapCrash
       DEF TokenNext, Working, Failing, Proceeds, CallStep
  <2> QED BY <2>1, <2>2
<1> QED BY <1>1, <1>2, TokenInvariant, TurnInvariant, ValueInvariant, PTL DEF TokenSpec

\* Whatever lapses, the map has the successor of a used token it answers with,
\* as soon as upstream's answer is in and unless that was lost.
THEOREM MapLeadsOn == TokenSpec => []MapKnowsNext
<1>1. MapInv => MapKnowsNext
  BY DEF MapInv, MapKnowsNext, Told
<1> QED BY <1>1, MapInvariant, PTL
=============================================================================
