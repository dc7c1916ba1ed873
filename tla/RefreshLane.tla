----------------------------- MODULE RefreshLane -----------------------------
(***************************************************************************)
(* serializeRefresh of open-sse/services/refreshSerializer.ts: the network *)
(* refreshes of a rotation group run one at a time.  groupTail holds the   *)
(* tail promise of each group; a call waits for the tail it found and      *)
(* becomes the tail.  A slot is one call of serializeRefresh; a tail is    *)
(* named by the slot whose end resolves it.                                *)
(***************************************************************************)
EXTENDS FiniteSets

CONSTANTS
    Slot,    \* calls of serializeRefresh
    Group,   \* rotation groups
    NoSlot,  \* no tail, or a tail that is resolved
    Spacing  \* whether getRefreshSpacingMs() is positive

ASSUME LaneAssumption == NoSlot \notin Slot /\ Spacing \in BOOLEAN

VARIABLES
    tail,   \* groupTail: the last slot of each group
    ahead,  \* what a slot awaits: the slot before it, NoSlot once resolved
    turn,   \* "out", "queued", "running" (in fn) or "settling" (the gap)
    laneOf, \* the group of a slot that is not out
    before  \* history: <<a, b>> when a and b are in one lane and a came first

laneVars == <<tail, ahead, turn, laneOf, before>>

Init ==
    /\ tail = [g \in Group |-> NoSlot]
    /\ ahead = [s \in Slot |-> NoSlot]
    /\ turn = [s \in Slot |-> "out"]
    /\ laneOf \in [Slot -> Group]
    /\ before = {}

In(s, g) == turn[s] # "out" /\ laneOf[s] = g

\* Faulty: a newcomer chains after the slot at work, not after the tail.
JoinAfterPresent(s, g) ==
    LET present == {x \in Slot : laneOf[x] = g /\ turn[x] \in {"running", "settling"}}
    IN  /\ turn[s] = "out"
        /\ turn' = [turn EXCEPT ![s] = "queued"]
        /\ laneOf' = [laneOf EXCEPT ![s] = g]
        /\ ahead' = [ahead EXCEPT ![s] = IF present = {} THEN NoSlot
                                        ELSE CHOOSE x \in present : TRUE]
        /\ tail' = [tail EXCEPT ![g] = s]
        /\ before' = before \cup {<<a, s>> : a \in {x \in Slot : In(x, g)}}

\* The call: chain after the present tail and become the tail.
Join(s, g) ==
    /\ turn[s] = "out"
    /\ turn' = [turn EXCEPT ![s] = "queued"]
    /\ laneOf' = [laneOf EXCEPT ![s] = g]
    /\ ahead' = [ahead EXCEPT ![s] = tail[g]]
    /\ tail' = [tail EXCEPT ![g] = s]
    /\ before' = before \cup {<<a, s>> : a \in {x \in Slot : In(x, g)}}

\* The awaited tail has resolved: fn is called.
Begin(s) ==
    /\ turn[s] = "queued"
    /\ ahead[s] = NoSlot
    /\ turn' = [turn EXCEPT ![s] = "running"]
    /\ UNCHANGED <<tail, ahead, laneOf, before>>

HasSuccessor(s) == tail[laneOf[s]] # s

\* fn has settled, either way, and somebody is queued behind: the gap.
Settle(s) ==
    /\ turn[s] = "running"
    /\ HasSuccessor(s) /\ Spacing
    /\ turn' = [turn EXCEPT ![s] = "settling"]
    /\ UNCHANGED <<tail, ahead, laneOf, before>>

\* Faulty: the entry of the group is deleted whoever is the tail.
FreesAlways(s) == TRUE

\* The lane is garbage-collected when nobody chained behind.
FreesLane(s) == tail[laneOf[s]] = s

\* The gap is over, or none is due: releaseMine.
Leave(s) ==
    /\ \/ turn[s] = "settling"
       \/ turn[s] = "running" /\ ~(HasSuccessor(s) /\ Spacing)
    /\ turn' = [turn EXCEPT ![s] = "out"]
    /\ ahead' = [x \in Slot |-> IF ahead[x] = s THEN NoSlot ELSE ahead[x]]
    /\ tail' = IF FreesLane(s) THEN [tail EXCEPT ![laneOf[s]] = NoSlot] ELSE tail
    /\ before' = {p \in before : p[1] # s /\ p[2] # s}
    /\ UNCHANGED laneOf

Next == \E s \in Slot :
    (\E g \in Group : Join(s, g)) \/ Begin(s) \/ Settle(s) \/ Leave(s)

Spec == Init /\ [][Next]_laneVars

-----------------------------------------------------------------------------
(* Properties.                                                             *)

TypeOK ==
    /\ tail \in [Group -> Slot \cup {NoSlot}]
    /\ ahead \in [Slot -> Slot \cup {NoSlot}]
    /\ turn \in [Slot -> {"out", "queued", "running", "settling"}]
    /\ laneOf \in [Slot -> Group]
    /\ before \subseteq Slot \X Slot
    /\ \A s \in Slot : ahead[s] # NoSlot =>
          turn[s] = "queued" /\ In(ahead[s], laneOf[s])

Presenting(s) == turn[s] \in {"running", "settling"}

\* No two accounts of a rotation group are in a refresh, or in the settle gap
\* after one, at the same time, however the calls chain and leave.
OneAtATime ==
    \A r, s \in Slot :
        Presenting(r) /\ Presenting(s) /\ laneOf[r] = laneOf[s] => r = s

\* Refreshes of a group begin in the order in which they were asked for.
InOrderOfArrival ==
    [][\A s \in Slot : turn[s] = "queued" /\ turn'[s] = "running" =>
          \A a \in Slot : <<a, s>> \notin before]_laneVars

\* The entry of a group exists as long as somebody is in its lane, so that a
\* newcomer chains behind, and no longer.
LaneReclaimed ==
    \A g \in Group : tail[g] = NoSlot <=> ~\E s \in Slot : In(s, g)
=============================================================================
