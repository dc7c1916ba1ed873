---------------------------- MODULE TokenRefresh ----------------------------
(***************************************************************************)
(* The refresh of rotating OAuth tokens: getAccessToken of                 *)
(* open-sse/services/tokenRefresh.ts with its per-connection mutex, the    *)
(* rotation map (tokenRefresh/rotationMap.ts) and the compare-and-swap     *)
(* guard (tokenRefresh/casGuard.ts), as the callers use it:                *)
(*   "health"    lib/tokenHealthCheck.ts, no guard;                        *)
(*   "reactive"  chatCore after a 401, with the guard and a fallback write;*)
(*   "resolver"  the on-demand quota path, usage/providerLimits/           *)
(*               credentialRefresh.ts, which takes the lane itself.        *)
(* Upstream a refresh token is good for one refresh; presenting it again   *)
(* revokes its family, and here, to be on the safe side, every token of    *)
(* the connection.  Tokens are numbered by issue within a connection.      *)
(*                                                                         *)
(* An action is a turn of the event loop up to an await of the network, of *)
(* the lane or of a timer.  What follows a settled refresh in its callers, *)
(* and what leads to a refresh that waits for no lane, runs before the     *)
(* loop takes the next answer, request or timer (Quiet).                   *)
(***************************************************************************)
EXTENDS RefreshLane, Naturals

CONSTANTS
    Call,    \* callers, each with one refresh at a time
    Conn,    \* connections
    GroupOf, \* the rotation group of each connection, or NoGroup
    NoGroup, \* a provider that is not serialized
    Kinds,   \* the kinds of callers there are
    NoCall

\* The slots of serializeRefresh that a caller's refresh and, around it, the
\* resolver take.
Inner(c) == <<c, "refresh">>
Outer(c) == <<c, "resolver">>

ASSUME TokenAssumption ==
    /\ Slot = Call \X {"refresh", "resolver"}
    /\ GroupOf \in [Conn -> Group \cup {NoGroup}]
    /\ NoGroup \notin Group
    /\ Kinds \subseteq {"health", "reactive", "resolver"}
    /\ NoCall \notin Call

VARIABLES
    pc,     \* where the caller is
    job,    \* its kind, its connection, the token it read, presented and got
    entry,  \* connectionRefreshMutex: the call a connection's callers share
    rotated,\* the rotation map: pairs of a token and its successor
    db,     \* the row: its refresh token, and whether its access token is valid
    live,   \* upstream: the unused refresh tokens
    issued, \* upstream: the last token issued
    revoked,\* upstream: tokens revoked before they were used
    reused, \* history: used tokens presented again
    lost,   \* history: used tokens of rows whose successor was lost or not written
    misled  \* history: used tokens that the rotation map handed out, or that a
            \* caller sent because the row could not be read

callVars == <<pc, job, entry, rotated>>
upstreamVars == <<live, issued, revoked, reused>>
tokenVars == <<laneVars, callVars, upstreamVars, db, lost, misled>>

NoJob(x) == [kind |-> "health", conn |-> x, read |-> 0, sent |-> 0, got |-> 0]

TokenInit ==
    /\ Init
    /\ pc = [c \in Call |-> "idle"]
    /\ job \in {[c \in Call |-> NoJob(x)] : x \in Conn}
    /\ entry = [x \in Conn |-> NoCall]
    /\ rotated = [x \in Conn |-> {}]
    /\ db = [x \in Conn |-> [token |-> 1, valid |-> FALSE]]
    /\ live = [x \in Conn |-> {1}]
    /\ issued = [x \in Conn |-> 1]
    /\ revoked = [x \in Conn |-> {}]
    /\ reused = {}
    /\ lost = {}
    /\ misled = {}

Goes(c, s) == pc' = [pc EXCEPT ![c] = s]

Row(t) == [token |-> t, valid |-> TRUE]

LaneOfCall(c) == GroupOf[job[c].conn]

\* No continuation of a settled refresh is due, and nobody is on the way to a
\* refresh that is not serialized: without a lane there is nothing to wait for.
Quiet ==
    \A c \in Call :
        /\ pc[c] \notin {"persisting", "returned"}
        /\ pc[c] = "fetched" => turn[Inner(c)] = "settling"
        /\ pc[c] \in {"outside", "inside", "queued"} => LaneOfCall(c) # NoGroup

\* serializeRefresh around slot s of caller c; without a group it is fn().
Enqueues(c, s) == IF LaneOfCall(c) = NoGroup THEN UNCHANGED laneVars ELSE Join(s, LaneOfCall(c))

Enters(c, s) == IF LaneOfCall(c) = NoGroup THEN UNCHANGED laneVars ELSE Begin(s)

Leaves(c, s) == IF LaneOfCall(c) = NoGroup THEN UNCHANGED laneVars ELSE Leave(s)

-----------------------------------------------------------------------------
\* A caller reads its credentials from the row and holds on to them.
Load(c, k, x) ==
    /\ Quiet
    /\ pc[c] = "idle"
    /\ Goes(c, "loaded")
    /\ job' = [job EXCEPT ![c] = [NoJob(x) EXCEPT !.kind = k, !.read = db[x].token]]
    /\ UNCHANGED <<laneVars, entry, rotated, upstreamVars, db, lost, misled>>

\* The resolver queues for the lane, and refreshes when it has it.
ResolverQueues(c) ==
    /\ Quiet
    /\ pc[c] = "loaded" /\ job[c].kind = "resolver"
    /\ Enqueues(c, Outer(c))
    /\ Goes(c, "outside")
    /\ UNCHANGED <<job, entry, rotated, upstreamVars, db, lost, misled>>

ResolverEnters(c) ==
    /\ pc[c] = "outside"
    /\ Enters(c, Outer(c))
    /\ Goes(c, "inside")
    /\ UNCHANGED <<job, entry, rotated, upstreamVars, db, lost, misled>>

\* getAccessToken: share the refresh in flight or start one, which queues.
GetAccessToken(c) ==
    LET x == job[c].conn
    IN  /\ \/ Quiet /\ pc[c] = "loaded" /\ job[c].kind # "resolver"
           \/ pc[c] = "inside"
        /\ \/ /\ entry[x] = NoCall
              /\ entry' = [entry EXCEPT ![x] = c]
              /\ Enqueues(c, Inner(c))
              /\ Goes(c, "queued")
           \/ /\ entry[x] # NoCall
              /\ Goes(c, "sharing")
              /\ UNCHANGED <<laneVars, entry>>
        /\ UNCHANGED <<job, rotated, upstreamVars, db, lost, misled>>

\* Upstream: the tokens that have been used.
Used(x) == (1..issued[x]) \ (live[x] \cup revoked[x])

Stale(x, T) == {<<x, t>> : t \in T \cap Used(x)}

\* Faulty: the row is not read again in the lane.
RefreshOldToken(c) ==
    /\ pc[c] = "queued"
    /\ Enters(c, Inner(c))
    /\ job' = [job EXCEPT ![c].sent = job[c].read]
    /\ Goes(c, "posting")
    /\ UNCHANGED <<entry, rotated, upstreamVars, db, lost, misled>>

\* lookupRotation: what the token that the caller read was rotated to.
Hits(c) == {p[2] : p \in {q \in rotated[job[c].conn] : q[1] = job[c].read}}

\* _refreshWithFreshCredentials: the successor of a token just rotated, the
\* row's token if it is another one and still valid, or else a POST with the
\* row's token.
StartRefresh(c) ==
    LET x == job[c].conn
        found == IF Hits(c) # {} THEN Hits(c)
                 ELSE IF db[x].token # job[c].read /\ db[x].valid THEN {db[x].token}
                 ELSE {}
    IN  /\ pc[c] = "queued"
        /\ Enters(c, Inner(c))
        /\ \/ \E t \in found : job' = [job EXCEPT ![c].got = t] /\ Goes(c, "fetched")
           \/ /\ found = {}
              /\ job' = [job EXCEPT ![c].sent = db[x].token]
              /\ Goes(c, "posting")
        /\ misled' = misled \cup Stale(x, Hits(c))
        /\ UNCHANGED <<entry, rotated, upstreamVars, db, lost>>

\* The row cannot be read: that is logged, and the token the caller read is sent.
RereadFails(c) ==
    /\ pc[c] = "queued" /\ Hits(c) = {}
    /\ Enters(c, Inner(c))
    /\ job' = [job EXCEPT ![c].sent = job[c].read]
    /\ Goes(c, "posting")
    /\ misled' = misled \cup Stale(job[c].conn, {job[c].read})
    /\ UNCHANGED <<entry, rotated, upstreamVars, db, lost>>

-----------------------------------------------------------------------------
(* The token endpoint (external), and what may become of its answer.       *)

Consume(c) ==
    LET x == job[c].conn   t == job[c].sent
    IN  /\ pc[c] = "posting"
        /\ Goes(c, "answered")
        /\ IF t \in live[x]
           THEN /\ issued' = [issued EXCEPT ![x] = @ + 1]
                /\ live' = [live EXCEPT ![x] = (@ \ {t}) \cup {issued'[x]}]
                /\ job' = [job EXCEPT ![c].got = issued'[x]]
                /\ UNCHANGED <<revoked, reused>>
           ELSE /\ IF t \in Used(x)
                   THEN /\ live' = [live EXCEPT ![x] = {}]
                        /\ revoked' = [revoked EXCEPT ![x] = @ \cup live[x]]
                        /\ reused' = reused \cup {<<x, t>>}
                   ELSE UNCHANGED <<live, revoked, reused>>
                /\ UNCHANGED <<issued, job>>
        /\ UNCHANGED <<laneVars, entry, rotated, db, lost, misled>>

\* The endpoint is not reached, or refuses without looking at the token.
Unreached(c) ==
    /\ pc[c] = "posting"
    /\ Goes(c, "answered")
    /\ UNCHANGED <<laneVars, job, entry, rotated, upstreamVars, db, lost, misled>>

\* recordRotation, in the turn in which the answer comes.
Answer(c) ==
    LET x == job[c].conn
    IN  /\ Quiet
        /\ pc[c] = "answered"
        /\ Goes(c, "fetched")
        /\ rotated' = IF job[c].got = 0 THEN rotated
                      ELSE [rotated EXCEPT ![x] = @ \cup {<<job[c].sent, job[c].got>>}]
        /\ UNCHANGED <<laneVars, job, entry, upstreamVars, db, lost, misled>>

\* The token was used but the answer never came.
LoseAnswer(c) ==
    /\ Quiet
    /\ pc[c] = "answered"
    /\ Goes(c, "fetched")
    /\ lost' = IF job[c].got = 0 THEN lost
               ELSE lost \cup {<<job[c].conn, job[c].sent>>}
    /\ job' = [job EXCEPT ![c].got = 0]
    /\ UNCHANGED <<laneVars, entry, rotated, upstreamVars, db, misled>>
-----------------------------------------------------------------------------
(* The end of the refresh.                                                 *)

GapBegins(c) ==
    /\ pc[c] = "fetched"
    /\ Settle(Inner(c))
    /\ UNCHANGED <<callVars, upstreamVars, db, lost, misled>>

\* casGuardShouldSkipPersist: only chatCore's callers carry a guard, and it
\* names the token they read.
SkipsPersist(c) == job[c].kind = "reactive" /\ db[job[c].conn].token # job[c].read

\* onPersist runs inside the mutex; the resolver passes none.
Persists(c) == job[c].got # 0 /\ job[c].kind # "resolver" /\ ~SkipsPersist(c)

\* Where a caller goes on with the result t.  One whose onPersist has not run
\* still writes it; the resolver has the lane to leave.
Resumes(c, t, persisted) ==
    IF job[c].kind # "resolver" /\ (t = 0 \/ persisted) THEN "idle" ELSE "returned"

\* Faulty: a failed refresh does not release its slot.
LeaveOnSuccess(c) ==
    /\ pc[c] = "fetched"
    /\ IF job[c].got = 0 THEN UNCHANGED laneVars ELSE Leaves(c, Inner(c))
    /\ Goes(c, "persisting")
    /\ UNCHANGED <<job, entry, rotated, upstreamVars, db, lost, misled>>

\* serializeRefresh returns; the next slot of the lane may begin.
LeaveLane(c) ==
    /\ pc[c] = "fetched"
    /\ Leaves(c, Inner(c))
    /\ Goes(c, "persisting")
    /\ UNCHANGED <<job, entry, rotated, upstreamVars, db, lost, misled>>

\* Faulty: a row whose access token is still valid is not written.
WrittenIfExpired(c) ==
    IF Persists(c) /\ ~db[job[c].conn].valid
    THEN [db EXCEPT ![job[c].conn] = Row(job[c].got)] ELSE db

\* The rows after the persist in the mutex.
Written(c) == IF Persists(c) THEN [db EXCEPT ![job[c].conn] = Row(job[c].got)] ELSE db

\* A settled refresh reaches its caller, whose onPersist has run or not, and
\* those that share its promise, and leaves these rows.
Resolves(c, rows, ran) ==
    LET t == job[c].got
        sharers == {d \in Call : pc[d] = "sharing" /\ job[d].conn = job[c].conn}
    IN  /\ pc[c] = "persisting"
        /\ db' = rows
        /\ pc' = [d \in Call |-> IF d = c THEN Resumes(d, t, ran)
                                 ELSE IF d \in sharers THEN Resumes(d, t, FALSE)
                                 ELSE pc[d]]
        /\ job' = [d \in Call |-> IF d \in sharers THEN [job[d] EXCEPT !.got = t]
                                  ELSE job[d]]
        /\ UNCHANGED <<laneVars, rotated, upstreamVars, misled>>

\* The mutex is released with the promise.
FreesMutex(c) == entry' = [entry EXCEPT ![job[c].conn] = NoCall]

\* The result is persisted, the mutex released, the shared promise resolved.
Return(c) == Resolves(c, Written(c), Persists(c)) /\ FreesMutex(c) /\ UNCHANGED lost

\* The row of x keeps a token whose successor it was to get.
Unsaved(x) == Stale(x, {db[x].token})

\* The persist in the mutex fails.  Both callbacks keep that to themselves; the
\* health check then writes once more, chatCore takes it for done.
PersistFails(c) ==
    /\ Persists(c)
    /\ Resolves(c, db, job[c].kind = "reactive")
    /\ FreesMutex(c)
    /\ lost' = IF job[c].kind = "reactive" THEN lost \cup Unsaved(job[c].conn) ELSE lost

\* The guard cannot read the row: the result is written, whatever is there.
GuardFails(c) ==
    /\ job[c].got # 0 /\ SkipsPersist(c)
    /\ Resolves(c, [db EXCEPT ![job[c].conn] = Row(job[c].got)], TRUE)
    /\ FreesMutex(c)
    /\ UNCHANGED lost

\* The write of a caller whose own onPersist did not run, after the mutex.
WriteBack(c) ==
    /\ pc[c] = "returned" /\ job[c].kind # "resolver"
    /\ db' = [db EXCEPT ![job[c].conn] = Row(job[c].got)]
    /\ Goes(c, "idle")
    /\ UNCHANGED <<laneVars, job, entry, rotated, upstreamVars, lost, misled>>

ResolverGap(c) ==
    /\ pc[c] = "returned" /\ job[c].kind = "resolver"
    /\ Settle(Outer(c))
    /\ Goes(c, "gap")
    /\ UNCHANGED <<job, entry, rotated, upstreamVars, db, lost, misled>>

ResolverLeaves(c) ==
    /\ pc[c] \in {"returned", "gap"} /\ job[c].kind = "resolver"
    /\ Leaves(c, Outer(c))
    /\ db' = IF job[c].got = 0 THEN db ELSE [db EXCEPT ![job[c].conn] = Row(job[c].got)]
    /\ Goes(c, "idle")
    /\ UNCHANGED <<job, entry, rotated, upstreamVars, lost, misled>>

\* The write after the mutex, or the resolver's, fails and nobody repeats it.
WriteFails(c) ==
    /\ \/ pc[c] = "returned" /\ job[c].kind # "resolver" /\ UNCHANGED laneVars
       \/ /\ pc[c] \in {"returned", "gap"} /\ job[c].kind = "resolver" /\ job[c].got # 0
          /\ Leaves(c, Outer(c))
    /\ Goes(c, "idle")
    /\ lost' = lost \cup Unsaved(job[c].conn)
    /\ UNCHANGED <<job, entry, rotated, upstreamVars, db, misled>>

-----------------------------------------------------------------------------
(* The surroundings.                                                       *)

\* The user signs in again: a new family, written to the row.
Login(x) ==
    /\ Quiet
    /\ issued' = [issued EXCEPT ![x] = @ + 1]
    /\ live' = [live EXCEPT ![x] = @ \cup {issued'[x]}]
    /\ db' = [db EXCEPT ![x] = Row(issued'[x])]
    /\ UNCHANGED <<laneVars, callVars, revoked, reused, lost, misled>>

AccessExpires(x) ==
    /\ Quiet
    /\ db[x].valid
    /\ db' = [db EXCEPT ![x].valid = FALSE]
    /\ UNCHANGED <<laneVars, callVars, upstreamVars, lost, misled>>

\* Faulty: a lookup drops an entry that is not the oldest.
LapsesInAnyOrder(x) ==
    /\ Quiet
    /\ \E p \in rotated[x] : rotated' = [rotated EXCEPT ![x] = @ \ {p}]
    /\ UNCHANGED <<laneVars, pc, job, entry, upstreamVars, db, lost, misled>>

\* The oldest entry of the rotation map is dropped after a minute.
RotationLapses(x) ==
    /\ Quiet
    /\ \E p \in rotated[x] :
          /\ \A q \in rotated[x] : p[2] <= q[2]
          /\ rotated' = [rotated EXCEPT ![x] = @ \ {p}]
    /\ UNCHANGED <<laneVars, pc, job, entry, upstreamVars, db, lost, misled>>

\* The process restarts: what is in memory is gone.
Crash ==
    /\ tail' = [g \in Group |-> NoSlot]
    /\ ahead' = [s \in Slot |-> NoSlot]
    /\ turn' = [s \in Slot |-> "out"]
    /\ before' = {}
    /\ pc' = [c \in Call |-> "idle"]
    /\ entry' = [x \in Conn |-> NoCall]
    /\ rotated' = [x \in Conn |-> {}]
    /\ lost' = lost \cup UNION {Unsaved(x) : x \in Conn}
    /\ UNCHANGED <<laneOf, job, upstreamVars, db, misled>>

Proceeds(c) ==
    \/ ResolverEnters(c)
    \/ StartRefresh(c)
    \/ Consume(c)
    \/ Unreached(c)
    \/ Answer(c)
    \/ GapBegins(c)
    \/ LeaveLane(c)
    \/ Return(c)
    \/ WriteBack(c)
    \/ ResolverGap(c)
    \/ ResolverLeaves(c)
    \/ pc[c] = "inside" /\ GetAccessToken(c)

Working ==
    \/ \E c \in Call : \/ \E k \in Kinds, x \in Conn : Load(c, k, x)
                       \/ ResolverQueues(c)
                       \/ GetAccessToken(c)
                       \/ Proceeds(c)
    \/ \E x \in Conn : Login(x) \/ AccessExpires(x) \/ RotationLapses(x)

Failing ==
    \/ Crash
    \/ \E c \in Call : \/ RereadFails(c) \/ LoseAnswer(c)
                       \/ GuardFails(c) \/ PersistFails(c) \/ WriteFails(c)

TokenNext == Working \/ Failing

TokenSpec == TokenInit /\ [][TokenNext]_tokenVars

\* Continuations run, the endpoint answers or the call fails, gaps end; and the
\* event loop comes to an answer although other refreshes go on and on.
TokenFairness == \A c \in Call : WF_tokenVars(Proceeds(c)) /\ SF_tokenVars(Answer(c))

-----------------------------------------------------------------------------
(* Properties.                                                             *)

TokenTypeOK ==
    /\ TypeOK
    /\ pc \in [Call -> {"idle", "loaded", "outside", "inside", "queued", "sharing",
                        "posting", "answered", "fetched", "persisting", "returned", "gap"}]
    /\ job \in [Call -> [kind : {"health", "reactive", "resolver"}, conn : Conn,
                         read : Nat, sent : Nat, got : Nat]]
    /\ entry \in [Conn -> Call \cup {NoCall}]
    /\ \A x \in Conn : rotated[x] \subseteq (1..issued[x]) \X (1..issued[x])
    /\ db \in [Conn -> [token : Nat, valid : BOOLEAN]]
    /\ \A x \in Conn : live[x] \subseteq 1..issued[x] /\ revoked[x] \subseteq 1..issued[x]
    /\ reused \subseteq Conn \X Nat /\ lost \subseteq Conn \X Nat
    /\ misled \subseteq Conn \X Nat

\* Two accounts of a rotation group are never in a POST to the token endpoint
\* at once, whichever callers asked for their refreshes.
OnePostPerGroup ==
    /\ TokenTypeOK
    /\ \A c, d \in Call :
           /\ pc[c] \in {"posting", "answered"} /\ pc[d] \in {"posting", "answered"}
           /\ LaneOfCall(c) = LaneOfCall(d) /\ LaneOfCall(c) # NoGroup
           => c = d

\* Between refreshes the row holds a token that is not used up, unless its
\* successor was lost, with its answer, its process or the last attempt to
\* write it, or a caller was misled to it.
RowTokenLive ==
    \A x \in Conn : entry[x] = NoCall /\ Quiet =>
        \/ db[x].token \in live[x] \cup revoked[x]
        \/ <<x, db[x].token>> \in lost \cup misled

\* A used token is presented again, whatever stale credentials callers hold,
\* only if its successor was lost (with the answer, the process or the write),
\* or that very token was handed out by the rotation map when it was used
\* already, or was sent because the row could not be read.
ReuseHasCause == reused \subseteq lost \cup misled

\* Of a token that it answers with and that has been used meanwhile, the map
\* has the successor too, as soon as upstream's answer is in and unless that
\* was lost: whatever lapses, what a stale caller needs can be told from it.
MapKnowsNext ==
    \A x \in Conn : \A p \in rotated[x] : p[2] \in Used(x) =>
        \/ \E q \in rotated[x] : q[1] = p[2]
        \/ <<x, p[2]>> \in lost
        \/ \E c \in Call : /\ pc[c] = "answered" /\ job[c].conn = x
                           /\ job[c].sent = p[2] /\ job[c].got # 0

\* A caller behind the guard replaces no token but the one it read or sent:
\* what another writer put in the row meanwhile stays.
FresherRowKept ==
    [][\A c \in Call :
          /\ job[c].kind = "reactive"
          /\ pc[c] \in {"persisting", "returned"} /\ pc'[c] \in {"returned", "idle"}
          /\ db'[job[c].conn].token # db[job[c].conn].token
          => db[job[c].conn].token \in {job[c].read, job[c].sent}]_tokenVars

\* A refresh once asked for comes to an end, and so does every wait for the
\* lane of its group.
RefreshEnds == \A c \in Call : pc[c] \notin {"idle", "loaded"} ~> pc[c] = "idle"
=============================================================================
