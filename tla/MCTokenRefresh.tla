---------------------------- MODULE MCTokenRefresh ----------------------------
(* Small instances of TokenRefresh for TLC.  A scene is a part that a run   *)
(* plays: who takes part, how far the tokens of a connection go, and        *)
(* whether there are faults.  With faults, answers are lost, the endpoint   *)
(* or the row is out of reach, writes fail and the process crashes; a POST  *)
(* beyond the last token then fails.  Without, no refresh is asked for that *)
(* could take the tokens of a connection beyond it.                         *)
EXTENDS TokenRefresh, TLC

CONSTANTS c1, c2, x1, x2, x3, auth0, Scenes

VARIABLE scene

CallSlots == Call \X {"refresh", "resolver"}

\* x3 is a connection of a provider that is not serialized.
MixedGroups == [x \in Conn |-> IF x = x3 THEN NoGroup ELSE auth0]

\* One connection through three tokens, serialized or not, and two accounts of
\* one group, where how a result is written does not matter to the lane.
FaultyScenes ==
    {[conns |-> {x}, kinds |-> Kinds, tokens |-> 3, faults |-> TRUE] : x \in Conn}
    \cup {[conns |-> {x1, x2}, kinds |-> Kinds \ {"reactive"}, tokens |-> 2, faults |-> TRUE]}

\* All connections, without the caller that waits for itself.
LiveScenes ==
    {[conns |-> Conn, kinds |-> {"health", "reactive"}, tokens |-> 2, faults |-> FALSE]}

GuardScenes == {[conns |-> {x1}, kinds |-> {"reactive"}, tokens |-> 3, faults |-> FALSE]}

NestedScenes == {[conns |-> {x1}, kinds |-> {"resolver"}, tokens |-> 2, faults |-> FALSE]}

Symmetry == Permutations(Call) \cup Permutations({x1, x2})

\* The refreshes of x that may yet take a token.
Pending(x) ==
    {c \in Call : job[c].conn = x
                  /\ pc[c] \in {"loaded", "outside", "inside", "queued", "posting"}}

\* Only the scene's callers act, on its connections.
InScene ==
    /\ \A c \in Call : job'[c].conn \in scene.conns
    /\ \A c \in Call : pc'[c] = "loaded" => job'[c].kind \in scene.kinds
    /\ \A x \in Conn \ scene.conns : db'[x] = db[x]

Bound ==
    /\ InScene
    /\ \A x \in Conn : issued'[x] + (IF scene.faults THEN 0 ELSE Cardinality(Pending(x)'))
                       <= scene.tokens

\* At the bound everybody may rest.
Rest == (\A c \in Call : pc[c] = "idle") /\ UNCHANGED tokenVars

BoundedNext ==
    /\ \/ Working /\ Bound
       \/ scene.faults /\ Failing /\ Bound
       \/ Rest
    /\ UNCHANGED scene

SceneInit ==
    /\ TokenInit
    /\ scene \in Scenes
    /\ \A c \in Call : job[c].conn \in scene.conns

BoundedSpec == SceneInit /\ [][BoundedNext]_<<tokenVars, scene>>

FairBoundedSpec ==
    /\ BoundedSpec
    /\ \A c \in Call : /\ WF_tokenVars(Proceeds(c) /\ Bound)
                       /\ SF_tokenVars(Answer(c) /\ Bound)
    /\ \A x \in Conn : WF_tokenVars(RotationLapses(x) /\ Bound)
=============================================================================
