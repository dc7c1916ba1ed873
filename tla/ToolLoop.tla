------------------------------ MODULE ToolLoop ------------------------------
(***************************************************************************)
(* The server-owned tool loop of a chat request (runServerOwnedToolLoop of *)
(* src/lib/skills/serverOwnedToolLoop.ts) over the fence: the tool calls   *)
(* of a response are executed one after the other (executeServerOwned of   *)
(* src/lib/skills/interception.ts), their results are sent to the provider *)
(* in a follow-up leg, whose response may ask for tools again.             *)
(*                                                                         *)
(* Attempts are the requests that carry one identity: the first one and    *)
(* its repetitions, concurrent or later, each with responses of its own.   *)
(***************************************************************************)
EXTENDS ToolFence, Sequences

CONSTANTS
    Response,     \* what a provider may answer: the calls of server-owned
                  \* tools, and whether there are calls of client tools too
    MaxFollowUps

ASSUME LoopAssumption ==
    /\ Response \subseteq [calls : Seq([key : Key, digest : Digest]), mixed : BOOLEAN]
    /\ MaxFollowUps \in Nat

VARIABLE leg \* where the loop of each attempt is; "idle" when it is over

loopVars == <<fenceVars, leg>>

NoLeg == [stage |-> "idle", calls |-> <<>>, mixed |-> FALSE, followUps |-> 0]

LoopInit ==
    /\ FenceInit
    /\ leg = [a \in Attempt |-> NoLeg]

OnLeg(a, stage) == leg[a].stage = stage

Ends(a) == leg' = [leg EXCEPT ![a] = NoLeg]

\* The head of the loop: without server-owned calls, or with its client gone,
\* it is over.
Opens(a, r, followUps) ==
    \/ Ends(a)
    \/ /\ r.calls # <<>>
       /\ leg' = [leg EXCEPT ![a] = [stage |-> "calling", calls |-> r.calls,
                                     mixed |-> r.mixed, followUps |-> followUps]]

\* The response of the first leg.
Start(a) ==
    /\ OnLeg(a, "idle")
    /\ \E r \in Response : Opens(a, r, 0)
    /\ UNCHANGED fenceVars

CallTool(a) ==
    /\ OnLeg(a, "calling") /\ leg[a].calls # <<>>
    /\ Enter(a, Head(leg[a].calls).key, Head(leg[a].calls).digest)
    /\ UNCHANGED leg

\* A result is kept and the next call follows; anything else ends the loop.
TakeAnswer(a) ==
    /\ InCall(a, "returned")
    /\ Leave(a)
    /\ IF call[a].kind \in {"executed", "replayed"}
       THEN leg' = [leg EXCEPT ![a].calls = Tail(@)]
       ELSE Ends(a)

\* All calls have results.  With client tools among them the response goes to
\* the client; so it does when the results are over their budget, the deadline
\* is near or the client is gone, which may be at any time.
CloseLeg(a) ==
    /\ OnLeg(a, "calling") /\ leg[a].calls = <<>>
    /\ \/ Ends(a)
       \/ /\ ~leg[a].mixed /\ leg[a].followUps < MaxFollowUps
          /\ leg' = [leg EXCEPT ![a].stage = "resuming"]
    /\ UNCHANGED fenceVars

\* Faulty: a follow-up is not counted.
ResumeUncounted(a) ==
    /\ OnLeg(a, "resuming")
    /\ Ends(a) \/ \E r \in Response : Opens(a, r, leg[a].followUps)
    /\ UNCHANGED fenceVars

\* The follow-up leg fails or comes from another connection, or it answers.
Resume(a) ==
    /\ OnLeg(a, "resuming")
    /\ Ends(a) \/ \E r \in Response : Opens(a, r, leg[a].followUps + 1)
    /\ UNCHANGED fenceVars

\* The process dies with what the attempt was doing.
Crash(a) == ~OnLeg(a, "idle") /\ Leave(a) /\ Ends(a)

SettlesInLeg(a) == Completes(a) /\ UNCHANGED leg

Proceeds(a) == CallTool(a) \/ SettlesInLeg(a) \/ TakeAnswer(a) \/ CloseLeg(a) \/ Resume(a)

LoopNext ==
    \/ \E a \in Attempt : Start(a) \/ Proceeds(a) \/ Crash(a)
    \/ \E k \in Key : Lapse(k) /\ UNCHANGED leg

LoopSpec == LoopInit /\ [][LoopNext]_loopVars

\* Due continuations run, handlers and providers settle (their time-outs see
\* to that), and polling has a deadline.  Nobody has to repeat a request.
FairLoopSpec == LoopSpec /\ \A a \in Attempt : WF_loopVars(Proceeds(a))

-----------------------------------------------------------------------------
(* Properties.                                                             *)

\* The loop of a request comes to an end, whatever tools the provider asks
\* for and whoever else runs them: the model's follow-ups are bounded and no
\* attempt waits for ever for the row of another.
LoopEnds == \A a \in Attempt : ~OnLeg(a, "idle") ~> OnLeg(a, "idle")
=============================================================================
