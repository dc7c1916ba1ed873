------------------------------ MODULE ToolFence ------------------------------
(***************************************************************************)
(* The fence around server-owned tool calls: runWithServerToolFence        *)
(* (src/lib/skills/toolExecutionFence.ts) over the table                   *)
(* server_tool_executions (src/lib/db/skillExecutionFence.ts).  A client   *)
(* that repeats a request, in this process or another, before or after a   *)
(* crash, must not have a tool run twice.                                  *)
(*                                                                         *)
(* The insert of a claim and the read that follows a conflict are one      *)
(* action: rows are never deleted, so the insert would have conflicted at  *)
(* the time of the read as well.  The map of promises of this process is   *)
(* left out: an entry is settled and deleted within one run of the         *)
(* microtask queue, and a poll, which runs from a timer, never finds it    *)
(* settled; it reads the table.                                            *)
(***************************************************************************)
EXTENDS Naturals

CONSTANTS
    Attempt,     \* requests under way that carry one request identity
    Key,         \* tool call ids under that identity
    Digest,      \* tool names with the digest of their arguments
    Value,       \* what handlers return
    Recorded(_), \* a value |-> what the row keeps of it: sanitized, cut, parsed
    NoRow, NoValue

Kept == {Recorded(v) : v \in Value}

\* A row: the execution (by its attempt), the tool, and what became of it.
Execution == [by : Attempt, digest : Digest, status : {"running", "success", "error"},
        output : Kept \cup {NoValue}]

ASSUME FenceAssumption == NoRow \notin Execution

VARIABLES
    records, \* the table: the row of each key
    lapsed,  \* the keys of rows whose claim_expires_at has passed
    call,    \* the fenced call each attempt is in, and what it was answered
    starts,  \* how often the handler was called for a key
    done     \* the handlers that returned: key, digest and value

fenceVars == <<records, lapsed, call, starts, done>>

NoCall == [stage |-> "idle"]

FenceInit ==
    /\ records = [k \in Key |-> NoRow]
    /\ lapsed = {}
    /\ call = [a \in Attempt |-> NoCall]
    /\ starts = [k \in Key |-> 0]
    /\ done = {}

InCall(a, stage) == call[a].stage = stage

Becomes(a, stage, k, d) ==
    call' = [call EXCEPT ![a] = [stage |-> stage, key |-> k, digest |-> d]]

\* runWithServerToolFence returns or, with kind "failed", throws.
Returns(a, k, d, kind, value) ==
    call' = [call EXCEPT ![a] = [stage |-> "returned", key |-> k, digest |-> d,
                                 kind |-> kind, value |-> value]]

\* buildReplayClaim, and its copy in the polling loop.
Replays(a, k, d) ==
    IF records[k].status = "success" THEN Returns(a, k, d, "replayed", records[k].output)
                                  ELSE Returns(a, k, d, "failed", NoValue)

-----------------------------------------------------------------------------
(* claimServerToolExecution and what follows it in the same turn.          *)

\* Faulty: a claim whose lease has run out is taken over.
ClaimableLapsed(k) ==
    IF records[k] = NoRow THEN TRUE ELSE records[k].status = "running" /\ k \in lapsed

Claimable(k) == records[k] = NoRow

\* The row is inserted and the handler is called.
Claims(a, k, d) ==
    /\ Claimable(k)
    /\ records' = [records EXCEPT ![k] = [by |-> a, digest |-> d, status |-> "running",
                                    output |-> NoValue]]
    /\ starts' = [starts EXCEPT ![k] = @ + 1]
    /\ Becomes(a, "executing", k, d)
    /\ UNCHANGED <<lapsed, done>>

\* The database fails for another reason than the UNIQUE constraint.
ClaimFails(a, k, d) ==
    Returns(a, k, d, "failed", NoValue) /\ UNCHANGED <<records, lapsed, starts, done>>

\* Faulty: the arguments are not compared.
SameToolAnyArguments(k, d) == TRUE

SameTool(k, d) == records[k].digest = d

\* The row is there: it tells what became of the call.
ClaimAnswered(a, k, d) ==
    /\ ~Claimable(k)
    /\ IF ~SameTool(k, d) THEN Returns(a, k, d, "identity_conflict", NoValue)
       ELSE IF records[k].status # "running" THEN Replays(a, k, d)
       ELSE IF k \in lapsed THEN Returns(a, k, d, "unknown", NoValue)
       ELSE Becomes(a, "polling", k, d)
    /\ UNCHANGED <<records, lapsed, starts, done>>

Enter(a, k, d) ==
    InCall(a, "idle") /\ (Claims(a, k, d) \/ ClaimFails(a, k, d) \/ ClaimAnswered(a, k, d))

-----------------------------------------------------------------------------
(* The handler settles.                                                    *)

\* finalizeServerToolExecution
Finalized(a, status, output) ==
    records' = [k \in Key |->
        IF /\ records[k] # NoRow /\ k = call[a].key
           /\ records[k].by = a /\ records[k].status = "running"
        THEN [records[k] EXCEPT !.status = status, !.output = output]
        ELSE records[k]]

\* The error is recorded, or that fails too and the row stays as it is.
FinalizedAsError(a) == Finalized(a, "error", NoValue) \/ UNCHANGED records

HandlerReturns(a, v) ==
    LET k == call[a].key   d == call[a].digest
    IN  /\ InCall(a, "executing")
        /\ done' = done \cup {[key |-> k, digest |-> d, value |-> v]}
        /\ \/ /\ Finalized(a, "success", Recorded(v))
              /\ Returns(a, k, d, "executed", v)
           \/ /\ FinalizedAsError(a)
              /\ Returns(a, k, d, "failed", NoValue)
        /\ UNCHANGED <<lapsed, starts>>

HandlerThrows(a) ==
    /\ InCall(a, "executing")
    /\ FinalizedAsError(a)
    /\ Returns(a, call[a].key, call[a].digest, "failed", NoValue)
    /\ UNCHANGED <<lapsed, starts, done>>

-----------------------------------------------------------------------------
(* Another attempt runs the tool: its row is polled for MAX_POLL_MS.       *)

PollFinds(a) ==
    /\ InCall(a, "polling")
    /\ records[call[a].key].status # "running"
    /\ Replays(a, call[a].key, call[a].digest)
    /\ UNCHANGED <<records, lapsed, starts, done>>

PollEnds(a) ==
    /\ InCall(a, "polling")
    /\ Returns(a, call[a].key, call[a].digest, "in_progress", NoValue)
    /\ UNCHANGED <<records, lapsed, starts, done>>

-----------------------------------------------------------------------------
Lapse(k) ==
    /\ records[k] # NoRow /\ k \notin lapsed
    /\ lapsed' = lapsed \cup {k}
    /\ UNCHANGED <<records, call, starts, done>>

\* The answer is taken, or the process dies.
Leave(a) == call' = [call EXCEPT ![a] = NoCall] /\ UNCHANGED <<records, lapsed, starts, done>>

Completes(a) ==
    \/ \E v \in Value : HandlerReturns(a, v)
    \/ HandlerThrows(a) \/ PollFinds(a) \/ PollEnds(a)

FenceNext ==
    \/ \E a \in Attempt :
         \/ \E k \in Key, d \in Digest : Enter(a, k, d)
         \/ Completes(a) \/ Leave(a)
    \/ \E k \in Key : Lapse(k)

FenceSpec == FenceInit /\ [][FenceNext]_fenceVars

-----------------------------------------------------------------------------
(* Properties.                                                             *)

Call ==
    {NoCall} \cup [stage : {"executing", "polling"}, key : Key, digest : Digest]
    \cup [stage : {"returned"}, key : Key, digest : Digest,
          kind : {"executed", "replayed", "failed", "in_progress", "unknown",
                  "identity_conflict"},
          value : Value \cup Kept \cup {NoValue}]

FenceTypeOK ==
    /\ records \in [Key -> Execution \cup {NoRow}]
    /\ lapsed \subseteq Key
    /\ call \in [Attempt -> Call]
    /\ starts \in [Key -> Nat]
    /\ done \subseteq [key : Key, digest : Digest, value : Value]

\* A tool call is executed at most once, however often the request is made
\* again, in whatever process, after whatever crash, lapse or failed write.
AtMostOnce == \A k \in Key : starts[k] <= 1

ValueFrom(x, a) ==
    /\ x.key = call[a].key /\ x.digest = call[a].digest
    /\ call[a].value = IF call[a].kind = "executed" THEN x.value ELSE Recorded(x.value)
    /\ \A y \in done : y.key = x.key => y = x

HasValue(a) == InCall(a, "returned") /\ call[a].kind \in {"executed", "replayed"}

\* Whoever is given a value for a tool call, by running it or from the row, is
\* given that of a handler that returned, for that call and these arguments;
\* and nobody is given another.
ValuesAgree ==
    /\ FenceTypeOK
    /\ \A a \in Attempt : HasValue(a) => \E x \in done : ValueFrom(x, a)
=============================================================================
