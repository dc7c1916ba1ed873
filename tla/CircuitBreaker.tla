---------------------------- MODULE CircuitBreaker ----------------------------
(***************************************************************************)
(* The breaker of one provider (src/shared/utils/circuitBreaker.ts) and    *)
(* the calls that go through it: gated at the start of the request,        *)
(* executed later, and accounted for later still, by chat.ts or by the     *)
(* combo loop (accountFallback.ts), because execute() ignores what         *)
(* handleChatCore resolves to.  Between those steps are awaits.            *)
(*                                                                         *)
(* Time is in ages: ticks since the last failure and since the first probe *)
(* of a lease, each capped where it stops to matter.  The number of a      *)
(* probe generation is only ever compared, so a call knows whether the     *)
(* generation it is a probe of is the current one.                         *)
(***************************************************************************)
EXTENDS Integers, FiniteSets

CONSTANTS
    Call,
    Path,             \* how calls come: by themselves ("chat"), with a fixed
                      \* connection ("direct"), from a combo ("combo"), from
                      \* a combo step with a fixed connection ("pinned")
    FailureThreshold, \* failures that open the breaker
    Degradation,      \* degradationThreshold
    ResetTimeout,     \* ticks
    HalfOpenRequests, \* probes per lease
    Escalation,       \* backoffEscalationCount
    MaxMultiplier,    \* maxBackoffMultiplier
    Kind,             \* failure kinds that classifyError finds
    CooldownByKind,   \* and their cooldowns, in ticks
    NoKind,
    MaxCycles,        \* from here on openCycleCount makes no difference
    MaxAge            \* no cooldown is longer

Backoff(n) ==
    IF n <= Escalation THEN 1
    ELSE IF 2 ^ (n - Escalation) < MaxMultiplier THEN 2 ^ (n - Escalation)
    ELSE MaxMultiplier

ASSUME BreakerAssumption ==
    /\ IsFiniteSet(Call) /\ Path \subseteq {"chat", "direct", "combo", "pinned"}
    /\ FailureThreshold \in Nat \ {0} /\ Degradation \in 1..FailureThreshold
    /\ HalfOpenRequests \in Nat \ {0} /\ ResetTimeout \in Nat \ {0}
    /\ Escalation \in Nat /\ MaxMultiplier \in Nat \ {0} /\ MaxCycles \in Nat
    /\ NoKind \notin Kind /\ CooldownByKind \in [Kind -> Nat]
    /\ MaxAge \in Nat /\ Backoff(MaxCycles) = MaxMultiplier
    /\ \A k \in Kind : CooldownByKind[k] <= MaxAge
    /\ ResetTimeout * MaxMultiplier <= MaxAge

NoLease == -1

\* Calls that pass by the breaker, and calls that no combo accounts for.
Fixed == {"direct", "pinned"}
Single == {"chat", "direct"}

VARIABLES
    br,    \* the breaker: state, count (failureCount), age (of the last
           \* failure, MaxAge when there is none), kind, cycles
           \* (openCycleCount), allowed (halfOpenAllowed), lease (age of
           \* halfOpenProbeStartedAt), renewed (halfOpenProbeGeneration moved
           \* in the current step), row (what is saved in the database)
    stage, \* of a call: "idle", "picked" by a combo, "gated" (it will select
           \* an account), "running", or ended and not yet accounted for:
           \* "served", "failed", or "excused" (of a kind that does not count)
    path,  \* how it came, "none" while it is idle
    probe, \* "none", or the generation it is a probe of is "current" or
           \* "stale"; until it is accounted for
    sinceOpen \* history: age of the last opening, MaxAge once closed

vars == <<br, stage, path, probe, sinceOpen>>

Fresh == [state |-> "CLOSED", count |-> 0, age |-> MaxAge, kind |-> NoKind, cycles |-> 0]

\* Faulty: the time of the last failure is not restored.
RestoreUndated(row) ==
    [state |-> row.state, count |-> row.count, age |-> MaxAge, kind |-> row.kind,
     cycles |-> row.cycles, row |-> row, lease |-> NoLease, renewed |-> FALSE,
     allowed |-> IF row.state = "HALF_OPEN" THEN HalfOpenRequests ELSE 0]

\* _restoreFromDb; nothing of a running probe survives.
Restore(row) ==
    [state |-> row.state, count |-> row.count, age |-> row.age, kind |-> row.kind,
     cycles |-> row.cycles, row |-> row, lease |-> NoLease, renewed |-> FALSE,
     allowed |-> IF row.state = "HALF_OPEN" THEN HalfOpenRequests ELSE 0]

Init ==
    /\ br = Restore(Fresh)
    /\ stage = [c \in Call |-> "idle"]
    /\ path = [c \in Call |-> "none"]
    /\ probe = [c \in Call |-> "none"]
    /\ sinceOpen = MaxAge

-----------------------------------------------------------------------------
(* The breaker.                                                            *)

AtMost(n, cap) == IF n < cap THEN n ELSE cap

\* _persistToDb
Saved(b) == [state |-> b.state, count |-> b.count, age |-> b.age, kind |-> b.kind,
             cycles |-> b.cycles]

Persist(b) == [b EXCEPT !.row = Saved(b)]

\* _transition: every change of state, and none, begins a new generation.
Transition(b, s) ==
    [b EXCEPT !.state = s, !.lease = NoLease, !.renewed = TRUE,
              !.allowed = IF s = "HALF_OPEN" THEN HalfOpenRequests ELSE @]

Cooldown(b) == IF b.kind \in Kind THEN CooldownByKind[b.kind]
               ELSE ResetTimeout * Backoff(b.cycles)

\* Faulty: a probe that never settles keeps its lease.
ProbesNeverLost(b) == FALSE

ProbesLost(b) ==
    /\ b.state = "HALF_OPEN" /\ b.allowed = 0
    /\ b.lease # NoLease /\ b.lease >= ResetTimeout

\* Faulty: the half-open state is not saved.
RefreshUnsaved(b) ==
    IF b.state = "OPEN" /\ b.age >= Cooldown(b) THEN Transition(b, "HALF_OPEN")
    ELSE IF ProbesLost(b)
    THEN [b EXCEPT !.allowed = HalfOpenRequests, !.lease = NoLease, !.renewed = TRUE]
    ELSE b

\* Faulty: the probes that lost their lease are of the new generation too.
RefreshSameGeneration(b) ==
    IF b.state = "OPEN" /\ b.age >= Cooldown(b) THEN Persist(Transition(b, "HALF_OPEN"))
    ELSE IF ProbesLost(b) THEN [b EXCEPT !.allowed = HalfOpenRequests, !.lease = NoLease]
    ELSE b

\* _refreshOpenState, which every question to the breaker begins with.
Refresh(b) ==
    IF b.state = "OPEN" /\ b.age >= Cooldown(b) THEN Persist(Transition(b, "HALF_OPEN"))
    ELSE IF ProbesLost(b)
    THEN [b EXCEPT !.allowed = HalfOpenRequests, !.lease = NoLease, !.renewed = TRUE]
    ELSE b

\* canExecute, after the refresh.
LetsIn(b) == \/ b.state \in {"CLOSED", "DEGRADED"}
             \/ b.state = "HALF_OPEN" /\ b.allowed > 0

CanExecute(b) == LetsIn(Refresh(b))

Closed(b) == [Transition(b, "CLOSED") EXCEPT !.count = 0, !.kind = NoKind, !.cycles = 0]

OnSuccess(b) ==
    LET n == IF b.count > 0 THEN b.count - 1 ELSE 0
    IN  Persist(CASE b.state = "OPEN"      -> [Closed(b) EXCEPT !.age = MaxAge]
                  [] b.state = "HALF_OPEN" -> Closed(b)
                  [] b.state = "DEGRADED" /\ n <= Degradation ->
                        [Transition(b, "CLOSED") EXCEPT !.count = n]
                  [] OTHER -> [b EXCEPT !.count = n])

OnFailure(b, k) ==
    LET f == [b EXCEPT !.count = AtMost(@ + 1, FailureThreshold), !.age = 0, !.kind = k]
    IN  Persist(CASE b.state = "HALF_OPEN" ->
                        [Transition(f, "OPEN") EXCEPT !.cycles = AtMost(@ + 1, MaxCycles)]
                  [] b.state \in {"CLOSED", "DEGRADED"} /\ f.count = FailureThreshold ->
                        Transition(f, "OPEN")
                  [] b.state = "CLOSED" /\ f.count >= Degradation /\ f.count < FailureThreshold ->
                        Transition(f, "DEGRADED")
                  [] OTHER -> f)

\* The breaker becomes b; probes of a generation that is over are stale.
Becomes(b) ==
    /\ br' = [b EXCEPT !.renewed = FALSE]
    /\ sinceOpen' = IF b.state \in {"CLOSED", "DEGRADED"} THEN MaxAge
                    ELSE IF b.state = "OPEN" /\ b.renewed THEN 0
                    ELSE sinceOpen

Aged(b) == [c \in Call |-> IF b.renewed /\ probe[c] = "current" THEN "stale" ELSE probe[c]]

Goes(c, s, p) ==
    /\ stage' = [stage EXCEPT ![c] = s]
    /\ path' = [path EXCEPT ![c] = IF s = "idle" THEN "none" ELSE p]

Leaves(c, b) == probe' = [Aged(b) EXCEPT ![c] = "none"]

\* A request ends without a result of handleChatCore.  The combo loop has a
\* 5xx response, which may not count (the next target is the same provider's,
\* or the connection has just failed).
Fails(c, p) ==
    IF p \in Single THEN Goes(c, "idle", p)
    ELSE \E s \in {"failed", "excused"} : Goes(c, s, p)

-----------------------------------------------------------------------------
(* A call.                                                                 *)

\* executeTargetGates: a combo skips a target whose breaker is open.
Pick(c, p) ==
    LET b == Refresh(br)
    IN  /\ stage[c] = "idle" /\ p \notin Single
        /\ Becomes(b) /\ probe' = Aged(b)
        /\ Goes(c, IF b.state = "OPEN" THEN "idle" ELSE "picked", p)

\* checkPipelineGates; a fixed connection passes whatever the breaker says.
\* The combo loop sees a refusal as a failed target.
Gate(c, p) ==
    LET b == Refresh(br)
    IN  /\ IF p \in Single THEN stage[c] = "idle" ELSE stage[c] = "picked" /\ path[c] = p
        /\ Becomes(b) /\ probe' = Aged(b)
        /\ IF LetsIn(b) \/ p \in Fixed THEN Goes(c, "gated", p) ELSE Fails(c, p)

\* execute, up to the call of fn; a refusal is a 503 of the account.
Start(c) ==
    LET b == Refresh(br)
        took == [b EXCEPT !.allowed = @ - 1, !.lease = IF @ = NoLease THEN 0 ELSE @]
        probes == LetsIn(b) /\ b.state = "HALF_OPEN"
    IN  /\ stage[c] = "gated" /\ path[c] \notin Fixed
        /\ Becomes(IF probes THEN took ELSE b)
        /\ probe' = [Aged(b) EXCEPT ![c] = IF probes THEN "current" ELSE "none"]
        /\ \E s \in IF LetsIn(b) THEN {"running"} ELSE {"gated", "failed", "excused"} :
             Goes(c, s, path[c])

\* executeChatWithBreaker without the breaker.
StartFixed(c) ==
    /\ stage[c] = "gated" /\ path[c] \in Fixed
    /\ Goes(c, "running", path[c])
    /\ UNCHANGED <<br, probe, sinceOpen>>

\* fn resolves: chatPathOwnsBreakerAccounting says "ignore".
Resolve(c) ==
    /\ stage[c] = "running"
    /\ \E s \in {"served", "failed", "excused"} : Goes(c, s, path[c])
    /\ UNCHANGED <<br, probe, sinceOpen>>

\* fn resolves with a failure for which chat.ts tries another account, or the
\* same one again: this one is not counted.
Retry(c) ==
    /\ stage[c] = "running" /\ path[c] \notin Fixed
    /\ Goes(c, "gated", path[c])
    /\ probe' = [probe EXCEPT ![c] = "none"]
    /\ UNCHANGED <<br, sinceOpen>>

\* fn throws.  execute counts it unless the probe is stale or isFailure says
\* no; chat.ts rethrows.
Throw(c) ==
    /\ stage[c] = "running"
    /\ \E b \in {br} \cup IF path[c] \in Fixed \/ probe[c] = "stale" THEN {}
                          ELSE {OnFailure(br, k) : k \in Kind \cup {NoKind}} :
         Becomes(b) /\ Leaves(c, b)
    /\ Fails(c, path[c])

\* Every connection is rate limited, on the first or a later attempt: chat.ts
\* counts the last status.
NoCredentials(c) ==
    /\ stage[c] = "gated"
    /\ \E b \in {br, OnFailure(br, NoKind)} : Becomes(b) /\ Leaves(c, b)
    /\ Fails(c, path[c])

\* What an outcome makes of the breaker.  recordProviderSuccess and
\* recordProviderFailure ask the breaker first, chat.ts does not.
Accounted(c) ==
    LET asked == Refresh(br)
    IN  CASE stage[c] = "excused" -> br
          [] stage[c] = "served" /\ path[c] \in Single -> OnSuccess(br)
          [] stage[c] = "served" /\ path[c] \notin Single ->
                IF asked.state = "OPEN" THEN asked ELSE OnSuccess(asked)
          [] stage[c] = "failed" /\ path[c] \in Single -> OnFailure(br, NoKind)
          [] stage[c] = "failed" /\ path[c] \notin Single ->
                IF LetsIn(asked) THEN OnFailure(asked, NoKind) ELSE asked

Account(c) ==
    /\ stage[c] \in {"served", "failed", "excused"}
    /\ LET b == Accounted(c) IN Becomes(b) /\ Leaves(c, b)
    /\ Goes(c, "idle", path[c])

-----------------------------------------------------------------------------
(* Around the calls.                                                       *)

\* getStatus, getRetryAfterMs: any page or sorter that looks at the breaker.
Look ==
    LET b == Refresh(br)
    IN  Becomes(b) /\ probe' = Aged(b) /\ UNCHANGED <<stage, path>>

\* The operator's reset.
Reset ==
    LET b == Persist([Closed(br) EXCEPT !.age = MaxAge])
    IN  Becomes(b) /\ probe' = Aged(b) /\ UNCHANGED <<stage, path>>

\* The process starts again.
Restart ==
    /\ br' = Restore(br.row)
    /\ stage' = [c \in Call |-> "idle"]
    /\ path' = [c \in Call |-> "none"]
    /\ probe' = [c \in Call |-> "none"]
    /\ UNCHANGED sinceOpen

Tick ==
    /\ br' = [br EXCEPT !.age = AtMost(@ + 1, MaxAge), !.row.age = AtMost(@ + 1, MaxAge),
                        !.lease = IF @ = NoLease THEN @ ELSE AtMost(@ + 1, ResetTimeout)]
    /\ sinceOpen' = AtMost(sinceOpen + 1, MaxAge)
    /\ UNCHANGED <<stage, path, probe>>

CallStep(c) ==
    \/ \E p \in Path : Pick(c, p) \/ Gate(c, p)
    \/ Start(c) \/ StartFixed(c) \/ Resolve(c) \/ Throw(c)
    \/ NoCredentials(c) \/ Retry(c) \/ Account(c)

Next == (\E c \in Call : CallStep(c)) \/ Look \/ Reset \/ Restart \/ Tick

Spec == Init /\ [][Next]_vars

\* Only the clock is fair: a call may hang for ever, nobody need look.
FairSpec == Spec /\ WF_vars(Tick)

-----------------------------------------------------------------------------
(* Properties.                                                             *)

State == {"CLOSED", "DEGRADED", "OPEN", "HALF_OPEN"}

Row == [state : State, count : 0..FailureThreshold, age : 0..MaxAge,
        kind : Kind \cup {NoKind}, cycles : 0..MaxCycles]

Breaker == [state : State, count : 0..FailureThreshold, age : 0..MaxAge,
            kind : Kind \cup {NoKind}, cycles : 0..MaxCycles,
            allowed : 0..HalfOpenRequests, lease : {NoLease} \cup 0..ResetTimeout,
            renewed : BOOLEAN, row : Row]

\* Only running and ended calls are probes.
TypeOK ==
    /\ br \in Breaker /\ br.renewed = FALSE /\ sinceOpen \in 0..MaxAge
    /\ stage \in [Call -> {"idle", "picked", "gated", "running", "served", "failed", "excused"}]
    /\ path \in [Call -> Path \cup {"none"}]
    /\ probe \in [Call -> {"none", "current", "stale"}]
    /\ \A c \in Call : probe[c] # "none" => stage[c] \in {"running", "served", "failed", "excused"}

Probes == {c \in Call : probe[c] = "current"}

\* A recovering provider gets no more probes at a time than halfOpenRequests:
\* those in flight and those still to be let in are together no more, through
\* lost leases, late outcomes and restarts.
ProbesBounded ==
    br.state = "HALF_OPEN" => Cardinality(Probes) + br.allowed <= HalfOpenRequests

\* A half-open breaker that has let its probes go has a lease that will run
\* out: a probe that never settles does not close the way for ever.
LeaseRuns == br.state = "HALF_OPEN" /\ br.allowed = 0 => br.lease # NoLease

\* The breaker lets traffic through only while its failures are below the
\* threshold, and is degraded when they are elevated, whatever the order of
\* the outcomes of concurrent calls.
CountMatchesState ==
    /\ br.state \in {"CLOSED", "DEGRADED"} => br.count < FailureThreshold
    /\ br.state = "CLOSED" => br.count <= Degradation
    /\ br.state = "DEGRADED" => br.count >= Degradation

\* A restart loses no state: what is saved is what the breaker is.
RowMatches == br.row = Saved(br)

\* The cooldowns there are.
Cooldowns == {ResetTimeout * Backoff(n) : n \in 0..MaxCycles}
                \cup {CooldownByKind[k] : k \in Kind}

\* Once open, the breaker executes nothing before the shortest cooldown has
\* passed, unless a success or an operator closed it: not after a restart and
\* not for a call that had passed the gate before.
NoCallInCooldown ==
    [][\A c \in Call : Start(c) /\ stage'[c] = "running" =>
          \E t \in Cooldowns : sinceOpen >= t]_vars

\* The breaker never refuses for ever, even if every call in flight hangs and
\* nobody but the next caller looks at it: as long as it is not fed failures
\* of calls that pass it by on a fixed connection, which do prolong an OPEN.
DirectFailure == \E c \in Call : path[c] = "direct" /\ path'[c] = "none" /\ br'.age = 0

LetsInAgain == <>[][~DirectFailure]_vars => []<>CanExecute(br)

\* A failed probe reopens the circuit, when its failure counts and its lease
\* has not passed to another.
FailedProbeReopens ==
    [][\A c \in Call :
          Account(c) /\ stage[c] = "failed" /\ probe[c] = "current"
             => br'.state = "OPEN"]_vars
=============================================================================
