# A model of the routing core of NiyatnaRoute

NiyatnaRoute is a gateway in TypeScript that routes the requests of language-model
clients to accounts of many providers. Its own logic, as opposed to the translation of
protocols and the web interface, decides *which account serves a request, how many
requests an account serves at once, and how the credentials of the accounts stay alive*.
That logic is concurrent in an unobtrusive way: one process and one event loop, but
every `await` lets other requests, timers and sweeps in, and part of the state is in a
database that survives restarts. This directory models it in TLA+, checks the models
with TLC and proves the most important results with TLAPS.

## The system and its parts

| Part | Source | State | Operations | Model |
|---|---|---|---|---|
| Account semaphore | `open-sse/services/accountSemaphore.ts` | gates by key (running, limit, queue, block, clean-up timer), the set of queued requests | acquire one or many gates, time-out, abort, release, mark blocked, unblock, reset | `AccountSemaphore` |
| Rate-limit semaphore | `open-sse/services/rateLimitSemaphore.ts` | a gate per model (running, limit, queue, cooldown), timers | acquire, time-out, release, mark rate-limited | `RateLimitSemaphore` |
| Exclusive leases | `src/lib/db/exclusiveConnectionLeases.ts`, migration 157 | the lease table | acquire, transition, renew, invalidate, release, reconcile, fence | `ExclusiveLease` |
| Lease-aware routing | `src/sse/services/exclusiveConnectionLeasePolicy.ts`, `src/sse/services/auth.ts`, `open-sse/handlers/chatCore.ts`, `src/app/api/v1/session-leases/route.ts` | where a request is, what it selected, the generation a client holds | select, preflight, claim, fence and dispatch, renew, release | `LeaseRouting` over `ExclusiveLease` |
| Refresh serializer | `open-sse/services/refreshSerializer.ts` | the tail promise of each rotation group | `serializeRefresh` | `RefreshLane` |
| Token refresh | `open-sse/services/tokenRefresh.ts` with `rotationMap.ts` and `casGuard.ts`; `src/lib/tokenHealthCheck.ts`, `chatCore.ts`, `usage/providerLimits/credentialRefresh.ts` | mutex per connection, rotation map, the row of the connection | `getAccessToken` and what its three kinds of callers do around it | `TokenRefresh` over `RefreshLane` |
| Circuit breaker | `src/shared/utils/circuitBreaker.ts`; its callers `src/sse/handlers/chat.ts` and `chatHelpers.ts`, `open-sse/services/accountFallback.ts`, `combo/executeTargetGates.ts` | state, failure count, probes and their generation, a row in the database | execute, canExecute, success, failure, reset, restore | `CircuitBreaker` |
| Adaptive admission | `open-sse/services/admission/` (`controller.ts`, `queue.ts`, `adaptation.ts`) | a fair cost queue, lanes by tenant, the active weight, a limit that adapts | acquire, expire, abort, release, observe pressure, tick, evict lanes, shut down | `AdaptiveAdmission` over `FairCostQueue` |
| Chat-body admission | `src/shared/middleware/chatBodyAdmission.ts`, `ingestByteAdmission.ts`, `src/app/api/v1/chat/completions/route.ts` | a count and a byte budget with parked waiters, the bytes queued, the headroom | arrive, reserve, cross the threshold, wait, retry, give up, structure, finish | `ChatAdmission` over `FairGate` |
| Skill execution fence | `src/lib/db/skillExecutionFence.ts`, `src/lib/skills/toolExecutionFence.ts`, migration 174 | the table of executions | claim, replay, poll, finalize | `ToolFence` |
| Server-owned tool loop | `src/lib/skills/serverOwnedToolLoop.ts`, `interception.ts` | the leg of a request, its follow-ups | call tools, resume, end | `ToolLoop` over `ToolFence` |
| Keyed mutex, request deduplication | `src/shared/utils/keyedMutex.ts`, `open-sse/services/requestDedup.ts` | promise tails, promises in flight | run; deduplicate | not modelled |
| Quota store, fair share | `src/lib/quota/` | consumption by key and dimension | reserve, settle, read | planned |
| Service supervisor, job registry | `src/lib/services/ServiceSupervisor.ts`, `src/lib/jobRegistry/` | child processes, timers | start, stop, restart, run | planned, low |
| Combo routing, account fallback | `open-sse/services/combo*`, `accountFallback.ts` | scores, cooldowns, lockouts | order targets, classify failures | the attempt loop is planned; the scoring is not |
| Translators, executors, web interface, CLI, MCP server | `open-sse/translator`, `open-sse/executors`, `src/app`, `src/bin`, `open-sse/mcp-server` | none of their own that the models need | | not modelled |

How they interact. A chat request selects an account (`auth.ts`), which for a managed
session consults and moves its lease; it then waits for its slots in the account
semaphore, passes the lease fence, and calls the provider inside the circuit breaker. A
401 answer makes it refresh the account's token, which competes with the periodic
health check and with the quota page for the same row and the same rotation group. A
round-robin combo holds a slot of the rate-limit semaphore around each attempt. Before all
that, a request passes two admissions: that of its body, while it is read, and the adaptive
one by its weight. When the answer calls tools the gateway owns, the tool loop executes them
behind a fence and calls the provider again. The
shared state is in maps of the process and in SQLite; there are no locks but the ones
modelled here.

What is hard about it: selection, claim and dispatch are separated by awaits of seconds;
a waiter stands in several queues at once; objects are dropped from maps while callbacks
still refer to them; a refresh token is good for one use, so a lost answer, a crash in the
settle gap or a late write of an old token costs the account; waiters are woken by whoever
leaves, and nobody else looks for room; a client that repeats a request must not have its tools
run again, whatever became of the first attempt; timers, sign-ins and resets arrive between any
two steps. `PROJECT.json` lists these hazards line by line with the
properties that cover them.

## The modules

One module per component; a module that composes two of them extends the lower one. A
module named `MC...` gives the constants small values for TLC and the bounds of the
run; a module named `...Proofs` holds the theorems. Definitions keep the names of the
source. An operator whose comment begins with *Faulty* is not part of the model: it is
the form that a plausible bug would give to the definition that follows it, and each
property has been seen to fail when the definition is replaced by it.

**Granularity.** JavaScript runs a turn of the event loop to its end, so an action is one
turn: a call up to its next real await, a timer callback, an abort listener, or a
transaction of SQLite, whose driver is synchronous. `drainQueues` in `AccountSemaphore`
is part of each action that calls it, as a recursive function whose argument counts its turns.

* `Queues` — arrays from which entries are spliced out: `Only` leaves those of a set in their
  order, `Without` takes one out, `Precedes` is the order.

* `AccountSemaphore` — `gates` is the map; its domain is the keys present. `queued` is
  the insertion-ordered set `queuedRequests`. `Acquire` is `acquireMany` with its three
  outcomes; `Release`, `TimeOut`, `Abort`, `MarkBlocked`, `Unblock`, `CleanupFires`,
  `Reset` and `ResetAll` are the functions of the file. A reset drops gates but not the release
  functions already handed out: `forgotten` remembers which holders those are, `robbed`
  the gates that such a release has decremented, and `stray` the clean-up callbacks that
  outlive their gate.
* `CalmSemaphore` — the same gates in calm operation: limits are fixed, nothing is blocked or
  reset, and callers are patient. A behaviour is calm throughout or is any behaviour of
  `AccountSemaphore`, so that one run checks both. Blocks and changing limits are left to the
  other behaviours, where a lapse may strand a waiter for a while (`LapseRepaired`).
* `RateLimitSemaphore` — one model's gate, with an identity, because the callbacks of
  cooldown timers keep the gate they were made for after it was deleted. The clock is explicit.
  Every caller brings its own limit and overwrites that of the gate, as `getGate` does.
* `ExclusiveLease` — the table `rows`, ids and clock. Each operation expires what is due
  and then does its work, at a timestamp that may trail the clock by `MaxLag`: it is read
  before the transaction has the write lock.
* `FencedLock` — what the table promises, without rows, clock or expiry: tenures in force, at
  most one per owner and per resource, each given with a number above all the owner had. The
  refinement is stated in `ExclusiveLease` (`Lock`): `held` is the active rows without
  their bookkeeping, `fenced` the generations given.
* `LeaseRouting` — requests as processes over the table: `Select` (the policy over any
  set of eligible connections, one of which is that of a forced connection: `Mismatch`),
  `NoneEligible` (the ordinary rules leave none, and the tenure is given up; `auth.ts` does so at
  a dozen places), `PreflightBlocks`, `CommitLease`, `Dispatch` (the fence), `Finish`;
  `RenewLease` and `ReleaseLease` are the client's. Without a preflight the selection claims
  the lease itself (`auth.ts:2178`): that is `Select` with `CommitLease` directly after it; the
  one caller that passes a lease defers the claim (`auth.ts:2285`).
* `RefreshLane` — the promise chain of a rotation group. `tail` is the map `groupTail`;
  `ahead` is the promise a call awaits, named by the call that resolves it.
* `TokenRefresh` — callers as processes: `Load` what the row says, `GetAccessToken` to
  share or start a refresh, `StartRefresh` in the lane (rotation map, row, or a POST) or, when
  the row cannot be read, `RereadFails`, which posts what the caller read; `Consume` (the
  endpoint, which is external) or `Unreached`, `Answer` or `LoseAnswer`, the gap, `LeaveLane`,
  `Return` (the persist in the mutex, and the promise of the sharers), `GuardFails` (the guard
  cannot read the row and lets the write through), `WriteBack`.
  Tokens are numbered by issue; `live` is the set upstream would still accept, `revoked` those
  it dropped unused when a used one was presented. Two histories name the tokens for whose reuse
  there is a reason: `lost`, whose successor never came to be written, and `misled`, which the
  rotation map handed out although they were used, or which were sent because the row could not
  be read. Around it `Login`, `AccessExpires`, `RotationLapses` (at any time, but in the order
  of the entries) and `Crash`.
* `CircuitBreaker` — one provider's breaker as the record `br`, with `row`, what the database
  has. Its methods are operators from breaker to breaker (`Refresh`, `OnSuccess`, `OnFailure`,
  `Transition`), and the actions are the turns of a call: `Pick` (a combo chooses the target),
  `Gate`, `Start` and `Resolve` or `Throw` (the two ends of `execute`), `Retry`,
  `NoCredentials`, and `Account`, for `execute` itself ignores what `handleChatCore` resolves
  to and the caller counts it a turn or more later. A call comes in one of four ways (`path`):
  by itself or from a combo, with or without a fixed connection, which passes the breaker by.
  Times are ages, capped where they stop to matter, and the number of a probe generation,
  which the code only compares, is the flag `probe` of each call.
* `FairCostQueue` — the queue as a record and its methods as operators: a bucket per tenant, a
  rotation with a cursor, heads that are passed over and then reserved (`Aged`, `Choice`).
  Time stamps are ranks, since only their order is compared.
* `AdaptiveAdmission` — the controller. Every method is one action with its dispatch at the
  end: `Books` is what the dispatch works on, `Keep` makes it the state. The loops of `dispatch`
  and `dispatchLanes` are functions of the number of turns taken (`ServeNext` under
  `QueueServed`, `LaneNext` under `LaneServed` and `LanesServed`), so that they can be reasoned
  about; `enqueue` dispatches twice, as in the code (`KeepEntered`). `lanes` and
  `laneOrder` are the virtual lanes; `overdue` the entries whose deadline has passed while their
  timer has not run. `NextLimit` is the end of a window, with any verdict on latency and load.
* `FairGate` — the capacity, rotation and wake-up that the two controllers of chat ingestion
  have in common; `ChatAdmission` has two of them, `slots` and `bytes`, and follows a request
  from its arrival (`ArriveLarge`, `ArriveSmall`) over its body and its structure to `Finish`.
  The outcomes of a turn that may wait, be admitted or be refused are sets of books
  (`SlotOutcomes`, `BudgetOutcomes`); a woken waiter retries in a turn of its own.
* `ToolFence` — the table `records`, the call each attempt is in, and two histories, `starts` and
  `done`. An attempt is a request of one identity, in whatever process; a crash ends it and
  leaves its row. What a row keeps of a value is the constant operator `Recorded`, for it is
  sanitized and cut.
* `ToolLoop` — the loop of each attempt over it: `leg` is where it is and which calls are left.

## The runs

| Run | Question | Bounds |
|---|---|---|
| `acct` | Do the queues of all gates stay one line, does nobody overtake, do gates count their holders and admit within their limits, with changing limits, blocks, resets? Is a waiter that a lapsed block or a raised limit left standing let in by the next turn that drains? In calm (fixed limits, no block, no reset), is every waiter that could be served served, and every idle gate reclaimed? | 3 requests, a global gate with 2 slots or 1 over an account gate with 1; in calm two accounts |
| `ratelimit` | Does the gate that deletes and re-creates itself under cooldowns count its holders and admit within limit and cooldown; has every waiter a holder or a timer to wait for, and is it served in the end, when limits settle and cooldowns end? | 4 requests (a waiter, a holder, and two that come and go), limits 1–2, queue 1 or unlimited, clock 1–3 (a second cooldown may be asked for, and outlast the timer of the first), timers due with the cooldown or any time later, 2 gate objects |
| `routing` | Is the lease exclusive both ways and a fenced lock, is a superseded generation dead, does a managed request reach a provider only in its live tenure? | 2 owners, keys and connections, 3 rows, 2 ticks; with requests (2 of them) or, with timestamps that lag by 1, the bare table |
| `token` | Is a used token presented again, or does the row keep one, with no reason but those named; does the map know the successor of what it answers with? Do refreshes of a group run one at a time, and is the lane reclaimed? With all faults | 2 callers of three kinds; on one connection, serialized or not, through 3 tokens, or two of two kinds on two accounts of one group with 2 tokens each (a variable of the instance, `scene`, says which) |
| `token_live` | Do refreshes end, failed ones included? | 2 callers, 2 serialized accounts of one group and an unserialized one, 2 tokens each, refreshes that do not reach the endpoint, no other faults |
| `breaker` | Are probes bounded, cooldowns kept and states saved, whatever the order of late outcomes, lost probes and restarts; does the breaker let somebody in again? | 2 calls in all four ways, threshold 3, one probe per lease, a cooldown of 2 ticks that doubles to 4, a hinted one of 3 |
| `admission` | Do queue, lanes and counters agree, is the limit respected, is nobody who fits left waiting, and does a head that was passed over come next and get served? | 4 requests of 3 tenants, weights 1 and 3, limit 2–4, 3 waiters, reserved after 2 skips, one lane at a time |
| `ingest` | Do the counters match what is held, does every exit give it back, and is nobody parked for a free slot? | 4 requests of 2 sessions, 2 slots, 1 of headroom, bytes for 2 small bodies, one body twice as large |
| `tool_loop` | Is a tool call executed at most once, are all told the same, does the loop end? | 2 attempts, 2 calls, 2 sets of arguments, 5 kinds of responses, 1 follow-up |

What the bounds were chosen for: overtaking and robbing take three requests (a holder, a waiter and
a newcomer), exclusivity two of each kind, a stale generation two tenures, hence three rows;
passing over takes a heavy head and two light ones that alternate, a rotation that shrinks under
its cursor three tenants; a lost wake-up a holder, a waiter of each session and a newcomer; a
double execution one repetition, and a second follow-up would repeat the first. A stale caller that
the rotation map misleads takes two rotations while it waits, hence three tokens; a POST beyond the
last token fails, as any POST may. The lanes do not look at tokens, nor at how a result is written:
where two accounts share one, two tokens are enough and chat requests are left out. A cooldown
timer is due 50 ms after its cooldown (`Slack`); with a slack of 0 it still runs at any time after,
for the clock may go ahead of it, so the window between the two is covered. The safety properties
of these runs are proved without bounds. The liveness properties are not, and the run says no more
than what it says of its instance: `WaiterServed` of the rate-limit semaphore, for one, has four
requests because with three the newcomers that starve a waiter are too few (see below), and its
clock ends, so that the condition that cooldowns end is there for the reader. In `token_live` the
entries of the rotation map also lapse in the end, and a caller rests when the tokens run out.
Symmetry is used only in runs without liveness.

Three runs are expected to fail: each shows a disagreement between the code and what a
comment or document of the repository says of it. The findings in `PROJECT.json` quote both.

* `token_nested` — the quota page refreshes inside `serializeRefresh`, and for Codex and
  other providers the refresh calls `serializeRefresh` for the same group: it waits for itself,
  and with it every later refresh of the group.
* `token_guard` — the guard skips the persist over a fresher row, and chatCore then takes
  the branch for executors that never persist and writes the row after all.
* `breaker_probe` — the failure of a combo's probe is dropped: `recordProviderFailure` asks
  the breaker whether it can execute, and it cannot while its only probe is out. The circuit
  stays half open until the lease of the probe runs out, and its cooldown never grows.

More things the models make visible, and the properties therefore leave room for:

* After a reset of the account semaphore, the release function of an old holder gives back a
  slot of the new gate: `AdmitsWithRoom` and `SlotsAccounted` excuse exactly those gates
  (`robbed`), and `NoLeakedSlot` says the error is never in the other direction.
* A block of the account semaphore lapses without a timer, and a caller that is then rejected may
  have raised a limit: both can leave a waiter that could be admitted until somebody queues,
  gives up or releases, anywhere (`LapseRepaired`).
* When callers of one model carry different limits and alternate, a waiter of the rate-limit
  semaphore starves: one with the limit 1 and a full queue is refused but has lowered the limit,
  so that the next release drains nobody; one with the limit 2 raises it and takes the room by the
  fast path before the next release. Cooldowns that are reported for ever do the same.
  `WaiterServed` is therefore about futures in which the limit settles (`LimitSettles`) and
  no more cooldowns are reported (`CooldownsEnd`). Without the first condition TLC finds that
  starvation with four requests.
* When a cooldown has passed, a newcomer may come before its timer and be admitted past the
  waiters. It also clears the cooldown, so that the timer finds nothing to do; from then on it is
  the newcomer's release that serves the waiters (`WaiterAwaited`).
* The last release deletes the gate of a model, and its cooldown with it: in the round-robin
  combo, which marks the gate before it releases its slot, the next request passes at once,
  although the comment on `markRateLimited` (`rateLimitSemaphore.ts:181-183`) says that new
  acquisitions are blocked until the cooldown expires. `AdmitsWhenFree` is about the cooldowns of
  the present gate (`cooling`).
* Two rotations within a minute. The rotation map answers a caller with an old snapshot with the
  token of the *first* rotation, which the second has used up; `lookupRotation` follows one link,
  though the map has the next one too (`MapKnowsNext`). A health check writes that token to the
  row, and when the entries have lapsed the next refresh presents it: a reuse without any fault.
  `ReuseHasCause` and `RowTokenLive` name such tokens (`misled`), and no others.
* When the row cannot be read before a refresh, the refresh goes on with the token the caller
  read, which may be used up (`tokenRefresh.ts:679`); and when the guard cannot read it, the
  result is written whatever is there (`casGuard.ts:70`). Both are deliberate and logged;
  the first is also among the reasons for a reuse that the two properties name.
* A request without a lease that selected its connection before it was leased is dispatched on
  it afterwards: the fence asks nothing of it.
* The breaker counts its own refusals of single requests as failures of the provider, and
  chat.ts counts late outcomes without asking for their generation. Failures of calls on a fixed
  connection prolong an open circuit, so `LetsInAgain` is about futures without them.
* A failed write of the row inside the mutex is only logged. The health check then writes again,
  but chatCore takes its callback for done, and the successor survives for a minute in the
  rotation map alone. `RowTokenLive` and `ReuseHasCause` count that as a loss.
* The fair cost queue starves a light head too: a tenant whose queue was empty is put at the end
  of `order` while the cursor is still before it, so tenants that come back all the time extend
  the rotation before it returns to the waiting one (`queue.ts:60-72`, against the comments at
  lines 2 and 7-8). Only a *reserved* head is sure to be served (`ReservedServed`). And a reserved
  head that a falling limit no longer fits blocks the whole queue until its deadline; the
  property is about limits that end where every request fits.
* `dispatchLanes` admits one entry of each lane per call, though the comment above it says as
  many as capacity allows; `NoFittingHead` therefore demands of lanes only that one is not held
  back while nothing is active.
* A release of bytes wakes one waiter, however much room it makes; others whose bytes would fit
  stay parked until the next release (`ingestByteAdmission.ts:167-179`). `NoIdleBudget` demands
  only that nobody waits while no bytes are in use.
* When a tool has run but the success cannot be recorded, it is recorded as an error, the first
  caller included, and nobody is given its value; a crash in between leaves the row running for
  ever, and every repetition is refused. Both are the price of `AtMostOnce`.

## Fairness

Liveness is stated where the code's scheduling gives it. The event loop runs every due
callback, so timers and continuations are weakly fair. A holder releases: the callers do so
in `finally` blocks or when the response has been read. A POST to the token endpoint
settles: the calls have time-outs, and a failure is as good as an answer here. When the answer is
in, the event loop comes to it although other refreshes keep it busy with turns of their own:
that is strong fairness of `Answer`, which a turn that is not yet over disables for a while. Of the circuit
breaker only the clock is fair: a call may hang for ever. In `admission` every lease is
released again and again, which is what weak fairness of its release comes to; deadlines are not
relied on. In `tool_loop` the continuations of each attempt are fair, for handlers and providers
settle and polling has a deadline; no attempt needs to be repeated and no claim to lapse. Nothing
else is fair: no request needs to come, no client to abort, no time-out to help, no clean-up
timer to fire. Deadlock is checked except in `token_nested`, where the system stops, which is the
point, and in `admission` and `ingest`, which may rest after a shutdown and when all requests are
done.

## The proofs

A module of proofs extends the module it is about; where one component runs over another, one
module holds the proofs of both. `FenceProofs` holds those of the two tables that fence out whoever
comes late, leases and tool executions, which share no state. What is proved of queues is in
`QueueLemmas`.

`AccountSemaphoreProofs` proves for any finite set of callers, any keys, limits and policies:
`QueuesAlwaysAgree`, `SlotsAlwaysAccounted`, `NeverLeaksSlot`, `AlwaysAdmitsWithRoom`,
`NeverOvertakes` and `AlwaysRepaired`, and of calm operation `CalmServesWaiters` and `CalmReclaimsGates`. None of the
properties is inductive. The invariant (`SemaphoreInv`) says more of the queues than `QueuesAgree`:
the queue of each gate *is* the line of all waiters with only those left in it that need the gate
(`Lines`); two restrictions of one line can never disagree. Its other half is the books (`Counts`):
a gate's running count is the number of its holders, and not above it where a release that outlived
a reset took a slot back. The heart is what draining does. One turn admits the first of the line
that can acquire all its gates (`AdmitFirst`, lemma `OneTurn`), and by induction over the turns
(`Drained`) the result is `Served`: what is left is the line without the admitted, every gate
counts them and has room, and nobody was admitted past a waiter with whom it shares a gate; and
`Stuck`: nobody who is left could be admitted, because there are as many turns as waiters. The
actions are then compositions of few steps on values (a caller joins, leaves or releases; gates are
made, dropped, scheduled, forgotten), each with its lemma. In calm operation the invariant is kept
together with `Calm`: limits are the configured ones, no gate is blocked, and every idle gate has
its timer armed.

`ChatAdmissionProofs` proves for any finite set of requests, any sessions, sizes and limits:
`BooksAlwaysMatch`, `NeverLeaks`, `NeverIdleSlot` and `NeverIdleBudget`. The invariant
(`BooksRight`) says that each gate is a `Parking` of exactly the requests that wait at its stage:
each once, in the queue of its session, the rotation naming the sessions that have waiters;
that the counters are the numbers of holders and the sums of what they hold (`Total`, which counts
them unit by unit); and that each request holds what its stage says (`Proper`).
That nobody is parked for a free slot needs more than `NoIdleSlot`: while someone is parked, the
slots in use *and the waiters already called* together are as many as there are slots. A
woken waiter therefore has its slot to lose to a newcomer but not its wake-up. For bytes, where a
release calls one waiter however much it frees, it is that somebody holds bytes or has been
called. A turn passes through states in which this fails: between the moment a waiter leaves its
queue and the moment it is parked again or admitted, the books are those of the *other* requests
(`InHand`), and a slot or a call more is due. The operators of `FairGate`, which all actions are
built from, are shown to lead from such books to such books.

`AdaptiveAdmissionProofs` proves for any finite set of requests, any tenants, weights, limits and
caps `BooksAlwaysAgree`, `NeverAFittingHead`, `StaysWithinLimit` and `ReservedGoesFirst`: all that
the run `admission` checks but the liveness property. The invariant (`AdmissionInv`) has three
layers.

* Of a queue (`Holds`): it has exactly one entry for each request of a set W, of its weight and in
  the bucket of its tenant, the rotation names the tenants with a bucket once with the cursor
  inside, and the two counters are the number and the weight of W. `Enqueue` adds one request to W;
  `TakeAt` and `RemoveId` take one away, from the middle too, with its bucket when that is left
  empty and the cursor moved (`LessHolds`); `SkipBefore` and `Reranked` change no entry's identity
  nor the order of the stamps, so they leave who comes next as it was (`Reranking`).
* Of the books (`Right`): the sets of the queue, of the lanes and of the active requests are apart,
  and the counter of active weight is the sum. Sums are counted unit by unit (`TotalCost`).
* Of the end of an operation (`Rested`): nobody who fits is left waiting. It is `NoFittingHead`, and
  no operation keeps it by itself: a removal, a release or a raised limit breaks it, and what
  follows has to mend it. The loop of `dispatch` has as many turns as there are entries and each
  turn takes one or finds itself blocked, so at the end it is blocked or the queue is empty
  (`QueueLoop`); the same holds of one lane (`LaneLoop`). Over the lanes, while nothing is active
  all lanes seen so far stay blocked, since no weight was added (`LanesLoop`).

The two action properties follow from what a dispatch may do (`Onward`): it admits within the
limit; and whoever was reserved when it began is gone or still first, and in the second case only
entries that were themselves reserved and came no later were admitted (`Yields`). The relation is
transitive (`OnwardOn`), which carries it over all turns, lanes and both dispatches of an
operation. That the dispatch begins with those who waited, and a newcomer who is not reserved, is
`Follows`. After a shutdown nobody waits any more (`Deserted`), so that the early return of
`dispatch` leaves nothing behind. What time-outs, evictions and deadlines do in between is any of
these shapes. The proof assumes of the two limit functions only that a critical one lies between
zero and its argument and the other between that and the argument.

Of the leases `FenceProofs` proves, first of the table alone, for any sets of owners, keys and
connections, any TTLs and any lag: `Exclusive` and `Fenced` (checked in the run
`routing`), and `EndedRowsFinal`, `TypeCorrect`, `LatestOnly` and `KeyBound`. Exclusivity is not inductive by itself:
an acquisition takes its generation from the last row of its owner, so one needs that only the last
row of an owner can be active (`ActiveIsLatest`), and that generations grow with the ids
(`StaleGenerationDead`). The conjunction `Inv` of the five, with `ReleasedIsLast` (no later row
continues a tenure that was released), is inductive. Each operation has one of two shapes, rows
that end or are extended (`Settles`) or such a step and one insertion; the invariant is proved once
per shape and each operation shown to have one. The same two shapes are steps of `FencedLock` under
the mapping, which gives `TableIsLock`: the table implements the abstract lock. An insertion is a
grant when the generation is new and a move when the row it replaces ends in the same step; that
the number is above all earlier ones is where `ActiveIsLatest` is needed again.

It then carries this over to the requests that run over the table: each of their
steps is one operation of the table or leaves it alone, so `Inv` and the step of the lock hold of
them too (`RoutingUsesLock`). With what a request carries from selection to claim
(`CarriesContext`) and the row of its owner on its connection (`HasRow`) this gives
`TogetherOnlyAfterAnEnd` and `DispatchedInTenure`: the fence reads the table in the turn that
dispatches, and a fence that answers VALID has found the owner's active row, which is its last.

`TokenRefreshProofs` proves, first of the lane alone, for any calls and groups `LaneTypeCorrect`,
`LaneExclusive`, `LaneCollected` and `LaneInOrder`. A promise chain only links a call to the one
before; that the links form a queue needs the order of arrival, the history variable `before`.
`LaneInv` says that it is a strict order on each lane (`Ordered`), that `ahead` is the immediate
predecessor (`Linked`) and `tail` the last (`Ended`). The slot with no predecessor is then unique,
and only that one may be at work.

Of the refreshes in these lanes it proves `OnePostAtATime`, for any callers, accounts and groups,
with the outer lanes of the quota page, crashes, lost answers and failed writes. Whatever a caller
does is a step of one of its two slots in the lanes (`SlotStep`), so `LaneInv` is kept; the rest is
that a caller that posts has its inner slot at work in the lane of its group (`Docked`). For that,
the connection of a caller must not change under it, and tokens must be of the account they are
used for (`Held`, `Minted`).

Of the tokens themselves it proves `RowTokenLive`, `ReuseHasCause` and `MapKnowsNext`, of
`TokenSpec` itself: any number of callers, tokens, rotations, sign-ins and lapses, and every fault.
The argument has three parts.
`TurnInv` is about turns: only the owner of the mutex refreshes
a connection (`MutexHeld`), slots are in a lane only for a refresh (`Berthed`), and none begins
before what the last one got is in the row or lost (`Unserialized`, `Undisturbed`). It rests on
`Quiet`: after a settled refresh, the continuations run before the event loop turns to the next
answer or request. By the way it shows that the refresh the quota page nests in its own lane
never reaches the endpoint (`Nested`, `NestedNeverPosts`). `ValueInv` is about tokens: call one
good if it is not used up, or its successor is known to be lost, or somebody was misled to it. What
a caller sends and what it has got is good (`HoldsGood`), and so is
the row unless a caller is about to write a good one over it (`RowGood`). What the rotation map
answers with is not always good; when it is not, the answer itself makes it an entry of `misled`. A
used token can then be presented only for one of the causes named. `Used` leaves out the tokens
that were `revoked`: a reuse makes the rest of the family worthless, but not used. `MapInv` is about
the map: its links lead to later tokens, and of every used token it leads to, the next
link is there, or the answer is lost or just being taken (`Told`), because entries lapse from the
oldest and an answer under way names a token nobody has used (`Fresh`). It says
where the fault of the double rotation is, and that following the chain would mend it.

`RateLimitProofs` proves `BooksOfGate`, `LetInWhenFree`, `ServedInOrder` and `SomebodyAwaited`
for any callers, limits, queue sizes and cooldowns. The inductive invariant says more of the queue than the property:
nobody stands in it twice (`EachOnce`), so its length is the number of waiters and the first n that
`drainQueue` takes out are n new holders (`Served`). About cooldowns it says that the end last
asked of the present gate is either what the gate still has or over (`CooldownKnown`): a callback
of any gate object clears a cooldown only when it has passed. For the last theorem `AwaitInv`
adds that a gate's cooldown has a timer that comes no earlier than its end (`Lifted`), and that a
gate with waiters and no holder still has a cooldown: nobody but a timer or a newcomer, who then
holds a slot, takes it away.

Of tool executions `FenceProofs` proves `ExecutedAtMostOnce` and `ValuesAlwaysAgree` for any number
of attempts, keys, arguments and responses, and `LoopUsesFence`: the loop implements the fence's
own specification, so that what holds of the fence holds of the loop. That a key is started
once rests on its row, which is never deleted (`StartedByRow`); that a value is the right one on
who may write the row: an attempt at work owns a running row whose handler has not returned
(`WorkerOwns`), a handler returns once per key (`ReturnsOnce`) and a success row records what it
returned (`SuccessRecorded`). The loop adds that an attempt is in a fenced call only while its
leg has calls to make (`LegInv`); without it the calls left would not stay a sequence.

`CircuitBreakerProofs` proves the safety properties of `CircuitBreaker` for any number of
calls and any thresholds, timeouts and number of probes, and that a half-open breaker without
probes to give has a lease that will run out (`LeaseRuns`): `TypeCorrect`, `ProbesStayBounded`,
`LeaseAlwaysRuns`, `CountFitsState`, `RowIsCurrent` and `CooldownIsKept`. The methods are
operators, so the proof first says what can come of a breaker by any of them, composed in any
order (`Reached`: its count, lease and row are right, and it changes state or gives probes again
only in a new generation), and then that an action which makes `br` such a breaker keeps the
invariant. The cooldown needs one strengthening, `Cooled`: while the breaker is open the opening
is at least as old as the last failure, and otherwise a cooldown has passed since; without it a
half-open breaker could have opened a moment ago. That the bound of the probes is inductive as it
stands rests on the types: a call is a probe only once it runs.

The assumptions are the named ones of the modules: `SemaphoreAssumption`, `CalmAssumption`,
`ChatAdmissionAssumption`, `LeaseAssumption`, `RoutingAssumption`, `LaneAssumption`,
`TokenAssumption`, `RateLimitAssumption`, `BreakerAssumption`, `SkipsAssumption`,
`AdmissionAssumption`, `FenceAssumption` and `LoopAssumption`. Besides types they say that the
requests of the two semaphores and of the two admissions and the calls of the breaker are finite
sets, which is what makes their
numbers numbers: a process has seen finitely many requests.

Induction over data. The library's induction theorems take an operator as a parameter, which the
provers cannot instantiate. `QueueLemmas` states the principle for *sets*
instead: `Induction` for a set of numbers and `SeqInduction` for a set of sequences follow from
the order of the numbers being well founded, and `Recursion` gives the recursive function that
iterates a step. With them `OnlySteps` unfolds `Only`, and what `Only`, `Without` and `DrainQueues`
do is proved for queues of any length. It works for recursive
functions, not for `RECURSIVE` operators.

Every safety invariant and every action property of the runs that pass is proved for all values of
the constants, of the specification without bounds. A few simpler ones are proved only and have no
run of their own: that ended leases stay as they ended (`EndedIsFinal`), that waiters of the
rate-limit semaphore are served in order (`WaitersInOrder`), that refreshes of a group begin in
order (`InOrderOfArrival`). Out of the prover's reach, and therefore only model-checked, are
liveness and everything about ENABLED (`WaiterServed`, `RefreshEnds`, `LetsInAgain`,
`ReservedServed`, `LoopEnds`).

## The plan

1. Done: the two semaphores, leases, lease routing and the fenced lock they implement, the lane
   and the token refresh with their faults, the circuit breaker, both admissions, the tool fence
   and its loop; proofs for the account semaphore, the lease table, its refinement and its
   requests, the lane and the token refresh, the rate-limit semaphore, the breaker, both
   admissions, and the fence and its loop.
2. Models still worth writing: the merge of `updateProviderConnection` between two writers, the
   quota store (reserve and settle), the attempt loop of combos over breaker and semaphore, the
   service supervisor.

## What is not modelled, and why

The retries and the breaker of `refreshWithRetry`, deactivation after an unrecoverable
refresh error, deduplication by token hash for callers without a connection, and the
sub-tokens of GitHub Copilot are left out of `TokenRefresh`. `updateProviderConnection` is one
step, although it reads, awaits and merges; a lost update between two fields of a row is
therefore not covered. Of the circuit breaker the registry (eviction of idle breakers), options
that change at run time and a combo's target time-out, which answers while the call still runs,
are left out. Of the adaptive admission the modes off and shadow, which admit everything, the
configuration update that only tests call, and the measurement of latency are left out; of the
chat-body admission how the pressure of the heap is measured, so that its refusals may come at
any time, and the end of a wait between a wake-up and the retry that follows it in the same
run of the microtask queue. The fence is modelled for requests that carry an identity; without
one tools are called as they come. The streaming form of the tool loop is not modelled. The map
of promises of the fence is left out because a poll never finds an entry of it settled.

The keyed mutex has the form of `RefreshLane`, and request deduplication is one map without
waiting of its own; neither was worth a run. Translators and executors transform messages and
hold no shared state of their own. The scoring of combos is arithmetic over measured data. Redis
and Bottleneck are external. Most of the repository by size is of these kinds: translation,
provider executors, and the web interface with its pages and routes; none of it has
control that a model of useful size would say something about.
