---------------------------- MODULE ChatAdmission ----------------------------
(***************************************************************************)
(* The admission of chat requests while their bodies are read:             *)
(* admitChatRequest and admitChatStructure over ChatAdmissionController    *)
(* (src/shared/middleware/chatBodyAdmission.ts) and its byte budget        *)
(* (ingestByteAdmission.ts), as the chat completions route calls them.  A  *)
(* heavy request takes a slot and then bytes; it waits for each in turn.   *)
(*                                                                         *)
(* An action is a turn of the event loop up to the next await.  A waiter   *)
(* that was woken tries again in a turn of its own, before any timer or    *)
(* disconnection, and finds what others have left of the room.             *)
(***************************************************************************)
EXTENDS FairGate, FiniteSets

CONSTANTS
    Request,
    SessionOf,    \* the scheduling key of each request
    SizeOf,       \* what is asked for the body, in units of CHAT_LARGE_BODY_BYTES
    MaxHeavy,     \* maxHeavyInFlight
    Headroom,     \* healthyHeadroom
    MaxBytes,     \* maxInflightBytes
    MaxQueued     \* maxQueuedBytes

ASSUME ChatAdmissionAssumption ==
    /\ IsFiniteSet(Request)
    /\ SessionOf \in [Request -> Session] /\ SizeOf \in [Request -> Nat \ {0}]
    /\ MaxHeavy \in Nat \ {0} /\ MaxBytes \in Nat \ {0}
    /\ Headroom \in Nat /\ MaxQueued \in Nat

VARIABLES
    slots,    \* the gate of the count
    bytes,    \* the gate of the byte budget
    queued,   \* the counter of the bytes held by those parked for a slot
    healthy,  \* leases out of the headroom
    stage,    \* where each request is
    parsed,   \* the requests whose body has been read: they ask for a lease
              \* because of their structure
    holds     \* what each request has reserved

admissionVars == <<slots, bytes, queued, healthy, stage, parsed, holds>>

Waits == {"slot", "slotWoken", "budget", "bytes", "bytesWoken"}
Stages == {"new", "reading", "parsed", "handled", "done"} \cup Waits

Nothing == [slot |-> FALSE, headroom |-> FALSE, bytes |-> 0]

Init ==
    /\ slots = IdleGate /\ bytes = IdleGate
    /\ queued = 0 /\ healthy = 0
    /\ stage = [r \in Request |-> "new"] /\ parsed = {}
    /\ holds = [r \in Request |-> Nothing]

-----------------------------------------------------------------------------
(* The books of a turn, and what the calls in it do to them.               *)

Books == [slots |-> slots, bytes |-> bytes, queued |-> queued, healthy |-> healthy,
          stage |-> stage, holds |-> holds]

Keep(b) ==
    /\ slots' = b.slots /\ bytes' = b.bytes /\ queued' = b.queued
    /\ healthy' = b.healthy /\ stage' = b.stage /\ holds' = b.holds
    /\ UNCHANGED parsed

At(b, r, s) == [b EXCEPT !.stage[r] = s]

\* What r asks for: a structural wait weighs as much as the smallest large body.
Charge(r) == IF r \in parsed THEN 1 ELSE SizeOf[r]

\* Where a request goes that has all it asked for.
Admitted(r) == IF r \in parsed THEN "handled" ELSE "reading"

\* tryAcquireHeavy, tryAcquireHealthyHeadroom and tryAcquire of the bytes.
TakeSlot(b, r) == [b EXCEPT !.slots = Taken(@, 1), !.holds[r].slot = TRUE]

TakeHeadroom(b, r) == [b EXCEPT !.healthy = @ + 1, !.holds[r].headroom = TRUE]

TakeBytes(b, r, n) == [b EXCEPT !.bytes = Taken(@, n), !.holds[r].bytes = n]

\* Faulty: nobody is woken.
SlotFreedQuietly(b) == [b EXCEPT !.slots = Freed(@, 1)]

\* The release of a slot: dispatchFair wakes a waiter, if there is one.
SlotFreed(b) ==
    LET g == Freed(b.slots, 1)
        woken == Called(g)
    IN  [b EXCEPT !.slots = Dispatched(g),
                  !.stage = [x \in Request |-> IF x \in woken THEN "slotWoken" ELSE @[x]]]

\* Faulty: nobody is woken.
BytesFreedQuietly(b, n) == [b EXCEPT !.bytes = Freed(@, n)]

\* The same for bytes: one waiter is woken, however much room there is.
BytesFreed(b, n) ==
    LET g == Freed(b.bytes, n)
        woken == Called(g)
    IN  [b EXCEPT !.bytes = Dispatched(g),
                  !.stage = [x \in Request |-> IF x \in woken THEN "bytesWoken" ELSE @[x]]]

\* composeAdmissionLease: the leases are released in the order they were taken.
Released(b, r) ==
    LET h == b.holds[r]
        b1 == [b EXCEPT !.holds[r] = Nothing]
        b2 == IF h.slot THEN SlotFreed(b1)
              ELSE IF h.headroom THEN [b1 EXCEPT !.healthy = @ - 1] ELSE b1
    IN  IF h.bytes > 0 THEN BytesFreed(b2, h.bytes) ELSE b2

\* Faulty: what was reserved before the refusal is kept.
RefusedHolding(b, r) == At(b, r, "done")

\* The request is answered with an error and gives back what it had.
Refused(b, r) == Released(At(b, r, "done"), r)

\* A turn of acquireWithin: the bytes are taken, or it parks while its deadline
\* has not passed, or it is refused.
BudgetOutcomes(b, r) ==
    IF Fits(b.bytes, MaxBytes, Charge(r))
    THEN {At(TakeBytes(b, r, Charge(r)), r, Admitted(r))}
    ELSE {Refused(b, r)} \cup
         IF Charge(r) <= MaxBytes
         THEN {[At(b, r, "bytes") EXCEPT !.bytes = Parked(@, SessionOf[r], r)]}
         ELSE {}

\* A turn of acquireHeavyWithin; whoever has a slot goes on in a later turn.
SlotOutcomes(b, r) ==
    IF Fits(b.slots, MaxHeavy, 1)
    THEN {At(TakeSlot(b, r), r, "budget")}
    ELSE {Refused(b, r)} \cup
         IF b.queued + Charge(r) <= MaxQueued
         THEN {[At(b, r, "slot") EXCEPT
                    !.slots = Parked(@, SessionOf[r], r),
                    !.queued = @ + Charge(r)]}
         ELSE {}

\* reserve of admitChatRequest: a slot, or the headroom while the heap is
\* healthy, or a wait for a slot; then the bytes.
ReserveOutcomes(b, r) ==
    IF Fits(b.slots, MaxHeavy, 1) THEN BudgetOutcomes(TakeSlot(b, r), r)
    ELSE SlotOutcomes(b, r) \cup
         IF b.healthy < Headroom THEN BudgetOutcomes(TakeHeadroom(b, r), r) ELSE {}

\* admitChatStructure for a heavy request without a lease.  A slot is given
\* back when the bytes are not there, and then the wait begins.
StructureOutcomes(b, r) ==
    LET slot == Fits(b.slots, MaxHeavy, 1)
        b1 == IF slot THEN SlotFreed(TakeSlot(b, r)) ELSE b
        b2 == [b1 EXCEPT !.holds[r] = Nothing]
    IN  IF slot /\ Fits(b.bytes, MaxBytes, 1)
        THEN {At(TakeBytes(TakeSlot(b, r), r, 1), r, "handled")}
        ELSE SlotOutcomes(b2, r) \cup
             IF b2.healthy < Headroom THEN {At(TakeHeadroom(b2, r), r, "handled")} ELSE {}

-----------------------------------------------------------------------------
(* The request.                                                            *)

HasLease(r) == holds[r] # Nothing

\* Refused at the door: critical pressure, a declared length over the hard
\* limit or over the budget.
Turned(r) ==
    /\ stage[r] = "new"
    /\ stage' = [stage EXCEPT ![r] = "done"]
    /\ UNCHANGED <<slots, bytes, queued, healthy, parsed, holds>>

\* A declared large body is reserved for before any of it is read.
ArriveLarge(r) ==
    /\ stage[r] = "new" /\ SizeOf[r] <= MaxBytes
    /\ \E b \in ReserveOutcomes(Books, r) : Keep(b)

\* Otherwise the body is read; an internal call is never charged.
ArriveSmall(r) ==
    /\ stage[r] = "new"
    /\ stage' \in {[stage EXCEPT ![r] = s] : s \in {"reading", "handled"}}
    /\ UNCHANGED <<slots, bytes, queued, healthy, parsed, holds>>

\* The body read so far has become large.
BodyCrosses(r) ==
    /\ stage[r] = "reading" /\ ~HasLease(r) /\ SizeOf[r] <= MaxBytes
    /\ \E b \in ReserveOutcomes(Books, r) : Keep(b)

\* The body is over the hard limit or the budget, or the stream fails.
BodyRefused(r) ==
    /\ stage[r] = "reading"
    /\ Keep(Refused(Books, r))

BodyEnds(r) ==
    /\ stage[r] = "reading"
    /\ stage' = [stage EXCEPT ![r] = "parsed"]
    /\ parsed' = parsed \cup {r}
    /\ UNCHANGED <<slots, bytes, queued, healthy, holds>>

\* admitChatStructure: too long a history is refused; with a lease or a light
\* structure the request goes on, else it needs a lease.
Structured(r) ==
    /\ stage[r] = "parsed"
    /\ \/ Keep(Refused(Books, r))
       \/ Keep(At(Books, r, "handled"))
       \/ ~HasLease(r) /\ \E b \in StructureOutcomes(Books, r) : Keep(b)

\* The response is complete, fails or is cancelled.
Finish(r) ==
    /\ stage[r] = "handled"
    /\ Keep(Refused(Books, r))

-----------------------------------------------------------------------------
(* Waiting.                                                                *)

\* The deadline passes or the client goes away while the request is parked.
GiveUpSlot(r) ==
    /\ stage[r] = "slot"
    /\ Keep(At([Books EXCEPT !.slots = Unparked(@, SessionOf[r], r),
                             !.queued = @ - Charge(r)], r, "done"))

GiveUpBytes(r) ==
    /\ stage[r] = "bytes"
    /\ Keep(Refused([Books EXCEPT !.bytes = Unparked(@, SessionOf[r], r)], r))

\* The charge for the wait is given back before the slot is tried.
RetrySlot(r) ==
    /\ stage[r] = "slotWoken"
    /\ \E b \in SlotOutcomes([Books EXCEPT !.queued = @ - Charge(r)], r) : Keep(b)

AskBudget(r) ==
    /\ stage[r] = "budget"
    /\ \E b \in BudgetOutcomes(Books, r) : Keep(b)

RetryBytes(r) ==
    /\ stage[r] = "bytesWoken"
    /\ \E b \in BudgetOutcomes(Books, r) : Keep(b)

Next ==
    \E r \in Request :
        \/ Turned(r) \/ ArriveLarge(r) \/ ArriveSmall(r)
        \/ BodyCrosses(r) \/ BodyRefused(r) \/ BodyEnds(r) \/ Structured(r) \/ Finish(r)
        \/ GiveUpSlot(r) \/ GiveUpBytes(r) \/ RetrySlot(r) \/ AskBudget(r) \/ RetryBytes(r)

Spec == Init /\ [][Next]_admissionVars

-----------------------------------------------------------------------------
(* Properties.                                                             *)

\* The sum of the amounts of all requests, unit by unit.
Total(amount) == Cardinality(UNION {{r} \X (1..amount[r]) : r \in Request})

In(stages) == {r \in Request : stage[r] \in stages}

\* Every counter agrees with the leases and the waits that are there and is
\* within its limit; the rotations of both gates are in order, and a request
\* is parked exactly where it waits.
BooksMatch ==
    /\ stage \in [Request -> Stages]
    /\ Tidy(slots) /\ Waiters(slots) = In({"slot"})
    /\ Tidy(bytes) /\ Waiters(bytes) = In({"bytes"})
    /\ slots.used = Cardinality({r \in Request : holds[r].slot})
    /\ healthy = Cardinality({r \in Request : holds[r].headroom})
    /\ bytes.used = Total([r \in Request |-> holds[r].bytes])
    /\ queued = Total([r \in Request |->
                        IF stage[r] \in {"slot", "slotWoken"} THEN Charge(r) ELSE 0])
    /\ slots.used <= MaxHeavy /\ healthy <= Headroom
    /\ bytes.used <= MaxBytes /\ queued <= MaxQueued

\* What a request has reserved fits the place it is at: nothing once it has
\* been answered or while it waits for a slot, a slot or headroom alone while
\* it waits for bytes, and never both of them.
NothingLeaks ==
    \A r \in Request :
        /\ ~(holds[r].slot /\ holds[r].headroom)
        /\ stage[r] \in {"new", "slot", "slotWoken", "done"} => ~HasLease(r)
        /\ stage[r] \in {"budget", "bytes", "bytesWoken"} =>
              /\ holds[r].bytes = 0
              /\ holds[r].slot \/ holds[r].headroom

\* Nobody is parked for a slot that is free, unless somebody has been called
\* to it.
NoIdleSlot ==
    slots.used < MaxHeavy /\ In({"slotWoken"}) = {} => Waiters(slots) = {}

\* Nobody is parked for bytes while none are in use and nobody has been called.
NoIdleBudget ==
    bytes.used = 0 /\ In({"bytesWoken"}) = {} => Waiters(bytes) = {}
=============================================================================
