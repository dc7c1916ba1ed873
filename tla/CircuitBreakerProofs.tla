------------------------- MODULE CircuitBreakerProofs -------------------------
(***************************************************************************)
(* The safety of CircuitBreaker for every number of calls and every value  *)
(* of the thresholds, timeouts and bounds.                                 *)
(*                                                                         *)
(* The methods of the breaker are operators on breakers, so the proof has  *)
(* two layers: what a breaker reached from br by any of them satisfies     *)
(* (Reached), and what an action that makes br such a breaker preserves.   *)
(***************************************************************************)
EXTENDS CircuitBreaker, FiniteSetTheorems, TLAPS

\* What the properties say of a breaker by itself.
Sound(b) ==
    /\ b.state = "HALF_OPEN" /\ b.allowed = 0 => b.lease # NoLease
    /\ b.state \in {"CLOSED", "DEGRADED"} => b.count < FailureThreshold
    /\ b.state = "CLOSED" => b.count <= Degradation
    /\ b.state = "DEGRADED" => b.count >= Degradation
    /\ b.row = Saved(b)

\* The opening is at least as long ago as the last failure, and a cooldown
\* has passed since when the breaker is not open.
Cooled ==
    IF br.state = "OPEN" THEN sinceOpen >= br.age
    ELSE \E t \in Cooldowns : sinceOpen >= t

Inv == TypeOK /\ Sound(br) /\ ProbesBounded /\ Cooled

\* What can become of br: an open breaker has its last failure since the
\* opening, and only a passed cooldown makes it half open.
Fit(b) ==
    /\ b \in Breaker /\ Sound(b)
    /\ b.state = "OPEN" => IF b.renewed THEN b.age = 0
                           ELSE br.state = "OPEN" /\ b.age <= br.age
    /\ b.state = "HALF_OPEN" =>
          br.state = "HALF_OPEN" \/ br.age >= Cooldown(br)

\* The methods change the state or the probes to give only in a new
\* generation.
Paced(b) == b.renewed \/ (b.state = br.state /\ b.allowed = br.allowed)

Reached(b) == Fit(b) /\ Paced(b)

-----------------------------------------------------------------------------
(* The bounds.                                                             *)

LEMMA Bounds ==
    /\ FailureThreshold \in Nat \ {0} /\ Degradation \in 1..FailureThreshold
    /\ HalfOpenRequests \in Nat \ {0} /\ ResetTimeout \in Nat \ {0}
    /\ MaxCycles \in Nat /\ MaxAge \in Nat /\ ResetTimeout <= MaxAge
<1>1. ResetTimeout \in Nat \ {0} /\ MaxMultiplier \in Nat \ {0} /\ MaxAge \in Nat
      /\ ResetTimeout * MaxMultiplier <= MaxAge
  BY BreakerAssumption
<1>2. ResetTimeout <= MaxAge
  BY <1>1
<1> QED
  BY <1>1, <1>2, BreakerAssumption

LEMMA CooldownsType == Cooldowns \subseteq Int
<1>1. ASSUME NEW n \in Nat PROVE 2 ^ n \in Int
  BY Z3
<1>2. ASSUME NEW n \in 0..MaxCycles PROVE Backoff(n) \in Int
  <2>1. n \in Int /\ Escalation \in Int /\ MaxMultiplier \in Int
    BY BreakerAssumption
  <2>2. n > Escalation => n - Escalation \in Nat
    BY <2>1
  <2> QED
    BY <1>1, <2>1, <2>2 DEF Backoff
<1>3. ASSUME NEW n \in 0..MaxCycles PROVE ResetTimeout * Backoff(n) \in Int
  BY <1>2, BreakerAssumption
<1>4. \A k \in Kind : CooldownByKind[k] \in Int
  BY BreakerAssumption
<1> QED
  BY <1>3, <1>4 DEF Cooldowns

LEMMA CooldownType ==
    ASSUME NEW b \in Breaker
    PROVE  Cooldown(b) \in Int /\ Cooldown(b) \in Cooldowns
<1>1. Cooldown(b) \in Cooldowns
  BY DEF Cooldown, Cooldowns, Breaker
<1> QED
  BY <1>1, CooldownsType

LEMMA CooldownWithin == \E t \in Cooldowns : MaxAge >= t
<1>1. 0 \in 0..MaxCycles /\ Escalation \in Nat
  BY BreakerAssumption
<1>2. Backoff(0) = 1
  BY <1>1 DEF Backoff
<1>3. ResetTimeout * Backoff(0) \in Cooldowns
  BY <1>1 DEF Cooldowns
<1>4. ResetTimeout * Backoff(0) = ResetTimeout
  BY <1>2, Bounds
<1> QED
  BY <1>3, <1>4, Bounds

-----------------------------------------------------------------------------
(* The methods.                                                            *)

\* Saving makes the row right and changes nothing else.
LEMMA PersistSaves ==
    ASSUME NEW b \in Breaker
    PROVE  /\ Persist(b) \in Breaker /\ Persist(b).row = Saved(Persist(b))
           /\ Persist(b).state = b.state /\ Persist(b).count = b.count
           /\ Persist(b).age = b.age /\ Persist(b).kind = b.kind
           /\ Persist(b).cycles = b.cycles /\ Persist(b).allowed = b.allowed
           /\ Persist(b).lease = b.lease /\ Persist(b).renewed = b.renewed
  BY DEF Persist, Saved, Breaker, Row

LEMMA TransitionType ==
    ASSUME NEW b \in Breaker, NEW s \in State
    PROVE  /\ Transition(b, s) \in Breaker
           /\ Transition(b, s).state = s /\ Transition(b, s).renewed = TRUE
           /\ Transition(b, s).count = b.count /\ Transition(b, s).age = b.age
           /\ Transition(b, s).kind = b.kind /\ Transition(b, s).cycles = b.cycles
           /\ s = "HALF_OPEN" => Transition(b, s).allowed = HalfOpenRequests
<1> DEFINE a == IF s = "HALF_OPEN" THEN HalfOpenRequests ELSE b.allowed
<1>1. a \in 0..HalfOpenRequests
  BY Bounds DEF Breaker
<1>2. Transition(b, s) = [b EXCEPT !.state = s, !.lease = NoLease, !.renewed = TRUE, !.allowed = a]
  BY DEF Transition, Breaker
<1>3. s = "HALF_OPEN" => a = HalfOpenRequests
  OBVIOUS
<1> HIDE DEF a
<1> QED
  BY <1>1, <1>2, <1>3 DEF Breaker

LEMMA ClosedType ==
    ASSUME NEW b \in Breaker
    PROVE  /\ Closed(b) \in Breaker /\ Closed(b).state = "CLOSED"
           /\ Closed(b).renewed = TRUE /\ Closed(b).count = 0
<1> DEFINE t == Transition(b, "CLOSED")
<1>1. t \in Breaker /\ t.state = "CLOSED" /\ t.renewed = TRUE
  BY TransitionType DEF State
<1>2. Closed(b) = [t EXCEPT !.count = 0, !.kind = NoKind, !.cycles = 0]
  BY DEF Closed
<1>3. 0 \in 0..FailureThreshold /\ 0 \in 0..MaxCycles
  BY Bounds
<1> HIDE DEF t
<1> QED
  BY <1>1, <1>2, <1>3 DEF Breaker

\* The breaker itself is reached.
LEMMA HereReached ==
    ASSUME Inv
    PROVE  Reached(br)
  BY DEF Inv, TypeOK, Reached, Fit, Paced, Breaker

\* So is what it is after a question.
LEMMA RefreshReached ==
    ASSUME Inv
    PROVE  Reached(Refresh(br))
<1>0. br \in Breaker /\ Sound(br) /\ br.renewed = FALSE
  BY DEF Inv, TypeOK
<1>1. CASE br.state = "OPEN" /\ br.age >= Cooldown(br)
  <2> DEFINE t == Transition(br, "HALF_OPEN")
  <2>1. /\ t \in Breaker /\ t.state = "HALF_OPEN" /\ t.renewed = TRUE
        /\ t.allowed = HalfOpenRequests
    BY <1>0, TransitionType DEF State
  <2> HIDE DEF t
  <2>2. Reached(Persist(t))
    BY <1>1, <2>1, PersistSaves, Bounds DEF Reached, Fit, Paced, Sound
  <2> QED
    BY <1>1, <2>2 DEF Refresh, t
<1>2. CASE ~(br.state = "OPEN" /\ br.age >= Cooldown(br)) /\ ProbesLost(br)
  <2> DEFINE r == [br EXCEPT !.allowed = HalfOpenRequests, !.lease = NoLease, !.renewed = TRUE]
  <2>1. /\ r \in Breaker /\ r.state = br.state /\ r.row = br.row /\ r.count = br.count
        /\ r.age = br.age /\ r.kind = br.kind /\ r.cycles = br.cycles
        /\ r.allowed = HalfOpenRequests /\ r.renewed = TRUE
    <3>1. HalfOpenRequests \in 0..HalfOpenRequests
      BY Bounds
    <3> QED
      BY <1>0, <3>1 DEF Breaker
  <2> HIDE DEF r
  <2>2. Reached(r)
    BY <1>0, <1>2, <2>1, Bounds DEF Reached, Fit, Paced, Sound, Saved, ProbesLost
  <2> QED
    BY <1>2, <2>2 DEF Refresh, r
<1>3. CASE ~(br.state = "OPEN" /\ br.age >= Cooldown(br)) /\ ~ProbesLost(br)
  BY <1>3, HereReached DEF Refresh
<1> QED
  BY <1>1, <1>2, <1>3

\* A counted success leads on from what is reached.
LEMMA SuccessReached ==
    ASSUME NEW b, Reached(b)
    PROVE  Reached(OnSuccess(b))
<1> DEFINE n == IF b.count > 0 THEN b.count - 1 ELSE 0
<1>0. /\ b \in Breaker /\ Sound(b) /\ b.state \in State /\ b.count \in 0..FailureThreshold
      /\ n \in 0..FailureThreshold /\ n <= b.count
  BY Bounds DEF Reached, Fit, Paced, Breaker
<1>1. CASE b.state = "OPEN"
  <2> DEFINE t == Closed(b)
             x == [t EXCEPT !.age = MaxAge]
  <2>0. t \in Breaker /\ t.state = "CLOSED" /\ t.renewed = TRUE /\ t.count = 0
    BY <1>0, ClosedType
  <2>3. MaxAge \in 0..MaxAge
    BY Bounds
  <2> HIDE DEF t
  <2>1. x \in Breaker /\ x.state = "CLOSED" /\ x.renewed = TRUE /\ x.count = 0
    BY <2>0, <2>3 DEF Breaker
  <2>2. OnSuccess(b) = Persist(x)
    BY <1>1 DEF OnSuccess, t
  <2> HIDE DEF x
  <2> QED
    BY <2>1, <2>2, PersistSaves, Bounds DEF Reached, Fit, Paced, Sound
<1>2. CASE b.state = "HALF_OPEN"
  <2> DEFINE t == Closed(b)
  <2>0. t \in Breaker /\ t.state = "CLOSED" /\ t.renewed = TRUE /\ t.count = 0
    BY <1>0, ClosedType
  <2>1. OnSuccess(b) = Persist(t)
    BY <1>2 DEF OnSuccess
  <2> HIDE DEF t
  <2> QED
    BY <2>0, <2>1, PersistSaves, Bounds DEF Reached, Fit, Paced, Sound
<1>3. CASE b.state = "DEGRADED" /\ n <= Degradation
  <2> DEFINE t == Transition(b, "CLOSED")
             x == [t EXCEPT !.count = n]
  <2>0. t \in Breaker /\ t.state = "CLOSED" /\ t.renewed = TRUE
    BY <1>0, TransitionType DEF State
  <2>2. OnSuccess(b) = Persist(x)
    BY <1>3 DEF OnSuccess
  <2> HIDE DEF t, n
  <2>1. x \in Breaker /\ x.state = "CLOSED" /\ x.renewed = TRUE /\ x.count = n
    BY <1>0, <2>0 DEF Breaker
  <2>3. b.count < FailureThreshold
    BY <1>0, <1>3 DEF Sound
  <2> HIDE DEF x
  <2> QED
    BY <1>0, <1>3, <2>1, <2>2, <2>3, PersistSaves, Bounds DEF Reached, Fit, Paced, Sound
<1>4. CASE \/ b.state = "CLOSED"
           \/ b.state = "DEGRADED" /\ ~(n <= Degradation)
  <2> DEFINE x == [b EXCEPT !.count = n]
  <2>1. /\ x \in Breaker /\ x.state = b.state /\ x.renewed = b.renewed /\ x.count = n
        /\ x.allowed = b.allowed /\ x.lease = b.lease /\ x.age = b.age
    BY <1>0 DEF Breaker
  <2>2. OnSuccess(b) = Persist(x)
    BY <1>4 DEF OnSuccess
  <2> HIDE DEF x, n
  <2> QED
    BY <1>0, <1>4, <2>1, <2>2, PersistSaves, Bounds DEF Reached, Fit, Paced, Sound
<1> QED
  BY <1>0, <1>1, <1>2, <1>3, <1>4 DEF State

\* So does a counted failure.
LEMMA FailureReached ==
    ASSUME NEW b, Reached(b), br \in Breaker, NEW k \in Kind \cup {NoKind}
    PROVE  Reached(OnFailure(b, k))
<1> DEFINE m == AtMost(b.count + 1, FailureThreshold)
           f == [b EXCEPT !.count = AtMost(@ + 1, FailureThreshold), !.age = 0, !.kind = k]
<1>0. b \in Breaker /\ Sound(b) /\ b.state \in State /\ b.count \in 0..FailureThreshold
      /\ b.cycles \in 0..MaxCycles /\ br.age \in 0..MaxAge
  BY DEF Reached, Fit, Paced, Breaker
<1>m. m \in 0..FailureThreshold /\ m >= b.count
  BY <1>0, Bounds DEF AtMost
<1>e. f = [b EXCEPT !.count = m, !.age = 0, !.kind = k] /\ 0 \in 0..MaxAge
  BY <1>0, Bounds
<1> HIDE DEF m, f
<1>f. /\ f \in Breaker /\ f.state = b.state /\ f.count = m /\ f.age = 0
      /\ f.cycles = b.cycles /\ f.allowed = b.allowed /\ f.lease = b.lease
      /\ f.renewed = b.renewed
  BY <1>0, <1>m, <1>e DEF Breaker
<1>d. OnFailure(b, k) =
        Persist(CASE b.state = "HALF_OPEN" ->
                        [Transition(f, "OPEN") EXCEPT !.cycles = AtMost(@ + 1, MaxCycles)]
                  [] b.state \in {"CLOSED", "DEGRADED"} /\ f.count = FailureThreshold ->
                        Transition(f, "OPEN")
                  [] b.state = "CLOSED" /\ f.count >= Degradation /\ f.count < FailureThreshold ->
                        Transition(f, "DEGRADED")
                  [] OTHER -> f)
  BY DEF OnFailure, f
<1>1. CASE b.state = "HALF_OPEN"
  <2> DEFINE t == Transition(f, "OPEN")
             x == [t EXCEPT !.cycles = AtMost(@ + 1, MaxCycles)]
  <2>1. t \in Breaker /\ t.state = "OPEN" /\ t.renewed = TRUE /\ t.age = 0 /\ t.cycles = b.cycles
    BY <1>f, TransitionType DEF State
  <2> HIDE DEF t
  <2>2. AtMost(b.cycles + 1, MaxCycles) \in 0..MaxCycles
    BY <1>0, Bounds DEF AtMost
  <2>3. x \in Breaker /\ x.state = "OPEN" /\ x.renewed = TRUE /\ x.age = 0
    BY <2>1, <2>2 DEF Breaker
  <2>4. OnFailure(b, k) = Persist(x)
    BY <1>1, <1>d DEF t
  <2> HIDE DEF x
  <2> QED
    BY <2>3, <2>4, PersistSaves DEF Reached, Fit, Paced, Sound
<1>2. CASE b.state \in {"CLOSED", "DEGRADED"} /\ f.count = FailureThreshold
  <2> DEFINE t == Transition(f, "OPEN")
  <2>1. t \in Breaker /\ t.state = "OPEN" /\ t.renewed = TRUE /\ t.age = 0
    BY <1>f, TransitionType DEF State
  <2>2. OnFailure(b, k) = Persist(t)
    BY <1>2, <1>d, Bounds
  <2> HIDE DEF t
  <2> QED
    BY <2>1, <2>2, PersistSaves DEF Reached, Fit, Paced, Sound
<1>3. CASE b.state = "CLOSED" /\ f.count >= Degradation /\ f.count < FailureThreshold
  <2> DEFINE t == Transition(f, "DEGRADED")
  <2>1. t \in Breaker /\ t.state = "DEGRADED" /\ t.renewed = TRUE /\ t.count = f.count
    BY <1>f, TransitionType DEF State
  <2>2. OnFailure(b, k) = Persist(t)
    BY <1>3, <1>d, Bounds
  <2> HIDE DEF t
  <2> QED
    BY <1>3, <2>1, <2>2, PersistSaves DEF Reached, Fit, Paced, Sound
<1>4. CASE \/ b.state = "OPEN"
           \/ b.state = "DEGRADED" /\ f.count # FailureThreshold
           \/ b.state = "CLOSED" /\ ~(f.count >= Degradation)
  <2>1. OnFailure(b, k) = Persist(f)
    BY <1>4, <1>d, Bounds
  <2>2. b.state \in {"CLOSED", "DEGRADED"} => f.count < FailureThreshold
    BY <1>4, <1>f, <1>m, Bounds
  <2> QED
    BY <1>0, <1>4, <1>f, <1>m, <2>1, <2>2, PersistSaves, Bounds DEF Reached, Fit, Paced, Sound
<1> QED
  BY <1>0, <1>f, <1>m, <1>1, <1>2, <1>3, <1>4, Bounds DEF State

\* And a reset.
LEMMA ResetReached ==
    ASSUME br \in Breaker
    PROVE  Reached(Persist([Closed(br) EXCEPT !.age = MaxAge]))
<1> DEFINE t == Closed(br)
           x == [t EXCEPT !.age = MaxAge]
<1>1. t \in Breaker /\ t.state = "CLOSED" /\ t.renewed = TRUE /\ t.count = 0
  BY ClosedType
<1>2. MaxAge \in 0..MaxAge
  BY Bounds
<1> HIDE DEF t
<1>3. x \in Breaker /\ x.state = "CLOSED" /\ x.renewed = TRUE /\ x.count = 0
  BY <1>1, <1>2 DEF Breaker
<1> HIDE DEF x
<1>4. Reached(Persist(x))
  BY <1>3, PersistSaves, Bounds DEF Reached, Fit, Paced, Sound
<1> QED
  BY <1>4 DEF x, t

-----------------------------------------------------------------------------
(* The steps.                                                              *)

\* What TypeOK says of the calls.
CallsOK ==
    /\ stage \in [Call -> {"idle", "picked", "gated", "running", "served", "failed", "excused"}]
    /\ path \in [Call -> Path \cup {"none"}]
    /\ probe \in [Call -> {"none", "current", "stale"}]
    /\ \A c \in Call : probe[c] # "none" => stage[c] \in {"running", "served", "failed", "excused"}

\* The breaker's part of the invariant, when it becomes something fit.
LEMMA FitKept ==
    ASSUME Inv, NEW b, Fit(b), Becomes(b)
    PROVE  /\ br' \in Breaker /\ br'.renewed = FALSE /\ sinceOpen' \in 0..MaxAge
           /\ br'.state = b.state /\ br'.allowed = b.allowed
           /\ Sound(br)' /\ Cooled'
<1>0. /\ br \in Breaker /\ b \in Breaker /\ Sound(b) /\ sinceOpen \in 0..MaxAge
      /\ br.age \in 0..MaxAge /\ b.age \in 0..MaxAge /\ b.state \in State
  BY DEF Inv, TypeOK, Fit, Breaker
<1>1. /\ br' \in Breaker /\ br'.renewed = FALSE
      /\ br'.state = b.state /\ br'.allowed = b.allowed /\ br'.lease = b.lease
      /\ br'.count = b.count /\ br'.age = b.age /\ br'.kind = b.kind
      /\ br'.cycles = b.cycles /\ br'.row = b.row
  BY <1>0 DEF Becomes, Breaker
<1>2. Sound(br)'
  BY <1>0, <1>1 DEF Sound, Saved
<1>3. /\ b.state \in {"CLOSED", "DEGRADED"} => sinceOpen' = MaxAge
      /\ b.state = "OPEN" /\ b.renewed => sinceOpen' = 0
      /\ b.state = "OPEN" /\ ~b.renewed => sinceOpen' = sinceOpen
      /\ b.state = "HALF_OPEN" => sinceOpen' = sinceOpen
  BY DEF Becomes
<1>4. sinceOpen' \in 0..MaxAge
  BY <1>0, <1>3, Bounds DEF Becomes
<1>5. Cooled'
  <2>1. CASE b.state \in {"CLOSED", "DEGRADED"}
    <3>1. \E t \in Cooldowns : sinceOpen' >= t
      BY <2>1, <1>3, CooldownWithin
    <3> QED
      BY <2>1, <3>1, <1>1 DEF Cooled, Cooldowns
  <2>2. CASE b.state = "OPEN"
    BY <2>2, <1>0, <1>1, <1>3 DEF Fit, Cooled, Inv
  <2>3. CASE b.state = "HALF_OPEN"
    <3>1. \E t \in Cooldowns : sinceOpen >= t
      <4>1. CASE br.state # "OPEN"
        BY <4>1 DEF Inv, Cooled
      <4>2. CASE br.state = "OPEN"
        <5>1. sinceOpen >= br.age /\ br.age >= Cooldown(br)
          BY <4>2, <2>3 DEF Inv, Cooled, Fit
        <5>2. Cooldown(br) \in Int /\ Cooldown(br) \in Cooldowns
          BY <1>0, CooldownType
        <5>3. sinceOpen >= Cooldown(br)
          BY <1>0, <5>1, <5>2
        <5> QED
          BY <5>2, <5>3
      <4> QED
        BY <4>1, <4>2
    <3> QED
      BY <2>3, <3>1, <1>1, <1>3 DEF Cooled, Cooldowns
  <2> QED
    BY <1>0, <2>1, <2>2, <2>3 DEF State
<1> QED
  BY <1>1, <1>2, <1>4, <1>5

\* The probes are bounded after a step that starts none.
LEMMA ProbesKept ==
    ASSUME Inv, NEW b, Paced(b), b \in Breaker,
           br'.state = b.state, br'.allowed = b.allowed,
           \A c \in Call : probe'[c] = "current" => Aged(b)[c] = "current"
    PROVE  ProbesBounded'
<1>1. IsFiniteSet(Call)
  BY BreakerAssumption
<1>2. IsFiniteSet(Probes) /\ Cardinality(Probes) \in Nat
  BY <1>1, FS_Subset, FS_CardinalityType DEF Probes
<1>3. CASE b.renewed
  <2>1. Probes' = {}
    BY <1>3 DEF Probes, Aged
  <2>2. Cardinality(Probes') = 0
    BY <2>1, FS_EmptySet
  <2>3. b.allowed \in 0..HalfOpenRequests
    BY DEF Breaker
  <2> QED
    BY <2>2, <2>3, Bounds DEF ProbesBounded
<1>4. CASE ~b.renewed
  <2>1. Probes' \subseteq Probes
    BY <1>4 DEF Probes, Aged
  <2>2. Cardinality(Probes') \in Nat /\ Cardinality(Probes') <= Cardinality(Probes)
    BY <1>2, <2>1, FS_Subset, FS_CardinalityType
  <2>3. b.state = br.state /\ b.allowed = br.allowed /\ br.allowed \in Int
    BY <1>4, Bounds DEF Paced, Inv, TypeOK, Breaker
  <2> QED
    BY <1>2, <2>2, <2>3, Bounds DEF Inv, ProbesBounded
<1> QED
  BY <1>3, <1>4

\* Together: a step to a reached breaker that starts no probe.
LEMMA StepKept ==
    ASSUME Inv, NEW b, Reached(b), Becomes(b), CallsOK',
           \A c \in Call : probe'[c] = "current" => Aged(b)[c] = "current"
    PROVE  Inv'
<1>1. Fit(b) /\ Paced(b) /\ b \in Breaker
  BY DEF Reached, Fit
<1>2. /\ br' \in Breaker /\ br'.renewed = FALSE /\ sinceOpen' \in 0..MaxAge
      /\ br'.state = b.state /\ br'.allowed = b.allowed
      /\ Sound(br)' /\ Cooled'
  BY <1>1, FitKept
<1>3. ProbesBounded'
  BY <1>1, <1>2, ProbesKept
<1> QED
  BY <1>2, <1>3 DEF Inv, TypeOK, CallsOK

Stages == {"idle", "picked", "gated", "running", "served", "failed", "excused"}
Probing == {"running", "served", "failed", "excused"}

\* The calls' part, when one call goes on.
LEMMA CallsKept ==
    ASSUME CallsOK, NEW c \in Call, NEW s \in Stages, NEW p \in Path \cup {"none"},
           Goes(c, s, p), probe' \in [Call -> {"none", "current", "stale"}],
           \A d \in Call : probe'[d] # "none" =>
              IF d = c THEN s \in Probing ELSE probe[d] # "none"
    PROVE  CallsOK'
<1>1. /\ stage' \in [Call -> Stages] /\ path' \in [Call -> Path \cup {"none"}]
      /\ \A d \in Call : stage'[d] = IF d = c THEN s ELSE stage[d]
  <2>1. (IF s = "idle" THEN "none" ELSE p) \in Path \cup {"none"}
    OBVIOUS
  <2> QED
    BY <2>1 DEF CallsOK, Goes, Stages
<1> QED
  BY <1>1 DEF CallsOK, Stages, Probing

LEMMA AgedType ==
    ASSUME CallsOK, NEW b
    PROVE  /\ Aged(b) \in [Call -> {"none", "current", "stale"}]
           /\ \A c \in Call : Aged(b)[c] # "none" => probe[c] # "none"
           /\ ~b.renewed => Aged(b) = probe
  BY DEF Aged, CallsOK

LEMMA FailsGoes ==
    ASSUME NEW c \in Call, NEW p, Fails(c, p)
    PROVE  \E s \in {"idle", "failed", "excused"} : Goes(c, s, p)
  BY DEF Fails

LEMMA InvParts ==
    ASSUME Inv
    PROVE  CallsOK /\ br \in Breaker /\ br.renewed = FALSE
           /\ \A c \in Call : stage[c] \notin Probing => probe[c] = "none"
  BY DEF Inv, TypeOK, CallsOK, Probing

\* A call that is no probe goes on after a question to the breaker.
LEMMA AskKept ==
    ASSUME Inv, NEW c \in Call, NEW s \in Stages, NEW p \in Path \cup {"none"},
           NEW b, Reached(b), Becomes(b), Goes(c, s, p), probe' = Aged(b),
           s \in Probing \/ stage[c] \notin Probing
    PROVE  Inv'
<1>1. \A d \in Call : Aged(b)[d] # "none" =>
         IF d = c THEN s \in Probing ELSE probe[d] # "none"
  BY InvParts, AgedType
<1>2. CallsOK'
  BY <1>1, InvParts, AgedType, CallsKept
<1> QED
  BY <1>2, StepKept

\* A call goes on and is no probe any more.
LEMMA LeaveKept ==
    ASSUME Inv, NEW c \in Call, NEW s \in Stages, NEW p \in Path \cup {"none"},
           NEW b, Reached(b), Becomes(b), Goes(c, s, p), Leaves(c, b)
    PROVE  Inv'
<1>1. probe' = [Aged(b) EXCEPT ![c] = "none"]
  BY DEF Leaves
<1>2. /\ probe' \in [Call -> {"none", "current", "stale"}]
      /\ \A d \in Call : probe'[d] # "none" => d # c /\ probe[d] # "none"
      /\ \A d \in Call : probe'[d] = "current" => Aged(b)[d] = "current"
  BY <1>1, InvParts, AgedType
<1>3. CallsOK'
  BY <1>2, InvParts, CallsKept
<1> QED
  BY <1>2, <1>3, StepKept

\* A call goes on by itself.
LEMMA StayKept ==
    ASSUME Inv, NEW c \in Call, NEW s \in Stages, NEW p \in Path \cup {"none"},
           Goes(c, s, p), UNCHANGED <<br, sinceOpen>>,
           probe' \in [Call -> {"none", "current", "stale"}],
           \A d \in Call : probe'[d] = probe[d] \/ probe'[d] = "none",
           \A d \in Call : probe'[d] # "none" => IF d = c THEN s \in Probing ELSE probe[d] # "none"
    PROVE  Inv'
<1>1. CallsOK'
  BY InvParts, CallsKept
<1>2. Aged(br) = probe
  BY InvParts, AgedType
<1>3. ProbesBounded'
  <2>1. Paced(br) /\ br \in Breaker
    BY InvParts DEF Paced
  <2>2. \A d \in Call : probe'[d] = "current" => Aged(br)[d] = "current"
    BY <1>2
  <2> QED
    BY <2>1, <2>2, ProbesKept
<1>4. Sound(br)' /\ Cooled'
  BY DEF Inv, Sound, Cooled
<1> QED
  BY <1>1, <1>3, <1>4 DEF Inv, TypeOK, CallsOK

\* A call starts as a probe: its place is taken from those to give.
LEMMA ProbeKept ==
    ASSUME Inv, NEW c \in Call, Start(c), LetsIn(Refresh(br)), Refresh(br).state = "HALF_OPEN"
    PROVE  Inv'
<1> DEFINE b == Refresh(br)
           l == IF b.lease = NoLease THEN 0 ELSE b.lease
           took == [b EXCEPT !.allowed = b.allowed - 1, !.lease = l]
<1>1. /\ Reached(b) /\ Fit(b) /\ Paced(b) /\ b \in Breaker /\ b.allowed \in 1..HalfOpenRequests
      /\ b.state = "HALF_OPEN"
  <2>1. Reached(b)
    BY RefreshReached
  <2>2. b.allowed > 0
    BY DEF LetsIn
  <2> QED
    BY <2>1, <2>2, Bounds DEF Reached, Fit, Breaker
<1>2. /\ stage[c] = "gated" /\ Becomes(took) /\ Goes(c, "running", path[c])
      /\ probe' = [Aged(b) EXCEPT ![c] = "current"]
  BY <1>1 DEF Start
<1> HIDE DEF b
<1>3. l \in 0..ResetTimeout /\ l # NoLease /\ b.allowed - 1 \in 0..HalfOpenRequests
  BY <1>1, Bounds DEF Breaker, NoLease
<1> HIDE DEF l
<1>4. /\ took \in Breaker /\ took.state = "HALF_OPEN" /\ took.allowed = b.allowed - 1
      /\ took.lease = l /\ took.row = b.row /\ took.count = b.count /\ took.age = b.age
      /\ took.kind = b.kind /\ took.cycles = b.cycles
  BY <1>1, <1>3 DEF Breaker
<1> HIDE DEF took
<1>5. Fit(took)
  BY <1>1, <1>3, <1>4 DEF Fit, Sound, Saved
<1>6. /\ br' \in Breaker /\ br'.renewed = FALSE /\ sinceOpen' \in 0..MaxAge
      /\ br'.state = "HALF_OPEN" /\ br'.allowed = b.allowed - 1
      /\ Sound(br)' /\ Cooled'
  BY <1>2, <1>4, <1>5, FitKept
<1>7. /\ probe' \in [Call -> {"none", "current", "stale"}]
      /\ \A d \in Call : probe'[d] # "none" => d = c \/ probe[d] # "none"
  BY <1>2, InvParts, AgedType
<1>8. CallsOK'
  <2>1. path[c] \in Path \cup {"none"} /\ "running" \in Stages /\ "running" \in Probing
    BY InvParts DEF CallsOK, Stages, Probing
  <2> QED
    BY <1>2, <1>7, <2>1, InvParts, CallsKept
<1>9. ProbesBounded'
  <2>1. IsFiniteSet(Probes) /\ Cardinality(Probes) \in Nat
    BY BreakerAssumption, FS_Subset, FS_CardinalityType DEF Probes
  <2>2. CASE b.renewed
    <3>1. Probes' = {c}
      BY <2>2, <1>2, InvParts, AgedType DEF Probes, Aged
    <3>2. Cardinality(Probes') = 1
      BY <3>1, FS_Singleton
    <3> QED
      BY <3>2, <1>1, <1>6, Bounds DEF ProbesBounded
  <2>3. CASE ~b.renewed
    <3>1. c \notin Probes
      BY <1>2, InvParts DEF Probes, Probing
    <3>2. Probes' = Probes \cup {c}
      BY <2>3, <1>2, InvParts, AgedType DEF Probes
    <3>3. Cardinality(Probes') = Cardinality(Probes) + 1
      BY <2>1, <3>1, <3>2, FS_AddElement
    <3>4. br.state = "HALF_OPEN" /\ br.allowed = b.allowed
      BY <2>3, <1>1 DEF Paced
    <3> QED
      BY <2>1, <3>3, <3>4, <1>1, <1>6, Bounds DEF Inv, ProbesBounded
  <2> QED
    BY <2>2, <2>3
<1> QED
  BY <1>6, <1>8, <1>9 DEF Inv, TypeOK, CallsOK

LEMMA TickKept ==
    ASSUME Inv, Tick
    PROVE  Inv'
<1> DEFINE a == AtMost(br.age + 1, MaxAge)
           l == IF br.lease = NoLease THEN br.lease ELSE AtMost(br.lease + 1, ResetTimeout)
<1>1. /\ br \in Breaker /\ br.age \in 0..MaxAge /\ br.row \in Row /\ br.row.age = br.age
      /\ Sound(br) /\ br.lease \in {NoLease} \cup 0..ResetTimeout
      /\ sinceOpen \in 0..MaxAge
  BY DEF Inv, TypeOK, Breaker, Sound, Saved
<1>2. /\ br' = [br EXCEPT !.age = a, !.row = [br.row EXCEPT !.age = a], !.lease = l]
      /\ sinceOpen' = AtMost(sinceOpen + 1, MaxAge) /\ UNCHANGED <<stage, path, probe>>
  BY <1>1 DEF Tick, Breaker, Row
<1>3. a \in 0..MaxAge /\ l \in {NoLease} \cup 0..ResetTimeout
      /\ (br.lease # NoLease => l # NoLease)
  BY <1>1, Bounds DEF AtMost, NoLease
<1>4. /\ sinceOpen' \in 0..MaxAge /\ sinceOpen' >= sinceOpen
      /\ sinceOpen >= br.age => sinceOpen' >= a
  BY <1>1, <1>2, Bounds DEF AtMost
<1> HIDE DEF a, l
<1>5. [br.row EXCEPT !.age = a] \in Row
  BY <1>1, <1>3 DEF Row
<1>6. /\ br' \in Breaker /\ br'.state = br.state /\ br'.count = br.count /\ br'.age = a
      /\ br'.kind = br.kind /\ br'.cycles = br.cycles /\ br'.allowed = br.allowed
      /\ br'.lease = l /\ br'.renewed = br.renewed /\ br'.row = [br.row EXCEPT !.age = a]
  BY <1>1, <1>2, <1>3, <1>5 DEF Breaker
<1>7. Sound(br)'
  <2>1. br.row = Saved(br)
    BY <1>1 DEF Sound
  <2>2. br'.row = Saved(br')
    BY <2>1, <1>6 DEF Saved
  <2> QED
    BY <1>1, <1>3, <1>6, <2>2 DEF Sound
<1>8. Cooled'
  <2>1. CASE br.state = "OPEN"
    BY <2>1, <1>4, <1>6 DEF Inv, Cooled
  <2>2. CASE br.state # "OPEN"
    <3>1. PICK t \in Cooldowns : sinceOpen >= t
      BY <2>2 DEF Inv, Cooled
    <3>2. sinceOpen' >= t
      BY <3>1, <1>1, <1>4, CooldownsType
    <3> QED
      BY <2>2, <3>2, <1>6 DEF Cooled, Cooldowns
  <2> QED
    BY <2>1, <2>2
<1>9. ProbesBounded'
  BY <1>2, <1>6 DEF Inv, ProbesBounded, Probes
<1> QED
  BY <1>2, <1>4, <1>6, <1>7, <1>8, <1>9 DEF Inv, TypeOK

\* A restart has the saved state, and all probes to give.
LEMMA RestartKept ==
    ASSUME Inv, Restart
    PROVE  Inv'
<1> DEFINE a == IF br.state = "HALF_OPEN" THEN HalfOpenRequests ELSE 0
<1>1. br \in Breaker /\ Sound(br) /\ br.row = Saved(br) /\ br.row \in Row
  BY DEF Inv, TypeOK, Sound, Breaker
<1>2. a \in 0..HalfOpenRequests /\ (br.state = "HALF_OPEN" => a # 0)
  BY Bounds
<1>3. br' = [state |-> br.state, count |-> br.count, age |-> br.age, kind |-> br.kind,
             cycles |-> br.cycles, row |-> br.row, lease |-> NoLease, renewed |-> FALSE,
             allowed |-> a]
  BY <1>1 DEF Restart, Restore, Saved
<1>4. stage' = [c \in Call |-> "idle"] /\ path' = [c \in Call |-> "none"]
      /\ probe' = [c \in Call |-> "none"] /\ sinceOpen' = sinceOpen
  BY DEF Restart
<1> HIDE DEF a
<1>5. /\ br' \in Breaker /\ br'.state = br.state /\ br'.count = br.count /\ br'.age = br.age
      /\ br'.renewed = FALSE /\ br'.allowed = a
  BY <1>1, <1>2, <1>3 DEF Breaker
<1>6. Sound(br)'
  BY <1>1, <1>2, <1>3 DEF Sound, Saved
<1>7. CallsOK'
  BY <1>4 DEF CallsOK
<1>8. ProbesBounded'
  <2>1. Probes' = {}
    BY <1>4 DEF Probes
  <2> QED
    BY <2>1, <1>2, <1>5, FS_EmptySet, Bounds DEF ProbesBounded
<1>9. Cooled'
  BY <1>4, <1>5 DEF Inv, Cooled
<1> QED
  BY <1>4, <1>5, <1>6, <1>7, <1>8, <1>9 DEF Inv, TypeOK, CallsOK

LEMMA AccountedReached ==
    ASSUME Inv, NEW c \in Call, stage[c] \in {"served", "failed", "excused"}
    PROVE  Reached(Accounted(c))
<1>1. Reached(br) /\ Reached(Refresh(br)) /\ br \in Breaker
  BY HereReached, RefreshReached, InvParts
<1>2. NoKind \in Kind \cup {NoKind}
  OBVIOUS
<1>3. Reached(OnSuccess(br)) /\ Reached(OnSuccess(Refresh(br)))
  BY <1>1, SuccessReached
<1>4. Reached(OnFailure(br, NoKind)) /\ Reached(OnFailure(Refresh(br), NoKind))
  BY <1>1, <1>2, FailureReached
<1> HIDE DEF Refresh
<1>5. CASE stage[c] = "excused"
  BY <1>5, <1>1 DEF Accounted
<1>6. CASE stage[c] = "served" /\ path[c] \in Single
  BY <1>6, <1>3 DEF Accounted
<1>7. CASE stage[c] = "served" /\ path[c] \notin Single
  BY <1>7, <1>1, <1>3 DEF Accounted
<1>8. CASE stage[c] = "failed" /\ path[c] \in Single
  BY <1>8, <1>4 DEF Accounted
<1>9. CASE stage[c] = "failed" /\ path[c] \notin Single
  BY <1>9, <1>1, <1>4 DEF Accounted
<1> QED
  BY <1>5, <1>6, <1>7, <1>8, <1>9

\* Every step of a call.
LEMMA CallStepKept ==
    ASSUME Inv, NEW c \in Call, CallStep(c)
    PROVE  Inv'
<1> DEFINE b == Refresh(br)
<1>1. Reached(br) /\ Reached(b) /\ br \in Breaker
  BY HereReached, RefreshReached, InvParts
<1>2. path[c] \in Path \cup {"none"} /\ stage[c] \in Stages
  BY InvParts DEF CallsOK, Stages
<1>3. \A k \in Kind \cup {NoKind} : Reached(OnFailure(br, k))
  BY <1>1, FailureReached
<1> HIDE DEF b
<1>4. ASSUME NEW p \in Path, Pick(c, p) PROVE Inv'
  <2>1. /\ stage[c] = "idle" /\ Becomes(b) /\ probe' = Aged(b)
        /\ \E s \in {"idle", "picked"} : Goes(c, s, p)
    BY <1>4 DEF Pick, b
  <2>2. PICK s \in {"idle", "picked"} : Goes(c, s, p)
    BY <2>1
  <2> QED
    BY <1>1, <2>1, <2>2, AskKept DEF Stages, Probing
<1>5. ASSUME NEW p \in Path, Gate(c, p) PROVE Inv'
  <2>1. /\ stage[c] \in {"idle", "picked"} /\ Becomes(b) /\ probe' = Aged(b)
        /\ Goes(c, "gated", p) \/ Fails(c, p)
    BY <1>5 DEF Gate, b
  <2>2. PICK s \in {"gated", "idle", "failed", "excused"} : Goes(c, s, p)
    BY <2>1, FailsGoes
  <2> QED
    BY <1>1, <2>1, <2>2, AskKept DEF Stages, Probing
<1>6. ASSUME Start(c) PROVE Inv'
  <2>1. CASE LetsIn(b) /\ b.state = "HALF_OPEN"
    BY <2>1, <1>6, ProbeKept DEF b
  <2>2. CASE ~(LetsIn(b) /\ b.state = "HALF_OPEN")
    <3>1. /\ stage[c] = "gated" /\ Becomes(b) /\ probe' = [Aged(b) EXCEPT ![c] = "none"]
          /\ \E s \in {"running", "gated", "failed", "excused"} : Goes(c, s, path[c])
      BY <2>2, <1>6 DEF Start, b
    <3>2. PICK s \in {"running", "gated", "failed", "excused"} : Goes(c, s, path[c])
      BY <3>1
    <3>3. Leaves(c, b) /\ s \in Stages
      BY <3>1, <3>2 DEF Leaves, Stages
    <3> QED
      BY <1>1, <1>2, <3>1, <3>2, <3>3, LeaveKept
  <2> QED
    BY <2>1, <2>2
<1>7. ASSUME StartFixed(c) PROVE Inv'
  <2>1. /\ stage[c] = "gated" /\ Goes(c, "running", path[c])
        /\ UNCHANGED <<br, sinceOpen>> /\ probe' = probe
    BY <1>7 DEF StartFixed
  <2>2. /\ probe' \in [Call -> {"none", "current", "stale"}]
        /\ "running" \in Stages /\ "running" \in Probing
    BY <2>1, InvParts DEF CallsOK, Stages, Probing
  <2> QED
    BY <1>2, <2>1, <2>2, StayKept
<1>8. ASSUME Resolve(c) PROVE Inv'
  <2>1. PICK s \in {"served", "failed", "excused"} : Goes(c, s, path[c])
    BY <1>8 DEF Resolve
  <2>2. UNCHANGED <<br, sinceOpen>> /\ probe' = probe
    BY <1>8 DEF Resolve
  <2>3. /\ probe' \in [Call -> {"none", "current", "stale"}]
        /\ s \in Stages /\ s \in Probing
    BY <2>1, <2>2, InvParts DEF CallsOK, Stages, Probing
  <2> QED
    BY <1>2, <2>1, <2>2, <2>3, StayKept
<1>9. ASSUME Retry(c) PROVE Inv'
  <2>1. /\ Goes(c, "gated", path[c]) /\ UNCHANGED <<br, sinceOpen>>
        /\ probe' = [probe EXCEPT ![c] = "none"]
    BY <1>9 DEF Retry
  <2>2. /\ probe' \in [Call -> {"none", "current", "stale"}] /\ "gated" \in Stages
        /\ \A d \in Call : probe'[d] = IF d = c THEN "none" ELSE probe[d]
    BY <2>1, InvParts DEF CallsOK, Stages
  <2> QED
    BY <1>2, <2>1, <2>2, StayKept
<1>10. ASSUME Throw(c) PROVE Inv'
  <2>1. PICK x : Reached(x) /\ Becomes(x) /\ Leaves(c, x)
    BY <1>10, <1>1, <1>3 DEF Throw
  <2>2. PICK s \in {"idle", "failed", "excused"} : Goes(c, s, path[c])
    BY <1>10, FailsGoes DEF Throw
  <2> QED
    BY <1>2, <2>1, <2>2, LeaveKept DEF Stages
<1>11. ASSUME NoCredentials(c) PROVE Inv'
  <2>1. PICK x : Reached(x) /\ Becomes(x) /\ Leaves(c, x)
    BY <1>11, <1>1, <1>3 DEF NoCredentials
  <2>2. PICK s \in {"idle", "failed", "excused"} : Goes(c, s, path[c])
    BY <1>11, FailsGoes DEF NoCredentials
  <2> QED
    BY <1>2, <2>1, <2>2, LeaveKept DEF Stages
<1>12. ASSUME Account(c) PROVE Inv'
  <2>1. /\ stage[c] \in {"served", "failed", "excused"} /\ Goes(c, "idle", path[c])
        /\ Becomes(Accounted(c)) /\ Leaves(c, Accounted(c))
    BY <1>12 DEF Account
  <2>2. Reached(Accounted(c)) /\ "idle" \in Stages
    BY <2>1, AccountedReached DEF Stages
  <2> QED
    BY <1>2, <2>1, <2>2, LeaveKept
<1> QED
  BY <1>4, <1>5, <1>6, <1>7, <1>8, <1>9, <1>10, <1>11, <1>12 DEF CallStep

\* A step that only asks or resets the breaker.
LEMMA BreakerStepKept ==
    ASSUME Inv, Look \/ Reset
    PROVE  Inv'
<1>1. PICK b : Reached(b) /\ Becomes(b) /\ probe' = Aged(b) /\ UNCHANGED <<stage, path>>
  BY RefreshReached, ResetReached, InvParts DEF Look, Reset
<1>2. CallsOK'
  <2>1. probe' \in [Call -> {"none", "current", "stale"}]
        /\ \A c \in Call : probe'[c] # "none" => probe[c] # "none"
    BY <1>1, InvParts, AgedType
  <2> QED
    BY <1>1, <2>1, InvParts DEF CallsOK
<1> QED
  BY <1>1, <1>2, StepKept

LEMMA InitInv == Init => Inv
<1> SUFFICES ASSUME Init PROVE Inv
  OBVIOUS
<1>1. br = [state |-> "CLOSED", count |-> 0, age |-> MaxAge, kind |-> NoKind, cycles |-> 0,
            row |-> Fresh, lease |-> NoLease, renewed |-> FALSE, allowed |-> 0]
  BY DEF Init, Restore, Fresh
<1>2. /\ 0 \in 0..FailureThreshold /\ MaxAge \in 0..MaxAge /\ 0 \in 0..MaxCycles
      /\ 0 \in 0..HalfOpenRequests /\ 0 < FailureThreshold /\ 0 <= Degradation
  BY Bounds
<1>3. Fresh \in Row
  BY <1>2 DEF Fresh, Row, State
<1>4. br \in Breaker
  BY <1>1, <1>2, <1>3 DEF Breaker, State
<1>5. Sound(br)
  BY <1>1, <1>2 DEF Sound, Saved, Fresh
<1>6. CallsOK
  BY DEF Init, CallsOK
<1>7. Cooled
  BY <1>1, CooldownWithin DEF Cooled, Init
<1> QED
  BY <1>1, <1>2, <1>4, <1>5, <1>6, <1>7 DEF Inv, TypeOK, CallsOK, ProbesBounded, Init

LEMMA NextInv == Inv /\ [Next]_vars => Inv'
<1> SUFFICES ASSUME Inv, [Next]_vars PROVE Inv'
  OBVIOUS
<1>1. CASE \E c \in Call : CallStep(c)
  BY <1>1, CallStepKept
<1>2. CASE Look \/ Reset
  BY <1>2, BreakerStepKept
<1>3. CASE Restart
  BY <1>3, RestartKept
<1>4. CASE Tick
  BY <1>4, TickKept
<1>5. CASE UNCHANGED vars
  BY <1>5 DEF vars, Inv, TypeOK, Sound, ProbesBounded, Probes, Cooled
<1> QED
  BY <1>1, <1>2, <1>3, <1>4, <1>5 DEF Next

LEMMA Invariance == Spec => []Inv
  BY InitInv, NextInv, PTL DEF Spec

-----------------------------------------------------------------------------
(* The results.                                                            *)

\* The breaker, its row and its calls have their types in every state.
THEOREM TypeCorrect == Spec => []TypeOK
<1>1. Inv => TypeOK
  BY DEF Inv
<1> QED
  BY <1>1, Invariance, PTL

\* _refreshOpenState and execute: the probes in flight and those still to be
\* let in are never more than halfOpenRequests.
THEOREM ProbesStayBounded == Spec => []ProbesBounded
<1>1. Inv => ProbesBounded
  BY DEF Inv
<1> QED
  BY <1>1, Invariance, PTL

\* A half-open breaker without probes to give has a lease that runs out.
THEOREM LeaseAlwaysRuns == Spec => []LeaseRuns
<1>1. Inv => LeaseRuns
  BY DEF Inv, Sound, LeaseRuns
<1> QED
  BY <1>1, Invariance, PTL

\* _onSuccess and _onFailure: the state says what the failure count is.
THEOREM CountFitsState == Spec => []CountMatchesState
<1>1. Inv => CountMatchesState
  BY DEF Inv, Sound, CountMatchesState
<1> QED
  BY <1>1, Invariance, PTL

\* _persistToDb: the database has every change that a restart must know.
THEOREM RowIsCurrent == Spec => []RowMatches
<1>1. Inv => RowMatches
  BY DEF Inv, Sound, RowMatches
<1> QED
  BY <1>1, Invariance, PTL

\* execute calls nothing before a cooldown has passed since the opening.
THEOREM CooldownIsKept == Spec => NoCallInCooldown
<1>1. ASSUME Inv, [Next]_vars
      PROVE  [\A c \in Call : Start(c) /\ stage'[c] = "running" =>
                \E t \in Cooldowns : sinceOpen >= t]_vars
  <2> SUFFICES ASSUME NEW c \in Call, Start(c), stage'[c] = "running"
               PROVE  \E t \in Cooldowns : sinceOpen >= t
    OBVIOUS
  <2>1. LetsIn(Refresh(br)) /\ Refresh(br).state # "OPEN"
    <3>1. CASE LetsIn(Refresh(br))
      BY <3>1 DEF LetsIn
    <3>2. CASE ~LetsIn(Refresh(br))
      <4>1. \E s \in {"gated", "failed", "excused"} : Goes(c, s, path[c])
        BY <3>2 DEF Start
      <4>2. stage \in [Call -> Stages]
        BY <1>1, InvParts DEF CallsOK, Stages
      <4> QED
        BY <4>1, <4>2 DEF Goes
    <3> QED
      BY <3>1, <3>2
  <2>2. CASE br.state # "OPEN"
    BY <2>2, <1>1 DEF Inv, Cooled
  <2>3. CASE br.state = "OPEN"
    <3>1. br.age >= Cooldown(br)
      BY <2>1, <2>3, <1>1 DEF Refresh, ProbesLost
    <3>2. /\ sinceOpen >= br.age /\ sinceOpen \in Int /\ br.age \in Int
          /\ br \in Breaker
      BY <2>3, <1>1, Bounds DEF Inv, Cooled, TypeOK, Breaker
    <3>3. Cooldown(br) \in Int /\ Cooldown(br) \in Cooldowns
      BY <3>2, CooldownType
    <3> QED
      BY <3>1, <3>2, <3>3
  <2> QED
    BY <2>2, <2>3
<1> QED
  BY <1>1, Invariance, PTL DEF Spec, NoCallInCooldown
=============================================================================
