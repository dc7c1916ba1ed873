------------------------ MODULE ChatAdmissionProofs ------------------------
(***************************************************************************)
(* Machine-checked proofs about ChatAdmission and the gates it is built    *)
(* from (FairGate), for any requests, sessions, sizes and limits.          *)
(***************************************************************************)
EXTENDS ChatAdmission, QueueLemmas

-----------------------------------------------------------------------------
(* A gate of FairGate at which the requests W are parked.                  *)

GateType == [used : Int, keys : Seq(Session), cursor : Nat, queue : [Session -> Seq(Request)]]

Parking(g, W) ==
    /\ g \in GateType
    /\ NoRepeats(g.keys) /\ ToSet(g.keys) = {s \in Session : g.queue[s] # <<>>}
    /\ g.keys = <<>> => g.cursor = 0
    /\ \A s \in Session :
         /\ NoRepeats(g.queue[s])
         /\ ToSet(g.queue[s]) = {r \in W : SessionOf[r] = s}

LEMMA ParkingIsTidy ==
    ASSUME NEW g, NEW W \in SUBSET Request, Parking(g, W)
    PROVE  Tidy(g) /\ Waiters(g) = W
<1>1. /\ g.keys \in Seq(Session) /\ g.cursor \in Nat
      /\ \A s \in Session : g.queue[s] \in Seq(Request)
  BY DEF Parking, GateType
<1>2. /\ IsInjective(g.keys) /\ Range(g.keys) = ToSet(g.keys)
      /\ \A s \in Session : IsInjective(g.queue[s]) /\ Range(g.queue[s]) = ToSet(g.queue[s])
  BY <1>1, InjectiveQueue DEF Parking
<1>3. Tidy(g)
  BY <1>1, <1>2 DEF Tidy, Parking
<1>4. \A s \in Session : Range(g.queue[s]) = {r \in W : SessionOf[r] = s}
  BY <1>2 DEF Parking
<1>5. \A r \in W : SessionOf[r] \in Session
  BY ChatAdmissionAssumption
<1>6. Waiters(g) = W
  BY <1>4, <1>5 DEF Waiters
<1> QED BY <1>3, <1>6

\* The gate in which nothing but the count of what is used may differ.
LEMMA ParkingUsed ==
    ASSUME NEW g, NEW W, Parking(g, W), NEW n \in Int
    PROVE  /\ Parking(Freed(g, n), W) /\ Freed(g, n).used = g.used - n
           /\ Parking(Taken(g, n), W) /\ Taken(g, n).used = g.used + n
<1>1. g \in GateType /\ g.used \in Int
  BY DEF Parking, GateType
<1>2. g.used - n \in Int /\ g.used + n \in Int
  BY <1>1
<1>3. ASSUME NEW m \in Int, NEW h, h = [g EXCEPT !.used = m] PROVE Parking(h, W) /\ h.used = m
  <2>1. /\ h \in GateType /\ h.used = m /\ h.keys = g.keys /\ h.cursor = g.cursor
        /\ h.queue = g.queue
    BY <1>1, <1>3 DEF GateType
  <2> QED BY <2>1 DEF Parking
<1>4. Freed(g, n) = [g EXCEPT !.used = g.used - n] /\ Taken(g, n) = [g EXCEPT !.used = g.used + n]
  BY DEF Freed, Taken
<1> QED BY <1>2, <1>3, <1>4

LEMMA QueueReplaced ==
    ASSUME NEW g, NEW W \in SUBSET Request, Parking(g, W), NEW s \in ToSet(g.keys),
           NEW q \in Seq(Request), NoRepeats(q), NEW V \in SUBSET W,
           ToSet(q) = {r \in V : SessionOf[r] = s}, \A r \in W \ V : SessionOf[r] = s
    PROVE  Parking(WithQueue(g, s, q), V) /\ WithQueue(g, s, q).used = g.used
<1> DEFINE h == [g EXCEPT !.queue[s] = q]
<1>1. /\ s \in Session /\ g \in GateType
      /\ g.keys \in Seq(Session) /\ NoRepeats(g.keys) /\ g.cursor \in Nat
  BY DEF Parking, GateType
<1>2. /\ h \in GateType /\ h.used = g.used /\ h.keys = g.keys /\ h.cursor = g.cursor
      /\ \A x \in Session : h.queue[x] = IF x = s THEN q ELSE g.queue[x]
  BY <1>1 DEF GateType
<1> HIDE DEF h
<1>3. \A x \in Session : /\ NoRepeats(h.queue[x])
                         /\ ToSet(h.queue[x]) = {r \in V : SessionOf[r] = x}
  <2> SUFFICES ASSUME NEW x \in Session
               PROVE  NoRepeats(h.queue[x]) /\ ToSet(h.queue[x]) = {r \in V : SessionOf[r] = x}
    OBVIOUS
  <2>1. CASE x = s
    BY <1>2, <2>1
  <2>2. CASE x # s
    <3>1. {r \in V : SessionOf[r] = x} = {r \in W : SessionOf[r] = x}
      BY <2>2
    <3> QED BY <1>2, <2>2, <3>1 DEF Parking
  <2> QED BY <2>1, <2>2
<1>4. CASE q # <<>>
  <2>1. WithQueue(g, s, q) = h
    BY <1>4 DEF WithQueue, h
  <2>2. ToSet(h.keys) = {x \in Session : h.queue[x] # <<>>}
    BY <1>1, <1>2, <1>4 DEF Parking
  <2>3. h.keys # <<>>
    BY <1>2, NothingQueued
  <2> QED BY <1>1, <1>2, <1>3, <2>1, <2>2, <2>3 DEF Parking
<1>5. CASE q = <<>>
  <2> DEFINE index == CHOOSE i \in 0..(Len(h.keys) - 1) : h.keys[i + 1] = s
             keys == Without(h.keys, s)
             cursor == IF keys = <<>> THEN 0 ELSE IF index < h.cursor THEN h.cursor - 1 ELSE h.cursor
             new == [h EXCEPT !.keys = keys, !.cursor = cursor]
  <2>1. WithQueue(g, s, q) = new
    BY <1>5 DEF WithQueue, WithoutKey, h
  <2>2. /\ keys \in Seq(Session) /\ NoRepeats(keys) /\ ToSet(keys) = ToSet(g.keys) \ {s}
    BY <1>1, <1>2, WithoutProperties
  <2>3. index \in 0..(Len(h.keys) - 1)
    <3>1. \E i \in 0..(Len(h.keys) - 1) : h.keys[i + 1] = s
      <4>1. h.keys \in Seq(Session) /\ s \in ToSet(h.keys)
        BY <1>1, <1>2
      <4>2. PICK j \in DOMAIN h.keys : h.keys[j] = s
        BY <4>1 DEF ToSet
      <4>3. DOMAIN h.keys = 1..Len(h.keys) /\ Len(h.keys) \in Nat
        BY <4>1, LenProperties
      <4>4. j - 1 \in 0..(Len(h.keys) - 1) /\ h.keys[(j - 1) + 1] = s
        BY <4>2, <4>3
      <4> QED BY <4>4
    <3> QED BY <3>1
  <2>4. cursor \in Nat /\ (keys = <<>> => cursor = 0)
    <3>1. h.cursor \in Nat /\ Len(h.keys) \in Nat
      BY <1>1, <1>2, LenProperties
    <3> HIDE DEF index, keys
    <3> QED BY <2>3, <3>1
  <2> HIDE DEF keys, cursor
  <2>5. /\ new \in GateType /\ new.used = g.used /\ new.keys = keys /\ new.cursor = cursor
        /\ new.queue = h.queue
    BY <1>2, <2>2, <2>4 DEF GateType
  <2>6. ToSet(keys) = {x \in Session : h.queue[x] # <<>>}
    BY <1>2, <1>5, <2>2 DEF Parking
  <2> HIDE DEF new
  <2> QED BY <1>3, <2>1, <2>2, <2>4, <2>5, <2>6 DEF Parking
<1> QED BY <1>4, <1>5

LEMMA ParkedParks ==
    ASSUME NEW g, NEW W \in SUBSET Request, Parking(g, W), NEW r \in Request, r \notin W
    PROVE  /\ Parking(Parked(g, SessionOf[r], r), W \cup {r})
           /\ Parked(g, SessionOf[r], r).used = g.used
<1> DEFINE s == SessionOf[r]
           keys == IF g.queue[s] = <<>> THEN Append(g.keys, s) ELSE g.keys
           line == Append(g.queue[s], r)
           new == [g EXCEPT !.keys = keys, !.queue[s] = line]
<1>1. Parked(g, s, r) = new
  BY DEF Parked
<1>2. /\ s \in Session /\ g \in GateType /\ g.keys \in Seq(Session) /\ g.queue[s] \in Seq(Request)
      /\ NoRepeats(g.keys) /\ NoRepeats(g.queue[s])
      /\ ToSet(g.keys) = {x \in Session : g.queue[x] # <<>>}
      /\ ToSet(g.queue[s]) = {x \in W : SessionOf[x] = s}
  BY ChatAdmissionAssumption DEF Parking, GateType
<1> HIDE DEF s
<1>3. /\ line \in Seq(Request) /\ NoRepeats(line) /\ ToSet(line) = ToSet(g.queue[s]) \cup {r}
  <2>1. /\ line \in Seq(Request) /\ ToSet(line) = ToSet(g.queue[s]) \cup {r}
        /\ \A a, b : Precedes(line, a, b)
                        <=> Precedes(g.queue[s], a, b) \/ (a \in ToSet(g.queue[s]) /\ b = r)
    BY <1>2, AppendQueue
  <2>2. r \notin ToSet(g.queue[s])
    BY <1>2
  <2> QED BY <1>2, <2>1, <2>2 DEF NoRepeats
<1>4. /\ keys \in Seq(Session) /\ NoRepeats(keys) /\ ToSet(keys) = ToSet(g.keys) \cup {s}
  <2>1. CASE g.queue[s] = <<>>
    <3>1. /\ Append(g.keys, s) \in Seq(Session)
          /\ ToSet(Append(g.keys, s)) = ToSet(g.keys) \cup {s}
          /\ \A a, b : Precedes(Append(g.keys, s), a, b)
                          <=> Precedes(g.keys, a, b) \/ (a \in ToSet(g.keys) /\ b = s)
      BY <1>2, AppendQueue
    <3>2. s \notin ToSet(g.keys)
      BY <1>2, <2>1
    <3> QED BY <1>2, <2>1, <3>1, <3>2 DEF NoRepeats
  <2>2. CASE g.queue[s] # <<>>
    BY <1>2, <2>2
  <2> QED BY <2>1, <2>2
<1> HIDE DEF keys, line
<1>5. /\ new \in GateType /\ new.used = g.used /\ new.keys = keys /\ new.cursor = g.cursor
      /\ \A x \in Session : new.queue[x] = IF x = s THEN line ELSE g.queue[x]
  BY <1>2, <1>3, <1>4 DEF GateType
<1> HIDE DEF new
<1>6. keys # <<>> /\ line # <<>>
  BY <1>3, <1>4, NothingQueued
<1>7. ToSet(keys) = {x \in Session : new.queue[x] # <<>>}
  BY <1>2, <1>4, <1>5, <1>6
<1>8. \A x \in Session : /\ NoRepeats(new.queue[x])
                         /\ ToSet(new.queue[x]) = {y \in W \cup {r} : SessionOf[y] = x}
  <2> SUFFICES ASSUME NEW x \in Session
               PROVE  /\ NoRepeats(new.queue[x])
                      /\ ToSet(new.queue[x]) = {y \in W \cup {r} : SessionOf[y] = x}
    OBVIOUS
  <2>1. CASE x = s
    BY <1>2, <1>3, <1>5, <2>1 DEF s
  <2>2. CASE x # s
    <3>1. {y \in W \cup {r} : SessionOf[y] = x} = {y \in W : SessionOf[y] = x}
      BY <2>2 DEF s
    <3> QED BY <1>5, <2>2, <3>1 DEF Parking
  <2> QED BY <2>1, <2>2
<1>9. Parking(new, W \cup {r})
  BY <1>4, <1>5, <1>6, <1>7, <1>8 DEF Parking
<1> QED BY <1>1, <1>5, <1>9 DEF s

LEMMA UnparkedParks ==
    ASSUME NEW g, NEW W \in SUBSET Request, Parking(g, W), NEW r \in W
    PROVE  /\ Parking(Unparked(g, SessionOf[r], r), W \ {r})
           /\ Unparked(g, SessionOf[r], r).used = g.used
<1> DEFINE s == SessionOf[r]
           q == Without(g.queue[s], r)
<1>1. /\ s \in Session /\ g.queue[s] \in Seq(Request) /\ NoRepeats(g.queue[s])
      /\ ToSet(g.queue[s]) = {x \in W : SessionOf[x] = s}
      /\ ToSet(g.keys) = {x \in Session : g.queue[x] # <<>>}
  BY ChatAdmissionAssumption DEF Parking, GateType
<1>2. r \in ToSet(g.queue[s])
  BY <1>1
<1>3. /\ q \in Seq(Request) /\ NoRepeats(q) /\ ToSet(q) = ToSet(g.queue[s]) \ {r}
  BY <1>1, WithoutProperties
<1>4. Unparked(g, s, r) = WithQueue(g, s, q)
  <2>1. r \in Range(g.queue[s])
    BY <1>1, <1>2, InjectiveQueue
  <2> QED BY <2>1 DEF Unparked
<1> HIDE DEF q
<1>5. s \in ToSet(g.keys)
  <2>1. g.queue[s] # <<>>
    BY <1>2, NothingQueued
  <2> QED BY <1>1, <2>1
<1>6. ToSet(q) = {x \in W \ {r} : SessionOf[x] = s} /\ \A x \in W \ (W \ {r}) : SessionOf[x] = s
  BY <1>1, <1>3
<1> HIDE DEF s
<1>7. Parking(WithQueue(g, s, q), W \ {r}) /\ WithQueue(g, s, q).used = g.used
  <2> DEFINE V == W \ {r}
  <2>1. V \in SUBSET W /\ ToSet(q) = {x \in V : SessionOf[x] = s} /\ \A x \in W \ V : SessionOf[x] = s
    BY <1>6
  <2> HIDE DEF V
  <2>2. Parking(WithQueue(g, s, q), V) /\ WithQueue(g, s, q).used = g.used
    BY <1>3, <1>5, <2>1, QueueReplaced
  <2> QED BY <2>2 DEF V
<1> QED BY <1>4, <1>7 DEF s

\* Whom a dispatch wakes: one of those parked, if there are any.
LEMMA DispatchedParks ==
    ASSUME NEW g, NEW W \in SUBSET Request, Parking(g, W)
    PROVE  /\ Parking(Dispatched(g), W \ Called(g)) /\ Dispatched(g).used = g.used
           /\ Called(g) \subseteq W
           /\ W # {} => \E x \in W : Called(g) = {x}
<1>1. /\ g \in GateType /\ g.keys \in Seq(Session) /\ g.cursor \in Nat
      /\ ToSet(g.keys) = {x \in Session : g.queue[x] # <<>>}
      /\ \A s \in Session : g.queue[s] \in Seq(Request)
  BY DEF Parking, GateType
<1>2. CASE g.keys = <<>>
  <2>1. Dispatched(g) = g /\ Called(g) = {}
    BY <1>2 DEF Dispatched, Called
  <2>2. W = {}
    <3>1. ToSet(g.keys) = {}
      BY <1>2, NothingQueued
    <3>2. \A r \in W : g.queue[SessionOf[r]] = <<>> /\ SessionOf[r] \in Session
      BY <1>1, <3>1, ChatAdmissionAssumption
    <3> QED BY <3>2, NothingQueued DEF Parking
  <2>3. W \ {} = W
    OBVIOUS
  <2> QED BY <2>1, <2>2, <2>3
<1>3. CASE g.keys # <<>>
  <2> DEFINE N == Len(g.keys)
             s == Turn(g)
             q == g.queue[s]
             turn == g.cursor + 1
             h == [g EXCEPT !.cursor = turn]
  <2>1. s \in ToSet(g.keys) /\ s \in Session
    <3>1. N \in Nat \ {0} /\ DOMAIN g.keys = 1..N
      BY <1>1, <1>3, LenProperties, EmptySeq
    <3>2. (g.cursor % N) + 1 \in 1..N
      <4> HIDE DEF N
      <4> QED BY <1>1, <3>1
    <3> QED BY <1>1, <3>1, <3>2 DEF Turn, ToSet
  <2> HIDE DEF s
  <2>2. /\ q \in Seq(Request) /\ q # <<>> /\ NoRepeats(q)
        /\ ToSet(q) = {r \in W : SessionOf[r] = s}
    BY <1>1, <2>1 DEF Parking
  <2>3. Head(q) \in ToSet(q)
    BY <2>2, HeadPrecedes
  <2>4. Tail(q) \in Seq(Request) /\ NoRepeats(Tail(q)) /\ ToSet(Tail(q)) = ToSet(q) \ {Head(q)}
    BY <2>2, TailProperties
  <2>5. Called(g) = {Head(q)} /\ Dispatched(g) = WithQueue(h, s, Tail(q))
    BY <1>3 DEF Called, Dispatched, s
  <2>6. Parking(h, W) /\ h.used = g.used /\ h.keys = g.keys
    <3>1. turn \in Nat
      BY <1>1
    <3> HIDE DEF turn
    <3>2. /\ h \in GateType /\ h.used = g.used /\ h.keys = g.keys /\ h.queue = g.queue
      BY <1>1, <3>1 DEF GateType
    <3> HIDE DEF h
    <3> QED BY <1>3, <3>2 DEF Parking
  <2> HIDE DEF h, q
  <2> DEFINE rest == Tail(q)
             V == W \ {Head(q)}
  <2>7. /\ s \in ToSet(h.keys) /\ rest \in Seq(Request) /\ NoRepeats(rest)
        /\ V \in SUBSET W /\ ToSet(rest) = {r \in V : SessionOf[r] = s}
        /\ \A r \in W \ V : SessionOf[r] = s
    BY <2>1, <2>2, <2>3, <2>4, <2>6
  <2> HIDE DEF V, rest
  <2>8. Parking(WithQueue(h, s, rest), V) /\ WithQueue(h, s, rest).used = h.used
    BY <2>6, <2>7, QueueReplaced
  <2>9. Called(g) \subseteq W /\ \E x \in W : Called(g) = {x}
    BY <2>2, <2>3, <2>5
  <2> QED BY <2>5, <2>6, <2>8, <2>9 DEF V, rest
<1> QED BY <1>2, <1>3

-----------------------------------------------------------------------------
(* What is counted with Total.                                             *)

LEMMA RequestUnits ==
    ASSUME NEW amount \in [Request -> Nat]
    PROVE  IsFiniteSet(UNION {{r} \X (1..amount[r]) : r \in Request})
BY ChatAdmissionAssumption, UnitsFinite

\* One request's amount is replaced.
LEMMA TotalUpdate ==
    ASSUME NEW amount \in [Request -> Nat], NEW r \in Request, NEW n \in Nat
    PROVE  /\ Total(amount) \in Nat /\ amount[r] <= Total(amount)
           /\ Total([amount EXCEPT ![r] = n]) = Total(amount) - amount[r] + n
<1> DEFINE Units(a) == UNION {{x} \X (1..a[x]) : x \in Request}
           Rest == {p \in Units(amount) : p[1] # r}
           Own(k) == {r} \X (1..k)
           m == amount[r]
           new == [amount EXCEPT ![r] = n]
<1>1. new \in [Request -> Nat] /\ new[r] = n /\ \A x \in Request \ {r} : new[x] = amount[x]
  OBVIOUS
<1>2. Units(amount) = Rest \cup Own(m) /\ Units(new) = Rest \cup Own(n)
  <2>1. \A p \in Units(amount) : p \in Rest \/ p \in Own(m)
    OBVIOUS
  <2>2. Rest \subseteq Units(amount) /\ Own(m) \subseteq Units(amount)
    OBVIOUS
  <2> HIDE DEF new
  <2>3. \A p \in Units(new) : p \in Rest \/ p \in Own(n)
    BY <1>1
  <2>4. Rest \subseteq Units(new) /\ Own(n) \subseteq Units(new)
    BY <1>1
  <2> HIDE DEF Rest, Own, Units
  <2> QED BY <2>1, <2>2, <2>3, <2>4
<1>3. \A k : Rest \cap Own(k) = {}
  OBVIOUS
<1>4. IsFiniteSet(Units(amount)) /\ Rest \subseteq Units(amount)
  BY RequestUnits
<1>5. ASSUME NEW k \in Nat PROVE IsFiniteSet(Own(k)) /\ Cardinality(Own(k)) = k
  BY UnitsOf
<1>6. Total(amount) = Cardinality(Units(amount)) /\ Total(new) = Cardinality(Units(new))
  BY DEF Total
<1>7. m \in Nat
  OBVIOUS
<1> HIDE DEF Rest, Own, Units, m
<1>8. IsFiniteSet(Rest) /\ Cardinality(Rest) \in Nat
  BY <1>4, FS_Subset, FS_CardinalityType
<1>9. ASSUME NEW k \in Nat PROVE Cardinality(Rest \cup Own(k)) = Cardinality(Rest) + k
  <2>1. Cardinality(Rest \cup Own(k)) = Cardinality(Rest) + Cardinality(Own(k)) - Cardinality(Rest \cap Own(k))
    BY <1>5, <1>8, FS_Union
  <2>2. Rest \cap Own(k) = {} /\ Cardinality({}) = 0
    BY <1>3, FS_EmptySet
  <2> DEFINE c == Cardinality(Rest)
  <2>3. c + k - 0 = c + k
    BY <1>8
  <2> QED BY <1>5, <2>1, <2>2, <2>3
<1> HIDE DEF new
<1>10. Total(amount) = Cardinality(Rest) + m /\ Total(new) = Cardinality(Rest) + n
  BY <1>2, <1>6, <1>7, <1>9
<1>11. /\ Total(amount) \in Nat /\ m <= Total(amount) /\ Total(new) = Total(amount) - m + n
  BY <1>7, <1>8, <1>10
<1> QED BY <1>11 DEF new, m

LEMMA TotalOfNothing == Total([r \in Request |-> 0]) = 0
<1>1. \A r \in Request : {r} \X (1..[x \in Request |-> 0][r]) = {}
  OBVIOUS
<1>2. UNION {{r} \X (1..[x \in Request |-> 0][r]) : r \in Request} = {}
  BY <1>1
<1> QED BY <1>2, FS_EmptySet DEF Total

-----------------------------------------------------------------------------
(* The two gates with those parked at them, those called from them, and    *)
(* what is held.  The last parameter is one while a request that was       *)
(* called is in hand and has not yet tried again.                          *)

SlotGate(g, line, woken, held, e) ==
    /\ Parking(g, line)
    /\ line \subseteq Request /\ woken \subseteq Request /\ held \subseteq Request
    /\ g.used = Cardinality(held) /\ g.used <= MaxHeavy
    /\ line # {} => g.used + Cardinality(woken) + e >= MaxHeavy

ByteGate(g, line, woken, amounts, e) ==
    /\ Parking(g, line)
    /\ line \subseteq Request /\ woken \subseteq Request /\ amounts \in [Request -> Nat]
    /\ g.used = Total(amounts) /\ g.used <= MaxBytes
    /\ line # {} => g.used > 0 \/ woken # {} \/ e = 1

\* The number of some of the requests, and what adding or removing one does.
LEMMA Counting ==
    ASSUME NEW S \in SUBSET Request
    PROVE  /\ Cardinality(S) \in Nat
           /\ \A r \in Request \ S : Cardinality(S \cup {r}) = Cardinality(S) + 1
           /\ \A r \in S : Cardinality(S \ {r}) = Cardinality(S) - 1
<1>1. IsFiniteSet(S)
  BY ChatAdmissionAssumption, FS_Subset
<1>2. Cardinality(S) \in Nat
  BY <1>1, FS_CardinalityType
<1>3. \A r \in Request \ S : Cardinality(S \cup {r}) = Cardinality(S) + 1
  BY <1>1, FS_AddElement
<1>4. \A r \in S : Cardinality(S \ {r}) = Cardinality(S) - 1
  BY <1>1, FS_RemoveElement
<1> QED BY <1>2, <1>3, <1>4

LEMMA Limits == MaxHeavy \in Nat /\ MaxHeavy >= 1 /\ MaxBytes \in Nat /\ MaxBytes >= 1
BY ChatAdmissionAssumption

LEMMA SlotTaken ==
    ASSUME NEW g, NEW line, NEW woken, NEW held, SlotGate(g, line, woken, held, 1),
           Fits(g, MaxHeavy, 1), NEW r \in Request \ held
    PROVE  SlotGate(Taken(g, 1), line, woken, held \cup {r}, 0)
<1>1. /\ Parking(g, line) /\ line \in SUBSET Request /\ woken \in SUBSET Request
      /\ held \in SUBSET Request /\ g.used = Cardinality(held)
      /\ line # {} => g.used + Cardinality(woken) + 1 >= MaxHeavy
  BY DEF SlotGate
<1>2. Parking(Taken(g, 1), line) /\ Taken(g, 1).used = g.used + 1
  BY <1>1, ParkingUsed
<1>3. /\ Cardinality(held \cup {r}) = g.used + 1 /\ g.used \in Nat /\ Cardinality(woken) \in Nat
      /\ g.used + 1 <= MaxHeavy
  BY <1>1, Counting DEF Fits
<1>4. Taken(g, 1).used <= MaxHeavy /\ Taken(g, 1).used = Cardinality(held \cup {r})
  BY <1>2, <1>3
<1>5. line # {} => Taken(g, 1).used + Cardinality(woken) + 0 >= MaxHeavy
  BY <1>1, <1>2, <1>3, Limits
<1> QED BY <1>1, <1>2, <1>4, <1>5 DEF SlotGate

\* While all slots are in use it does not matter that somebody is in hand.
LEMMA SlotRefused ==
    ASSUME NEW g, NEW line, NEW woken, NEW held, SlotGate(g, line, woken, held, 1),
           ~Fits(g, MaxHeavy, 1)
    PROVE  SlotGate(g, line, woken, held, 0) /\ g.used = MaxHeavy
<1>1. /\ held \in SUBSET Request /\ woken \in SUBSET Request
      /\ g.used = Cardinality(held) /\ g.used <= MaxHeavy
  BY DEF SlotGate
<1>2. g.used \in Nat /\ Cardinality(woken) \in Nat
  BY <1>1, Counting
<1>3. g.used = MaxHeavy /\ g.used + Cardinality(woken) + 0 >= MaxHeavy
  BY <1>1, <1>2, Limits DEF Fits
<1> QED BY <1>3 DEF SlotGate

LEMMA SlotParked ==
    ASSUME NEW g, NEW line, NEW woken, NEW held, SlotGate(g, line, woken, held, 1),
           ~Fits(g, MaxHeavy, 1), NEW r \in Request \ line
    PROVE  SlotGate(Parked(g, SessionOf[r], r), line \cup {r}, woken, held, 0)
<1>1. /\ Parking(g, line) /\ line \in SUBSET Request /\ woken \in SUBSET Request
      /\ held \in SUBSET Request /\ g.used = Cardinality(held)
  BY DEF SlotGate
<1>2. g.used = MaxHeavy
  BY SlotRefused
<1>3. /\ Parking(Parked(g, SessionOf[r], r), line \cup {r})
      /\ Parked(g, SessionOf[r], r).used = g.used
  BY <1>1, ParkedParks
<1>4. Cardinality(woken) \in Nat /\ g.used + Cardinality(woken) + 0 >= MaxHeavy
  BY <1>1, <1>2, Counting, Limits
<1> QED BY <1>1, <1>2, <1>3, <1>4, Limits DEF SlotGate

LEMMA SlotUnparked ==
    ASSUME NEW g, NEW line, NEW woken, NEW held, NEW e, SlotGate(g, line, woken, held, e), NEW r \in line
    PROVE  SlotGate(Unparked(g, SessionOf[r], r), line \ {r}, woken, held, e)
<1>1. Parking(g, line) /\ line \in SUBSET Request
  BY DEF SlotGate
<1>2. /\ Parking(Unparked(g, SessionOf[r], r), line \ {r})
      /\ Unparked(g, SessionOf[r], r).used = g.used
  BY <1>1, UnparkedParks
<1> QED BY <1>1, <1>2 DEF SlotGate

\* One of those called is taken in hand.
LEMMA SlotCalled ==
    ASSUME NEW g, NEW line, NEW woken, NEW held, SlotGate(g, line, woken, held, 0), NEW r \in Request
    PROVE  SlotGate(g, line, woken \ {r}, held, 1)
<1>1. woken \in SUBSET Request /\ held \in SUBSET Request /\ g.used = Cardinality(held)
  BY DEF SlotGate
<1>2. g.used \in Nat /\ Cardinality(woken) \in Nat
  BY <1>1, Counting
<1>3. Cardinality(woken \ {r}) \in Nat /\ Cardinality(woken \ {r}) >= Cardinality(woken) - 1
  <2>1. CASE r \in woken
    <3>1. woken \ {r} \in SUBSET Request
      BY <1>1
    <3> QED BY <1>1, <1>2, <2>1, <3>1, Counting
  <2>2. CASE r \notin woken
    <3>1. woken \ {r} = woken
      BY <2>2
    <3> QED BY <1>2, <3>1
  <2> QED BY <2>1, <2>2
<1>4. g.used + Cardinality(woken) + 0 >= MaxHeavy => g.used + Cardinality(woken \ {r}) + 1 >= MaxHeavy
  BY <1>2, <1>3, Limits
<1> QED BY <1>1, <1>4 DEF SlotGate

Apart(S, T) == S \cap T = {}

\* A slot is given back, and with it one of those parked is called.
LEMMA SlotFreedCalls ==
    ASSUME NEW g, NEW line, NEW woken, NEW held, NEW e \in Int, SlotGate(g, line, woken, held, e),
           Apart(line, woken), NEW r \in held
    PROVE  /\ Called(Freed(g, 1)) \subseteq line
           /\ SlotGate(Dispatched(Freed(g, 1)), line \ Called(Freed(g, 1)),
                       woken \cup Called(Freed(g, 1)), held \ {r}, e)
<1> DEFINE h == Freed(g, 1)
           c == Called(h)
<1>1. /\ Parking(g, line) /\ line \in SUBSET Request /\ woken \in SUBSET Request
      /\ held \in SUBSET Request /\ g.used = Cardinality(held) /\ g.used <= MaxHeavy
      /\ line # {} => g.used + Cardinality(woken) + e >= MaxHeavy
  BY DEF SlotGate
<1>2. Parking(h, line) /\ h.used = g.used - 1
  BY <1>1, ParkingUsed
<1>3. g.used \in Nat /\ Cardinality(woken) \in Nat /\ Cardinality(held \ {r}) = g.used - 1
  BY <1>1, Counting
<1> HIDE DEF h
<1>4. /\ Parking(Dispatched(h), line \ c) /\ Dispatched(h).used = h.used
      /\ c \subseteq line /\ (line # {} => \E x \in line : c = {x})
  BY <1>1, <1>2, DispatchedParks
<1>5. Dispatched(h).used = Cardinality(held \ {r}) /\ Dispatched(h).used <= MaxHeavy
  BY <1>1, <1>2, <1>3, <1>4, Limits
<1> HIDE DEF c
<1>6. ASSUME line \ c # {} PROVE Dispatched(h).used + Cardinality(woken \cup c) + e >= MaxHeavy
  <2>1. PICK x \in line : c = {x}
    BY <1>4, <1>6
  <2>2. Cardinality(woken \cup c) = Cardinality(woken) + 1
    BY <1>1, <2>1, Counting DEF Apart
  <2>3. g.used + Cardinality(woken) + e >= MaxHeavy
    BY <1>1, <2>1
  <2> QED BY <1>2, <1>3, <1>4, <2>2, <2>3, Limits
<1>7. SlotGate(Dispatched(h), line \ c, woken \cup c, held \ {r}, e)
  BY <1>1, <1>4, <1>5, <1>6 DEF SlotGate
<1> QED BY <1>4, <1>7 DEF h, c

LEMMA BytesTaken ==
    ASSUME NEW g, NEW line, NEW woken, NEW amounts, NEW e, ByteGate(g, line, woken, amounts, e),
           NEW n \in Nat \ {0}, Fits(g, MaxBytes, n), NEW r \in Request, amounts[r] = 0
    PROVE  ByteGate(Taken(g, n), line, woken, [amounts EXCEPT ![r] = n], 0)
<1> DEFINE new == [amounts EXCEPT ![r] = n]
<1>1. /\ Parking(g, line) /\ amounts \in [Request -> Nat] /\ g.used = Total(amounts)
      /\ g.used + n <= MaxBytes /\ n \in Int
  BY DEF ByteGate, Fits
<1>2. Parking(Taken(g, n), line) /\ Taken(g, n).used = g.used + n
  BY <1>1, ParkingUsed
<1>3. new \in [Request -> Nat] /\ Total(amounts) \in Nat /\ Total(new) = Total(amounts) - 0 + n
  BY <1>1, TotalUpdate
<1> HIDE DEF new
<1>4. Taken(g, n).used = Total(new) /\ Taken(g, n).used > 0 /\ Taken(g, n).used <= MaxBytes
  BY <1>1, <1>2, <1>3
<1>5. ByteGate(Taken(g, n), line, woken, new, 0)
  BY <1>2, <1>3, <1>4 DEF ByteGate
<1> QED BY <1>5 DEF new

\* While there is no room for n it does not matter that somebody is in hand.
LEMMA BytesRefused ==
    ASSUME NEW g, NEW line, NEW woken, NEW amounts, NEW e, ByteGate(g, line, woken, amounts, e),
           NEW n \in Nat, n <= MaxBytes, ~Fits(g, MaxBytes, n)
    PROVE  ByteGate(g, line, woken, amounts, 0) /\ g.used > 0
<1>1. amounts \in [Request -> Nat] /\ g.used = Total(amounts) /\ ~(g.used + n <= MaxBytes)
  BY DEF ByteGate, Fits
<1>2. g.used \in Nat
  BY <1>1, RequestUnits, FS_CardinalityType DEF Total
<1>3. g.used > 0
  BY <1>1, <1>2, Limits
<1> QED BY <1>3 DEF ByteGate

LEMMA BytesParked ==
    ASSUME NEW g, NEW line, NEW woken, NEW amounts, NEW e, ByteGate(g, line, woken, amounts, e),
           NEW n \in Nat, n <= MaxBytes, ~Fits(g, MaxBytes, n), NEW r \in Request \ line
    PROVE  ByteGate(Parked(g, SessionOf[r], r), line \cup {r}, woken, amounts, 0)
<1>1. Parking(g, line) /\ line \in SUBSET Request
  BY DEF ByteGate
<1>2. ByteGate(g, line, woken, amounts, 0) /\ g.used > 0
  BY BytesRefused
<1>3. /\ Parking(Parked(g, SessionOf[r], r), line \cup {r})
      /\ Parked(g, SessionOf[r], r).used = g.used
  BY <1>1, ParkedParks
<1> QED BY <1>1, <1>2, <1>3 DEF ByteGate

LEMMA BytesUnparked ==
    ASSUME NEW g, NEW line, NEW woken, NEW amounts, NEW e, ByteGate(g, line, woken, amounts, e), NEW r \in line
    PROVE  ByteGate(Unparked(g, SessionOf[r], r), line \ {r}, woken, amounts, e)
<1>1. Parking(g, line) /\ line \in SUBSET Request
  BY DEF ByteGate
<1>2. /\ Parking(Unparked(g, SessionOf[r], r), line \ {r})
      /\ Unparked(g, SessionOf[r], r).used = g.used
  BY <1>1, UnparkedParks
<1> QED BY <1>1, <1>2 DEF ByteGate

LEMMA BytesCalled ==
    ASSUME NEW g, NEW line, NEW woken, NEW amounts, ByteGate(g, line, woken, amounts, 0), NEW r
    PROVE  ByteGate(g, line, woken \ {r}, amounts, 1)
BY DEF ByteGate

\* Bytes are given back, and with them one of those parked is called.
LEMMA BytesFreedCalls ==
    ASSUME NEW g, NEW line, NEW woken, NEW amounts, NEW e, ByteGate(g, line, woken, amounts, e),
           NEW r \in Request, NEW n \in Nat, n = amounts[r]
    PROVE  /\ Called(Freed(g, n)) \subseteq line
           /\ ByteGate(Dispatched(Freed(g, n)), line \ Called(Freed(g, n)),
                       woken \cup Called(Freed(g, n)), [amounts EXCEPT ![r] = 0], e)
<1> DEFINE h == Freed(g, n)
           c == Called(h)
           new == [amounts EXCEPT ![r] = 0]
<1>1. /\ Parking(g, line) /\ line \in SUBSET Request /\ woken \in SUBSET Request
      /\ amounts \in [Request -> Nat] /\ g.used = Total(amounts) /\ g.used <= MaxBytes
      /\ n \in Int
  BY DEF ByteGate
<1>2. Parking(h, line) /\ h.used = g.used - n
  BY <1>1, ParkingUsed
<1>3. /\ new \in [Request -> Nat] /\ Total(amounts) \in Nat /\ Total(new) = Total(amounts) - n + 0
  BY <1>1, TotalUpdate
<1> HIDE DEF h, new
<1>4. /\ Parking(Dispatched(h), line \ c) /\ Dispatched(h).used = h.used
      /\ c \subseteq line /\ (line # {} => \E x \in line : c = {x})
  BY <1>1, <1>2, DispatchedParks
<1>5. Dispatched(h).used = Total(new) /\ Dispatched(h).used <= MaxBytes
  BY <1>1, <1>2, <1>3, <1>4, Limits
<1> HIDE DEF c
<1>6. ASSUME line \ c # {} PROVE woken \cup c # {}
  BY <1>4, <1>6
<1>7. ByteGate(Dispatched(h), line \ c, woken \cup c, new, e)
  BY <1>1, <1>3, <1>4, <1>5, <1>6 DEF ByteGate
<1> QED BY <1>4, <1>7 DEF h, c, new

-----------------------------------------------------------------------------
(* The books: what a turn of the event loop finds and leaves.              *)

HoldType == [slot : BOOLEAN, headroom : BOOLEAN, bytes : Nat]

BookType == [slots : GateType, bytes : GateType, queued : Int, healthy : Int,
             stage : [Request -> Stages], holds : [Request -> HoldType]]

CostType == [Request -> Nat \ {0}]

Staged(st, s) == {x \in Request : st[x] = s}
SlotHolders(ho) == {x \in Request : ho[x].slot}
HeadroomHolders(ho) == {x \in Request : ho[x].headroom}
BytesHeld(ho) == [x \in Request |-> ho[x].bytes]
QueuedFor(st, c) == [x \in Request |-> IF st[x] \in {"slot", "slotWoken"} THEN c[x] ELSE 0]

\* A request at stage s may have reserved h.
Proper(s, h) ==
    /\ ~(h.slot /\ h.headroom)
    /\ s \in {"new", "slot", "slotWoken", "done"} => h = Nothing
    /\ s \in {"budget", "bytes", "bytesWoken"} => h.bytes = 0 /\ (h.slot \/ h.headroom)

\* The books b are right, for requests that ask for c; e and d are one while
\* someone called to a slot, or to bytes, is in hand.
Right(b, c, e, d) ==
    /\ b \in BookType
    /\ SlotGate(b.slots, Staged(b.stage, "slot"), Staged(b.stage, "slotWoken"), SlotHolders(b.holds), e)
    /\ ByteGate(b.bytes, Staged(b.stage, "bytes"), Staged(b.stage, "bytesWoken"), BytesHeld(b.holds), d)
    /\ b.healthy = Cardinality(HeadroomHolders(b.holds)) /\ b.healthy <= Headroom
    /\ b.queued = Total(QueuedFor(b.stage, c)) /\ b.queued <= MaxQueued
    /\ \A x \in Request : Proper(b.stage[x], b.holds[x])
    /\ \A x \in Request : b.stage[x] \in {"bytes", "bytesWoken"} => c[x] <= MaxBytes

\* While r is in hand it is parked nowhere, whatever its stage says.
InHand(b, r, c, e, d) ==
    /\ b \in BookType
    /\ SlotGate(b.slots, Staged(b.stage, "slot") \ {r}, Staged(b.stage, "slotWoken") \ {r},
                SlotHolders(b.holds), e)
    /\ ByteGate(b.bytes, Staged(b.stage, "bytes") \ {r}, Staged(b.stage, "bytesWoken") \ {r},
                BytesHeld(b.holds), d)
    /\ b.healthy = Cardinality(HeadroomHolders(b.holds)) /\ b.healthy <= Headroom
    /\ b.queued = Total([QueuedFor(b.stage, c) EXCEPT ![r] = 0]) /\ b.queued <= MaxQueued
    /\ ~(b.holds[r].slot /\ b.holds[r].headroom)
    /\ \A x \in Request \ {r} : Proper(b.stage[x], b.holds[x])
    /\ \A x \in Request \ {r} : b.stage[x] \in {"bytes", "bytesWoken"} => c[x] <= MaxBytes

\* In new the request r is at stage s, and all others where they are in st.
Goes(new, st, r, s, c) ==
    /\ new \in [Request -> Stages] /\ new[r] = s /\ \A x \in Request \ {r} : new[x] = st[x]
    /\ \A t : Staged(new, t) = IF t = s THEN Staged(st, t) \cup {r} ELSE Staged(st, t) \ {r}
    /\ QueuedFor(st, c) \in [Request -> Nat]
    /\ QueuedFor(new, c) = [QueuedFor(st, c) EXCEPT ![r] = IF s \in {"slot", "slotWoken"} THEN c[r] ELSE 0]

LEMMA Restaged ==
    ASSUME NEW st \in [Request -> Stages], NEW r \in Request, NEW s \in Stages, NEW c \in CostType
    PROVE  Goes([st EXCEPT ![r] = s], st, r, s, c)
<1> DEFINE new == [st EXCEPT ![r] = s]
<1>1. new \in [Request -> Stages] /\ new[r] = s /\ \A x \in Request \ {r} : new[x] = st[x]
  OBVIOUS
<1> HIDE DEF new
<1>2. ASSUME NEW t PROVE Staged(new, t) = IF t = s THEN Staged(st, t) \cup {r} ELSE Staged(st, t) \ {r}
  BY <1>1 DEF Staged
<1>3. QueuedFor(st, c) \in [Request -> Nat] /\ QueuedFor(new, c) \in [Request -> Nat]
  <2>1. \A x \in Request : c[x] \in Nat
    BY DEF CostType
  <2> QED BY <2>1 DEF QueuedFor
<1> DEFINE f == QueuedFor(st, c)
           g == QueuedFor(new, c)
           n == IF s \in {"slot", "slotWoken"} THEN c[r] ELSE 0
<1>4. g[r] = n /\ \A x \in Request \ {r} : g[x] = f[x]
  BY <1>1 DEF QueuedFor
<1> HIDE DEF f, g, n
<1>5. f \in [Request -> Nat] /\ g \in [Request -> Nat]
  BY <1>3 DEF f, g
<1>6. g = [f EXCEPT ![r] = n]
  BY <1>4, <1>5
<1>7. Goes(new, st, r, s, c)
  BY <1>1, <1>2, <1>3, <1>6 DEF Goes, f, g, n
<1> QED BY <1>7 DEF new

\* Those called go from one stage to another.
Go(new, st, w, s, t) ==
    /\ new \in [Request -> Stages] /\ \A x \in Request \ w : new[x] = st[x]
    /\ \A x \in w : new[x] = t /\ st[x] = s
    /\ Staged(new, s) = Staged(st, s) \ w /\ Staged(new, t) = Staged(st, t) \cup w
    /\ \A u : u # s /\ u # t => Staged(new, u) = Staged(st, u)

LEMMA RestagedCalled ==
    ASSUME NEW st \in [Request -> Stages], NEW s, NEW t \in Stages, s # t, NEW w, w \subseteq Staged(st, s)
    PROVE  Go([x \in Request |-> IF x \in w THEN t ELSE st[x]], st, w, s, t)
BY DEF Staged, Go

\* r holds h in new, and all others what they hold in ho.
Reholds(new, ho, r, h) ==
    /\ new \in [Request -> HoldType] /\ new[r] = h /\ \A x \in Request \ {r} : new[x] = ho[x]
    /\ SlotHolders(new) = IF h.slot THEN SlotHolders(ho) \cup {r} ELSE SlotHolders(ho) \ {r}
    /\ HeadroomHolders(new)
         = IF h.headroom THEN HeadroomHolders(ho) \cup {r} ELSE HeadroomHolders(ho) \ {r}
    /\ BytesHeld(new) = [BytesHeld(ho) EXCEPT ![r] = h.bytes]

LEMMA Reheld ==
    ASSUME NEW ho \in [Request -> HoldType], NEW r \in Request, NEW h \in HoldType
    PROVE  Reholds([ho EXCEPT ![r] = h], ho, r, h)
<1> DEFINE new == [ho EXCEPT ![r] = h]
<1>1. new \in [Request -> HoldType] /\ new[r] = h /\ \A x \in Request \ {r} : new[x] = ho[x]
  OBVIOUS
<1> HIDE DEF new
<1>2. SlotHolders(new) = IF h.slot THEN SlotHolders(ho) \cup {r} ELSE SlotHolders(ho) \ {r}
  BY <1>1 DEF SlotHolders
<1>3. HeadroomHolders(new)
        = IF h.headroom THEN HeadroomHolders(ho) \cup {r} ELSE HeadroomHolders(ho) \ {r}
  BY <1>1 DEF HeadroomHolders
<1>4. BytesHeld(new) = [BytesHeld(ho) EXCEPT ![r] = h.bytes]
  BY <1>1 DEF BytesHeld
<1>5. Reholds(new, ho, r, h)
  BY <1>1, <1>2, <1>3, <1>4 DEF Reholds
<1> QED BY <1>5 DEF new

LEMMA HandStage ==
    ASSUME NEW b \in BookType, NEW r \in Request, NEW s \in Stages
    PROVE  /\ At(b, r, s) \in BookType
           /\ At(b, r, s).stage = [b.stage EXCEPT ![r] = s]
           /\ At(b, r, s).slots = b.slots /\ At(b, r, s).bytes = b.bytes
           /\ At(b, r, s).queued = b.queued /\ At(b, r, s).healthy = b.healthy
           /\ At(b, r, s).holds = b.holds
<1> DEFINE st == [b.stage EXCEPT ![r] = s]
<1>1. At(b, r, s) = [b EXCEPT !.stage = st]
  BY DEF At
<1>2. st \in [Request -> Stages]
  BY DEF BookType
<1> HIDE DEF st
<1>3. [b EXCEPT !.stage = st] \in BookType
  BY <1>2 DEF BookType
<1> QED BY <1>1, <1>3 DEF BookType, st

\* r leaves the hand for a stage where it does not wait to be called.
LEMMA Placed ==
    ASSUME NEW b, NEW r \in Request, NEW c \in CostType, InHand(b, r, c, 0, 0),
           NEW s \in Stages \ {"slot", "slotWoken", "bytes", "bytesWoken"}, Proper(s, b.holds[r])
    PROVE  Right(At(b, r, s), c, 0, 0)
<1> DEFINE o == At(b, r, s)
<1>1. b \in BookType /\ b.stage \in [Request -> Stages]
  BY DEF InHand, BookType
<1>2. /\ o \in BookType /\ o.stage = [b.stage EXCEPT ![r] = s]
      /\ o.slots = b.slots /\ o.bytes = b.bytes /\ o.queued = b.queued /\ o.healthy = b.healthy
      /\ o.holds = b.holds
  BY <1>1, HandStage
<1> HIDE DEF o
<1>3. /\ o.stage[r] = s /\ \A x \in Request \ {r} : o.stage[x] = b.stage[x]
      /\ \A t : t # s => Staged(o.stage, t) = Staged(b.stage, t) \ {r}
      /\ QueuedFor(o.stage, c) = [QueuedFor(b.stage, c) EXCEPT ![r] = 0]
  <2>1. Goes(o.stage, b.stage, r, s, c)
    BY <1>1, <1>2, Restaged
  <2> QED BY <2>1 DEF Goes
<1>4. /\ SlotGate(o.slots, Staged(o.stage, "slot"), Staged(o.stage, "slotWoken"), SlotHolders(o.holds), 0)
      /\ ByteGate(o.bytes, Staged(o.stage, "bytes"), Staged(o.stage, "bytesWoken"), BytesHeld(o.holds), 0)
  BY <1>2, <1>3 DEF InHand
<1>5. \A x \in Request : /\ Proper(o.stage[x], o.holds[x])
                         /\ o.stage[x] \in {"bytes", "bytesWoken"} => c[x] <= MaxBytes
  BY <1>2, <1>3 DEF InHand
<1>6. Right(o, c, 0, 0)
  BY <1>2, <1>3, <1>4, <1>5 DEF Right, InHand
<1> QED BY <1>6 DEF o

\* What a request holds right after it took a slot, or headroom.
SlotOnly == [Nothing EXCEPT !.slot = TRUE]
HeadroomOnly == [Nothing EXCEPT !.headroom = TRUE]

LEMMA SlotBooked ==
    ASSUME NEW b, NEW r \in Request, NEW c, NEW d, InHand(b, r, c, 1, d),
           b.holds[r] = Nothing, Fits(b.slots, MaxHeavy, 1)
    PROVE  /\ InHand(TakeSlot(b, r), r, c, 0, d)
           /\ TakeSlot(b, r).holds[r] = SlotOnly
           /\ TakeSlot(b, r).bytes = b.bytes /\ TakeSlot(b, r).stage = b.stage
           /\ TakeSlot(b, r).slots = Taken(b.slots, 1)
<1> DEFINE o == TakeSlot(b, r)
           h == SlotOnly
           ho == [b.holds EXCEPT ![r] = h]
           g == Taken(b.slots, 1)
<1>1. b \in BookType /\ b.holds \in [Request -> HoldType]
  BY DEF InHand, BookType
<1>2. h \in HoldType /\ h.slot = TRUE /\ h.headroom = FALSE /\ h.bytes = 0
  BY DEF SlotOnly, HeadroomOnly, Nothing, HoldType
<1>3. o = [b EXCEPT !.slots = g, !.holds = ho]
  BY DEF TakeSlot, SlotOnly
<1> HIDE DEF h
<1>4. Reholds(ho, b.holds, r, h)
  BY <1>1, <1>2, Reheld
<1> HIDE DEF ho
<1>5. /\ ho \in [Request -> HoldType] /\ ho[r] = h /\ \A x \in Request \ {r} : ho[x] = b.holds[x]
      /\ SlotHolders(ho) = SlotHolders(b.holds) \cup {r}
      /\ HeadroomHolders(ho) = HeadroomHolders(b.holds) \ {r}
      /\ BytesHeld(ho) = [BytesHeld(b.holds) EXCEPT ![r] = 0]
  BY <1>2, <1>4 DEF Reholds
<1>6. HeadroomHolders(ho) = HeadroomHolders(b.holds) /\ BytesHeld(ho) = BytesHeld(b.holds)
      /\ r \notin SlotHolders(b.holds)
  BY <1>1, <1>5 DEF Nothing, HeadroomHolders, BytesHeld, SlotHolders
<1>7. SlotGate(g, Staged(b.stage, "slot") \ {r}, Staged(b.stage, "slotWoken") \ {r}, SlotHolders(ho), 0)
  <2>1. SlotGate(b.slots, Staged(b.stage, "slot") \ {r}, Staged(b.stage, "slotWoken") \ {r},
                 SlotHolders(b.holds), 1)
    BY DEF InHand
  <2>2. r \in Request \ SlotHolders(b.holds)
    BY <1>6
  <2> QED BY <1>5, <2>1, <2>2, SlotTaken
<1> HIDE DEF g
<1>8. /\ o \in BookType /\ o.slots = g /\ o.holds = ho /\ o.bytes = b.bytes /\ o.queued = b.queued
      /\ o.healthy = b.healthy /\ o.stage = b.stage
  <2>1. g \in GateType
    BY <1>7 DEF SlotGate, Parking
  <2> QED BY <1>1, <1>3, <1>5, <2>1 DEF BookType
<1> HIDE DEF o
<1>9. InHand(o, r, c, 0, d)
  <2>1. ~(ho[r].slot /\ ho[r].headroom)
    BY <1>2, <1>5
  <2> QED BY <1>5, <1>6, <1>7, <1>8, <2>1 DEF InHand
<1> QED BY <1>5, <1>8, <1>9 DEF o, g, h

LEMMA HeadroomBooked ==
    ASSUME NEW b, NEW r \in Request, NEW c, NEW e, NEW d, InHand(b, r, c, e, d),
           b.holds[r] = Nothing, b.healthy < Headroom
    PROVE  /\ InHand(TakeHeadroom(b, r), r, c, e, d)
           /\ TakeHeadroom(b, r).holds[r] = HeadroomOnly
           /\ TakeHeadroom(b, r).bytes = b.bytes
<1> DEFINE o == TakeHeadroom(b, r)
           h == HeadroomOnly
           ho == [b.holds EXCEPT ![r] = h]
           n == b.healthy + 1
<1>1. b \in BookType /\ b.holds \in [Request -> HoldType] /\ b.healthy \in Int
  BY DEF InHand, BookType
<1>2. h \in HoldType /\ h.headroom = TRUE /\ h.slot = FALSE /\ h.bytes = 0
  BY DEF SlotOnly, HeadroomOnly, Nothing, HoldType
<1>3. o = [b EXCEPT !.healthy = n, !.holds = ho]
  BY DEF TakeHeadroom, HeadroomOnly
<1> HIDE DEF h
<1>4. Reholds(ho, b.holds, r, h)
  BY <1>1, <1>2, Reheld
<1> HIDE DEF ho
<1>5. /\ ho \in [Request -> HoldType] /\ ho[r] = h /\ \A x \in Request \ {r} : ho[x] = b.holds[x]
      /\ SlotHolders(ho) = SlotHolders(b.holds) \ {r}
      /\ HeadroomHolders(ho) = HeadroomHolders(b.holds) \cup {r}
      /\ BytesHeld(ho) = [BytesHeld(b.holds) EXCEPT ![r] = 0]
  BY <1>2, <1>4 DEF Reholds
<1>6. SlotHolders(ho) = SlotHolders(b.holds) /\ BytesHeld(ho) = BytesHeld(b.holds)
      /\ r \notin HeadroomHolders(b.holds)
  BY <1>1, <1>5 DEF Nothing, HeadroomHolders, BytesHeld, SlotHolders
<1>7. n = Cardinality(HeadroomHolders(ho)) /\ n <= Headroom /\ n \in Int
  <2>1. b.healthy = Cardinality(HeadroomHolders(b.holds)) /\ HeadroomHolders(b.holds) \in SUBSET Request
    BY DEF InHand, HeadroomHolders
  <2>2. Cardinality(HeadroomHolders(b.holds) \cup {r}) = Cardinality(HeadroomHolders(b.holds)) + 1
    BY <1>6, <2>1, Counting
  <2>3. Headroom \in Int
    BY ChatAdmissionAssumption
  <2> QED BY <1>1, <1>5, <2>1, <2>2, <2>3
<1> HIDE DEF n
<1>8. /\ o \in BookType /\ o.slots = b.slots /\ o.holds = ho /\ o.bytes = b.bytes /\ o.queued = b.queued
      /\ o.healthy = n /\ o.stage = b.stage
  BY <1>1, <1>3, <1>5, <1>7 DEF BookType
<1> HIDE DEF o
<1>9. InHand(o, r, c, e, d)
  <2>1. ~(ho[r].slot /\ ho[r].headroom)
    BY <1>2, <1>5
  <2> QED BY <1>5, <1>6, <1>7, <1>8, <2>1 DEF InHand
<1> QED BY <1>5, <1>8, <1>9 DEF o, h

LEMMA BytesBooked ==
    ASSUME NEW b, NEW r \in Request, NEW c, NEW e, NEW d, InHand(b, r, c, e, d),
           b.holds[r].bytes = 0, NEW n \in Nat \ {0}, Fits(b.bytes, MaxBytes, n)
    PROVE  /\ InHand(TakeBytes(b, r, n), r, c, e, 0)
           /\ TakeBytes(b, r, n).holds[r].slot = b.holds[r].slot
           /\ TakeBytes(b, r, n).holds[r].headroom = b.holds[r].headroom
<1> DEFINE o == TakeBytes(b, r, n)
           h == [b.holds[r] EXCEPT !.bytes = n]
           ho == [b.holds EXCEPT ![r] = h]
           g == Taken(b.bytes, n)
<1>1. b \in BookType /\ b.holds \in [Request -> HoldType] /\ b.holds[r] \in HoldType
  BY DEF InHand, BookType
<1>2. h \in HoldType /\ h.slot = b.holds[r].slot /\ h.headroom = b.holds[r].headroom /\ h.bytes = n
  BY <1>1 DEF HoldType
<1>3. o = [b EXCEPT !.bytes = g, !.holds = ho]
  BY DEF TakeBytes
<1> HIDE DEF h
<1>4. Reholds(ho, b.holds, r, h)
  BY <1>1, <1>2, Reheld
<1> HIDE DEF ho
<1>5. /\ ho \in [Request -> HoldType] /\ ho[r] = h /\ \A x \in Request \ {r} : ho[x] = b.holds[x]
      /\ BytesHeld(ho) = [BytesHeld(b.holds) EXCEPT ![r] = n]
  BY <1>2, <1>4 DEF Reholds
<1>6. SlotHolders(ho) = SlotHolders(b.holds) /\ HeadroomHolders(ho) = HeadroomHolders(b.holds)
  BY <1>2, <1>5 DEF SlotHolders, HeadroomHolders
<1>7. ByteGate(g, Staged(b.stage, "bytes") \ {r}, Staged(b.stage, "bytesWoken") \ {r}, BytesHeld(ho), 0)
  <2>1. ByteGate(b.bytes, Staged(b.stage, "bytes") \ {r}, Staged(b.stage, "bytesWoken") \ {r},
                 BytesHeld(b.holds), d)
    BY DEF InHand
  <2>2. BytesHeld(b.holds)[r] = 0
    BY DEF BytesHeld
  <2> QED BY <1>5, <2>1, <2>2, BytesTaken
<1> HIDE DEF g
<1>8. /\ o \in BookType /\ o.slots = b.slots /\ o.holds = ho /\ o.bytes = g /\ o.queued = b.queued
      /\ o.healthy = b.healthy /\ o.stage = b.stage
  <2>1. g \in GateType
    BY <1>7 DEF ByteGate, Parking
  <2> QED BY <1>1, <1>3, <1>5, <2>1 DEF BookType
<1> HIDE DEF o
<1>9. InHand(o, r, c, e, 0)
  BY <1>2, <1>5, <1>6, <1>7, <1>8 DEF InHand
<1> QED BY <1>2, <1>5, <1>8, <1>9 DEF o

LEMMA ParkedForSlot ==
    ASSUME NEW b, NEW r \in Request, NEW c \in CostType, InHand(b, r, c, 1, 0),
           ~Fits(b.slots, MaxHeavy, 1), b.holds[r] = Nothing, NEW n, n = c[r], b.queued + n <= MaxQueued
    PROVE  Right([At(b, r, "slot") EXCEPT !.slots = Parked(@, SessionOf[r], r), !.queued = @ + n], c, 0, 0)
<1> DEFINE g == Parked(b.slots, SessionOf[r], r)
           st == [b.stage EXCEPT ![r] = "slot"]
           m == b.queued + n
           o == [At(b, r, "slot") EXCEPT !.slots = Parked(@, SessionOf[r], r), !.queued = @ + n]
           Line == Staged(b.stage, "slot") \ {r}
           Q == [QueuedFor(b.stage, c) EXCEPT ![r] = 0]
<1>1. b \in BookType /\ b.stage \in [Request -> Stages] /\ b.queued \in Int /\ n \in Nat
  BY DEF InHand, BookType, CostType
<1>2. At(b, r, "slot") = [b EXCEPT !.stage = st]
  BY DEF At
<1>3. [b EXCEPT !.stage = st].slots = b.slots /\ [b EXCEPT !.stage = st].queued = b.queued
  BY <1>1 DEF BookType
<1>4. o = [b EXCEPT !.stage = st, !.slots = g, !.queued = m]
  BY <1>1, <1>2, <1>3 DEF BookType
<1>5. /\ st \in [Request -> Stages] /\ st[r] = "slot" /\ \A x \in Request \ {r} : st[x] = b.stage[x]
      /\ Staged(st, "slot") = Staged(b.stage, "slot") \cup {r}
      /\ \A t : t # "slot" => Staged(st, t) = Staged(b.stage, t) \ {r}
      /\ QueuedFor(b.stage, c) \in [Request -> Nat]
      /\ QueuedFor(st, c) = [QueuedFor(b.stage, c) EXCEPT ![r] = n]
  <2>1. "slot" \in Stages
    BY DEF Stages, Waits
  <2>2. Goes(st, b.stage, r, "slot", c)
    BY <1>1, <2>1, Restaged
  <2> HIDE DEF st
  <2> QED BY <2>2 DEF Goes
<1>6. Q \in [Request -> Nat] /\ Q[r] = 0 /\ QueuedFor(st, c) = [Q EXCEPT ![r] = n]
  BY <1>5
<1>7. m = Total(QueuedFor(st, c)) /\ m <= MaxQueued /\ m \in Int
  <2>1. b.queued = Total(Q)
    BY DEF InHand
  <2> HIDE DEF Q
  <2>2. Total(Q) \in Nat /\ Total([Q EXCEPT ![r] = n]) = Total(Q) - 0 + n
    BY <1>1, <1>6, TotalUpdate
  <2> QED BY <1>1, <1>6, <2>1, <2>2
<1>8. SlotGate(g, Staged(st, "slot"), Staged(st, "slotWoken"), SlotHolders(b.holds), 0)
  <2>1. SlotGate(b.slots, Line, Staged(b.stage, "slotWoken") \ {r}, SlotHolders(b.holds), 1)
    BY DEF InHand
  <2>2. r \in Request \ Line /\ Staged(st, "slot") = Line \cup {r}
    BY <1>5
  <2> HIDE DEF Line, st
  <2>3. SlotGate(g, Line \cup {r}, Staged(b.stage, "slotWoken") \ {r}, SlotHolders(b.holds), 0)
    BY <2>1, <2>2, SlotParked
  <2> QED BY <1>5, <2>2, <2>3
<1> HIDE DEF g, st, m
<1>9. /\ o \in BookType /\ o.slots = g /\ o.holds = b.holds /\ o.bytes = b.bytes /\ o.queued = m
      /\ o.healthy = b.healthy /\ o.stage = st
  <2>1. g \in GateType
    BY <1>8 DEF SlotGate, Parking
  <2> HIDE DEF o
  <2> QED BY <1>1, <1>4, <1>5, <1>7, <2>1 DEF BookType
<1> HIDE DEF o
<1>10. \A x \in Request : /\ Proper(o.stage[x], o.holds[x])
                          /\ o.stage[x] \in {"bytes", "bytesWoken"} => c[x] <= MaxBytes
  <2>1. Proper("slot", Nothing)
    BY DEF Proper, Nothing
  <2> QED BY <1>5, <1>9, <2>1 DEF InHand
<1>11. ByteGate(o.bytes, Staged(o.stage, "bytes"), Staged(o.stage, "bytesWoken"), BytesHeld(o.holds), 0)
  BY <1>5, <1>9 DEF InHand
<1>12. Right(o, c, 0, 0)
  BY <1>7, <1>8, <1>9, <1>10, <1>11 DEF Right, InHand
<1> QED BY <1>12 DEF o

LEMMA ParkedForBytes ==
    ASSUME NEW b, NEW r \in Request, NEW c \in CostType, NEW d, InHand(b, r, c, 0, d),
           NEW n, n = c[r], ~Fits(b.bytes, MaxBytes, n), n <= MaxBytes, Proper("bytes", b.holds[r])
    PROVE  Right([At(b, r, "bytes") EXCEPT !.bytes = Parked(@, SessionOf[r], r)], c, 0, 0)
<1> DEFINE g == Parked(b.bytes, SessionOf[r], r)
           st == [b.stage EXCEPT ![r] = "bytes"]
           o == [At(b, r, "bytes") EXCEPT !.bytes = Parked(@, SessionOf[r], r)]
           Line == Staged(b.stage, "bytes") \ {r}
<1>1. b \in BookType /\ b.stage \in [Request -> Stages] /\ n \in Nat
  BY DEF InHand, BookType, CostType
<1>2. At(b, r, "bytes") = [b EXCEPT !.stage = st]
  BY DEF At
<1>3. [b EXCEPT !.stage = st].bytes = b.bytes
  BY <1>1 DEF BookType
<1>4. o = [b EXCEPT !.stage = st, !.bytes = g]
  BY <1>1, <1>2, <1>3 DEF BookType
<1>5. /\ st \in [Request -> Stages] /\ st[r] = "bytes" /\ \A x \in Request \ {r} : st[x] = b.stage[x]
      /\ Staged(st, "bytes") = Staged(b.stage, "bytes") \cup {r}
      /\ \A t : t # "bytes" => Staged(st, t) = Staged(b.stage, t) \ {r}
      /\ QueuedFor(st, c) = [QueuedFor(b.stage, c) EXCEPT ![r] = 0]
  <2>1. "bytes" \in Stages
    BY DEF Stages, Waits
  <2>2. Goes(st, b.stage, r, "bytes", c)
    BY <1>1, <2>1, Restaged
  <2> HIDE DEF st
  <2> QED BY <2>2 DEF Goes
<1>6. ByteGate(g, Staged(st, "bytes"), Staged(st, "bytesWoken"), BytesHeld(b.holds), 0)
  <2>1. ByteGate(b.bytes, Line, Staged(b.stage, "bytesWoken") \ {r}, BytesHeld(b.holds), d)
    BY DEF InHand
  <2>2. r \in Request \ Line /\ Staged(st, "bytes") = Line \cup {r}
    BY <1>5
  <2> HIDE DEF Line, st
  <2>3. ByteGate(g, Line \cup {r}, Staged(b.stage, "bytesWoken") \ {r}, BytesHeld(b.holds), 0)
    BY <1>1, <2>1, <2>2, BytesParked
  <2> QED BY <1>5, <2>2, <2>3
<1> HIDE DEF g, st
<1>7. /\ o \in BookType /\ o.slots = b.slots /\ o.holds = b.holds /\ o.bytes = g /\ o.queued = b.queued
      /\ o.healthy = b.healthy /\ o.stage = st
  <2>1. g \in GateType
    BY <1>6 DEF ByteGate, Parking
  <2> HIDE DEF o
  <2> QED BY <1>1, <1>4, <1>5, <2>1 DEF BookType
<1> HIDE DEF o
<1>8. \A x \in Request : /\ Proper(o.stage[x], o.holds[x])
                         /\ o.stage[x] \in {"bytes", "bytesWoken"} => c[x] <= MaxBytes
  BY <1>5, <1>7 DEF InHand
<1>9. SlotGate(o.slots, Staged(o.stage, "slot"), Staged(o.stage, "slotWoken"), SlotHolders(o.holds), 0)
  BY <1>5, <1>7 DEF InHand
<1>10. Right(o, c, 0, 0)
  BY <1>5, <1>6, <1>7, <1>8, <1>9 DEF Right, InHand
<1> QED BY <1>10 DEF o

\* What the release of a slot leaves alone, and what it does to the gate.
SlotGivenBack(o, b, c, held, e) ==
    /\ o \in BookType /\ o.holds = b.holds /\ o.bytes = b.bytes
    /\ o.queued = b.queued /\ o.healthy = b.healthy
    /\ SlotGate(o.slots, Staged(o.stage, "slot"), Staged(o.stage, "slotWoken"), held, e)
    /\ \A u : u \notin {"slot", "slotWoken"} => Staged(o.stage, u) = Staged(b.stage, u)
    /\ QueuedFor(o.stage, c) = QueuedFor(b.stage, c)
    /\ \A x \in Request : o.stage[x] = b.stage[x] \/ (b.stage[x] = "slot" /\ o.stage[x] = "slotWoken")

LEMMA SlotFreedBook ==
    ASSUME NEW b \in BookType, NEW c, NEW held, NEW r \in held, NEW e \in Int,
           SlotGate(b.slots, Staged(b.stage, "slot"), Staged(b.stage, "slotWoken"), held, e)
    PROVE  SlotGivenBack(SlotFreed(b), b, c, held \ {r}, e)
<1> DEFINE h == Freed(b.slots, 1)
           w == Called(h)
           g == Dispatched(h)
           st == [x \in Request |-> IF x \in w THEN "slotWoken" ELSE b.stage[x]]
           o == SlotFreed(b)
           Line == Staged(b.stage, "slot")
           Woken == Staged(b.stage, "slotWoken")
<1>1. b.stage \in [Request -> Stages]
  BY DEF BookType
<1>2. o = [b EXCEPT !.slots = g, !.stage = st]
  BY DEF SlotFreed
<1>3. Apart(Line, Woken)
  BY DEF Apart, Staged
<1>4. w \subseteq Line /\ SlotGate(g, Line \ w, Woken \cup w, held \ {r}, e)
  <2> HIDE DEF Line, Woken
  <2>1. SlotGate(b.slots, Line, Woken, held, e)
    BY DEF Line, Woken
  <2> QED BY <1>3, <2>1, SlotFreedCalls
<1> HIDE DEF h, w, g
<1>5. /\ st \in [Request -> Stages] /\ \A x \in Request \ w : st[x] = b.stage[x]
      /\ \A x \in w : st[x] = "slotWoken" /\ b.stage[x] = "slot"
      /\ Staged(st, "slot") = Line \ w /\ Staged(st, "slotWoken") = Woken \cup w
      /\ \A u : u # "slot" /\ u # "slotWoken" => Staged(st, u) = Staged(b.stage, u)
  <2>1. "slotWoken" \in Stages
    BY DEF Stages, Waits
  <2>2. Go(st, b.stage, w, "slot", "slotWoken")
    BY <1>1, <1>4, <2>1, RestagedCalled
  <2> HIDE DEF st
  <2> QED BY <2>2 DEF Go
<1> HIDE DEF st
<1>6. /\ o \in BookType /\ o.holds = b.holds /\ o.bytes = b.bytes /\ o.slots = g
      /\ o.queued = b.queued /\ o.healthy = b.healthy /\ o.stage = st
  <2>1. g \in GateType
    BY <1>4 DEF SlotGate, Parking
  <2> HIDE DEF o
  <2> QED BY <1>2, <1>5, <2>1 DEF BookType
<1> HIDE DEF o
<1>7. QueuedFor(st, c) = QueuedFor(b.stage, c)
  BY <1>1, <1>4, <1>5 DEF QueuedFor, Staged
<1>8. SlotGivenBack(o, b, c, held \ {r}, e)
  BY <1>4, <1>5, <1>6, <1>7 DEF SlotGivenBack
<1> QED BY <1>8 DEF o

\* The same for bytes.
BytesGivenBack(o, b, c, amounts, e) ==
    /\ o \in BookType /\ o.holds = b.holds /\ o.slots = b.slots
    /\ o.queued = b.queued /\ o.healthy = b.healthy
    /\ ByteGate(o.bytes, Staged(o.stage, "bytes"), Staged(o.stage, "bytesWoken"), amounts, e)
    /\ \A u : u \notin {"bytes", "bytesWoken"} => Staged(o.stage, u) = Staged(b.stage, u)
    /\ QueuedFor(o.stage, c) = QueuedFor(b.stage, c)
    /\ \A x \in Request : o.stage[x] = b.stage[x] \/ (b.stage[x] = "bytes" /\ o.stage[x] = "bytesWoken")

LEMMA BytesFreedBook ==
    ASSUME NEW b \in BookType, NEW c, NEW amounts, NEW r \in Request, NEW n \in Nat, n = amounts[r], NEW e,
           ByteGate(b.bytes, Staged(b.stage, "bytes"), Staged(b.stage, "bytesWoken"), amounts, e)
    PROVE  BytesGivenBack(BytesFreed(b, n), b, c, [amounts EXCEPT ![r] = 0], e)
<1> DEFINE h == Freed(b.bytes, n)
           w == Called(h)
           g == Dispatched(h)
           st == [x \in Request |-> IF x \in w THEN "bytesWoken" ELSE b.stage[x]]
           o == BytesFreed(b, n)
           Line == Staged(b.stage, "bytes")
           Woken == Staged(b.stage, "bytesWoken")
           new == [amounts EXCEPT ![r] = 0]
<1>1. b.stage \in [Request -> Stages]
  BY DEF BookType
<1>2. o = [b EXCEPT !.bytes = g, !.stage = st]
  BY DEF BytesFreed
<1>3. w \subseteq Line /\ ByteGate(g, Line \ w, Woken \cup w, new, e)
  <2> HIDE DEF Line, Woken
  <2>1. ByteGate(b.bytes, Line, Woken, amounts, e)
    BY DEF Line, Woken
  <2> QED BY <2>1, BytesFreedCalls
<1> HIDE DEF h, w, g, new
<1>4. /\ st \in [Request -> Stages] /\ \A x \in Request \ w : st[x] = b.stage[x]
      /\ \A x \in w : st[x] = "bytesWoken" /\ b.stage[x] = "bytes"
      /\ Staged(st, "bytes") = Line \ w /\ Staged(st, "bytesWoken") = Woken \cup w
      /\ \A u : u # "bytes" /\ u # "bytesWoken" => Staged(st, u) = Staged(b.stage, u)
  <2>1. "bytesWoken" \in Stages
    BY DEF Stages, Waits
  <2>2. Go(st, b.stage, w, "bytes", "bytesWoken")
    BY <1>1, <1>3, <2>1, RestagedCalled
  <2> HIDE DEF st
  <2> QED BY <2>2 DEF Go
<1> HIDE DEF st
<1>5. /\ o \in BookType /\ o.holds = b.holds /\ o.slots = b.slots /\ o.bytes = g
      /\ o.queued = b.queued /\ o.healthy = b.healthy /\ o.stage = st
  <2>1. g \in GateType
    BY <1>3 DEF ByteGate, Parking
  <2> HIDE DEF o
  <2> QED BY <1>2, <1>4, <2>1 DEF BookType
<1> HIDE DEF o
<1>6. QueuedFor(st, c) = QueuedFor(b.stage, c)
  BY <1>1, <1>3, <1>4 DEF QueuedFor, Staged
<1>7. BytesGivenBack(o, b, c, new, e)
  BY <1>3, <1>4, <1>5, <1>6 DEF BytesGivenBack
<1> QED BY <1>7 DEF o, new

\* An error is answered: r gives back what it has, and those called for it are
\* on their way.
LEMMA RefusedRight ==
    ASSUME NEW b, NEW r \in Request, NEW c \in CostType, NEW e \in Int, NEW d, InHand(b, r, c, e, d)
    PROVE  Right(Refused(b, r), c, e, d)
<1> DEFINE h == b.holds[r]
           st == [b.stage EXCEPT ![r] = "done"]
           ho == [b.holds EXCEPT ![r] = Nothing]
           b1 == [b EXCEPT !.stage = st, !.holds = ho]
           b2 == IF h.slot THEN SlotFreed(b1)
                 ELSE IF h.headroom THEN [b1 EXCEPT !.healthy = @ - 1] ELSE b1
           o == IF h.bytes > 0 THEN BytesFreed(b2, h.bytes) ELSE b2
           amounts == BytesHeld(b.holds)
<1>1. /\ b \in BookType /\ b.stage \in [Request -> Stages] /\ b.holds \in [Request -> HoldType]
      /\ h \in HoldType /\ h.bytes \in Nat /\ b.healthy \in Int
  BY DEF InHand, BookType, HoldType
<1>2. Refused(b, r) = o
  <2> DEFINE a == At(b, r, "done")
  <2>1. a = [b EXCEPT !.stage = st]
    BY DEF At
  <2>2. a.holds = b.holds
    BY <1>1, <2>1 DEF BookType
  <2> DEFINE a1 == [a EXCEPT !.holds[r] = Nothing]
             k == a.holds[r]
             a2 == IF k.slot THEN SlotFreed(a1)
                   ELSE IF k.headroom THEN [a1 EXCEPT !.healthy = @ - 1] ELSE a1
  <2>3. a1 = b1
    <3>1. a1 = [a EXCEPT !.holds = [a.holds EXCEPT ![r] = Nothing]]
      OBVIOUS
    <3> HIDE DEF a, st
    <3>2. [a EXCEPT !.holds = [a.holds EXCEPT ![r] = Nothing]] = [a EXCEPT !.holds = ho]
      BY <2>2
    <3> HIDE DEF ho
    <3>3. [a EXCEPT !.holds = ho] = b1
      BY <1>1, <2>1 DEF BookType
    <3> QED BY <3>1, <3>2, <3>3
  <2>4. Released(a, r) = IF k.bytes > 0 THEN BytesFreed(a2, k.bytes) ELSE a2
    BY DEF Released
  <2>5. k = h
    BY <2>2
  <2> HIDE DEF st, ho, a, b1, a1, k, h
  <2>6. a2 = b2
    BY <2>3, <2>5
  <2> HIDE DEF a2, b2
  <2>7. Released(a, r) = o
    BY <2>4, <2>5, <2>6
  <2> QED BY <2>7 DEF Refused, a
<1>3. Goes(st, b.stage, r, "done", c)
  <2>1. "done" \in Stages
    BY DEF Stages
  <2> QED BY <1>1, <2>1, Restaged
<1>4. Reholds(ho, b.holds, r, Nothing)
  <2>1. Nothing \in HoldType
    BY DEF SlotOnly, HeadroomOnly, Nothing, HoldType
  <2> QED BY <1>1, <2>1, Reheld
<1> HIDE DEF st, ho
<1>5. /\ b1 \in BookType /\ b1.stage = st /\ b1.holds = ho /\ b1.slots = b.slots /\ b1.bytes = b.bytes
      /\ b1.queued = b.queued /\ b1.healthy = b.healthy
  BY <1>1, <1>3, <1>4 DEF BookType, Goes, Reholds
<1>6. /\ \A t : t # "done" => Staged(st, t) = Staged(b.stage, t) \ {r}
      /\ QueuedFor(st, c) = [QueuedFor(b.stage, c) EXCEPT ![r] = 0]
      /\ SlotHolders(ho) = SlotHolders(b.holds) \ {r}
      /\ HeadroomHolders(ho) = HeadroomHolders(b.holds) \ {r}
      /\ BytesHeld(ho) = [amounts EXCEPT ![r] = 0]
  BY <1>3, <1>4 DEF Goes, Reholds, Nothing
<1>7. /\ SlotGate(b1.slots, Staged(b1.stage, "slot"), Staged(b1.stage, "slotWoken"), SlotHolders(b.holds), e)
      /\ ByteGate(b1.bytes, Staged(b1.stage, "bytes"), Staged(b1.stage, "bytesWoken"), amounts, d)
  BY <1>5, <1>6 DEF InHand
<1>8. \A x \in Request : /\ Proper(b1.stage[x], ho[x])
                         /\ b1.stage[x] \in {"bytes", "bytesWoken"} => c[x] <= MaxBytes
  <2>1. Proper("done", Nothing)
    BY DEF Proper, Nothing
  <2>2. \A x \in Request \ {r} : st[x] = b.stage[x] /\ ho[x] = b.holds[x]
    BY <1>3, <1>4 DEF Goes, Reholds
  <2>3. st[r] = "done" /\ ho[r] = Nothing
    BY <1>3, <1>4 DEF Goes, Reholds
  <2> QED BY <1>5, <2>1, <2>2, <2>3 DEF InHand
<1>9. /\ b.healthy = Cardinality(HeadroomHolders(b.holds)) /\ b.healthy <= Headroom
      /\ b.queued = Total(QueuedFor(st, c)) /\ b.queued <= MaxQueued /\ ~(h.slot /\ h.headroom)
  BY <1>6 DEF InHand
<1> HIDE DEF b1
<1> DEFINE Back(x) ==
               /\ x \in BookType /\ x.holds = ho /\ x.bytes = b.bytes /\ x.queued = b.queued
               /\ SlotGate(x.slots, Staged(x.stage, "slot"), Staged(x.stage, "slotWoken"), SlotHolders(ho), e)
               /\ x.healthy = Cardinality(HeadroomHolders(ho)) /\ x.healthy <= Headroom
               /\ \A u : u \notin {"slot", "slotWoken"} => Staged(x.stage, u) = Staged(st, u)
               /\ QueuedFor(x.stage, c) = QueuedFor(st, c)
               /\ \A y \in Request : x.stage[y] = st[y] \/ (st[y] = "slot" /\ x.stage[y] = "slotWoken")
<1>10. Back(b2)
  <2>1. CASE h.slot
    <3>1. r \in SlotHolders(b.holds) /\ HeadroomHolders(ho) = HeadroomHolders(b.holds)
      BY <1>6, <1>9, <2>1 DEF SlotHolders, HeadroomHolders
    <3>2. SlotGivenBack(SlotFreed(b1), b1, c, SlotHolders(b.holds) \ {r}, e)
      BY <1>5, <1>7, <3>1, SlotFreedBook
    <3>3. SlotGivenBack(b2, b1, c, SlotHolders(ho), e)
      BY <1>6, <2>1, <3>2
    <3> HIDE DEF b2
    <3> QED BY <1>5, <1>9, <3>1, <3>3 DEF SlotGivenBack
  <2>2. CASE ~h.slot
    <3>1. SlotHolders(ho) = SlotHolders(b.holds)
      BY <1>6, <2>2 DEF SlotHolders
    <3>2. CASE h.headroom
      <4> DEFINE n == b.healthy - 1
      <4>1. b2 = [b1 EXCEPT !.healthy = n]
        BY <1>5, <2>2, <3>2
      <4>2. HeadroomHolders(b.holds) \in SUBSET Request /\ r \in HeadroomHolders(b.holds)
        BY <3>2 DEF HeadroomHolders
      <4>3. Cardinality(HeadroomHolders(ho)) = n /\ n <= Headroom /\ n \in Int
        <5>1. Cardinality(HeadroomHolders(b.holds) \ {r}) = Cardinality(HeadroomHolders(b.holds)) - 1
          BY <4>2, Counting
        <5>2. Headroom \in Int
          BY ChatAdmissionAssumption
        <5> QED BY <1>1, <1>6, <1>9, <5>1, <5>2
      <4> HIDE DEF n, b2
      <4>4. /\ b2 \in BookType /\ b2.holds = ho /\ b2.bytes = b.bytes /\ b2.queued = b.queued
            /\ b2.slots = b.slots /\ b2.healthy = n /\ b2.stage = st
        BY <1>5, <4>1, <4>3 DEF BookType
      <4> QED BY <1>5, <1>7, <3>1, <4>3, <4>4
    <3>3. CASE ~h.headroom
      <4>1. b2 = b1 /\ HeadroomHolders(ho) = HeadroomHolders(b.holds)
        BY <1>6, <2>2, <3>3 DEF HeadroomHolders
      <4> HIDE DEF b2
      <4> QED BY <1>5, <1>7, <1>9, <3>1, <4>1
    <3> QED BY <3>2, <3>3
  <2> QED BY <2>1, <2>2
<1> HIDE DEF b2
<1>11. /\ ByteGate(b2.bytes, Staged(b2.stage, "bytes"), Staged(b2.stage, "bytesWoken"), amounts, d)
       /\ \A x \in Request : /\ Proper(b2.stage[x], ho[x])
                             /\ b2.stage[x] \in {"bytes", "bytesWoken"} => c[x] <= MaxBytes
  <2>1. ByteGate(b2.bytes, Staged(b2.stage, "bytes"), Staged(b2.stage, "bytesWoken"), amounts, d)
    BY <1>5, <1>7, <1>10
  <2> QED BY <1>5, <1>8, <1>10, <2>1 DEF Proper
<1>12. CASE h.bytes > 0
  <2>1. amounts[r] = h.bytes
    BY DEF BytesHeld
  <2>2. BytesGivenBack(BytesFreed(b2, h.bytes), b2, c, [amounts EXCEPT ![r] = 0], d)
    <3> HIDE DEF amounts
    <3> QED BY <1>1, <1>10, <1>11, <2>1, BytesFreedBook
  <2>3. BytesGivenBack(o, b2, c, BytesHeld(ho), d)
    BY <1>6, <1>12, <2>2
  <2> HIDE DEF o
  <2>4. \A x \in Request : /\ Proper(o.stage[x], ho[x])
                           /\ o.stage[x] \in {"bytes", "bytesWoken"} => c[x] <= MaxBytes
    BY <1>11, <2>3 DEF BytesGivenBack, Proper
  <2>5. Right(o, c, e, d)
    BY <1>9, <1>10, <2>3, <2>4 DEF BytesGivenBack, Right
  <2> QED BY <1>2, <2>5
<1>13. CASE ~(h.bytes > 0)
  <2>1. o = b2
    BY <1>13
  <2>2. BytesHeld(ho) = amounts
    <3>1. h.bytes = 0 /\ amounts \in [Request -> Nat]
      BY <1>1, <1>13 DEF BytesHeld, HoldType
    <3>2. amounts[r] = 0
      BY <3>1 DEF BytesHeld
    <3> HIDE DEF amounts
    <3> QED BY <1>6, <3>1, <3>2
  <2>3. Right(b2, c, e, d)
    BY <1>9, <1>10, <1>11, <2>2 DEF Right
  <2> QED BY <1>2, <2>1, <2>3
<1> QED BY <1>12, <1>13

-----------------------------------------------------------------------------
(* A request is taken in hand.                                             *)

\* What is common to all: the others are as they should be, and r is counted
\* in no queue any more.
LEMMA OthersRight ==
    ASSUME NEW b, NEW c \in CostType, Right(b, c, 0, 0), NEW r \in Request
    PROVE  /\ b \in BookType /\ b.stage \in [Request -> Stages] /\ b.holds \in [Request -> HoldType]
           /\ \A x \in Request \ {r} : Proper(b.stage[x], b.holds[x])
           /\ \A x \in Request \ {r} : b.stage[x] \in {"bytes", "bytesWoken"} => c[x] <= MaxBytes
           /\ ~(b.holds[r].slot /\ b.holds[r].headroom) /\ Proper(b.stage[r], b.holds[r])
           /\ b.healthy = Cardinality(HeadroomHolders(b.holds)) /\ b.healthy <= Headroom
           /\ QueuedFor(b.stage, c) \in [Request -> Nat]
           /\ \A s : b.stage[r] # s => Staged(b.stage, s) \ {r} = Staged(b.stage, s)
<1>1. b \in BookType /\ b.stage \in [Request -> Stages] /\ b.holds \in [Request -> HoldType]
  BY DEF Right, BookType
<1>2. QueuedFor(b.stage, c) \in [Request -> Nat]
  <2>1. \A x \in Request : c[x] \in Nat
    BY DEF CostType
  <2> QED BY <2>1 DEF QueuedFor
<1>3. \A s : b.stage[r] # s => Staged(b.stage, s) \ {r} = Staged(b.stage, s)
  BY DEF Staged
<1>4. ~(b.holds[r].slot /\ b.holds[r].headroom)
  BY DEF Right, Proper
<1> QED BY <1>1, <1>2, <1>3, <1>4 DEF Right

LEMMA Picked ==
    ASSUME NEW b, NEW c \in CostType, Right(b, c, 0, 0), NEW r \in Request,
           b.stage[r] \notin {"slot", "slotWoken", "bytes", "bytesWoken"}
    PROVE  InHand(b, r, c, 0, 0)
<1> DEFINE Q == QueuedFor(b.stage, c)
           Apt(x) == Proper(b.stage[x], b.holds[x])
<1>1. /\ b \in BookType
      /\ \A x \in Request \ {r} : Proper(b.stage[x], b.holds[x])
      /\ \A x \in Request \ {r} : b.stage[x] \in {"bytes", "bytesWoken"} => c[x] <= MaxBytes
      /\ ~(b.holds[r].slot /\ b.holds[r].headroom)
      /\ b.healthy = Cardinality(HeadroomHolders(b.holds)) /\ b.healthy <= Headroom
      /\ Q \in [Request -> Nat]
      /\ \A s : b.stage[r] # s => Staged(b.stage, s) \ {r} = Staged(b.stage, s)
  BY OthersRight
<1>2. [Q EXCEPT ![r] = 0] = Q
  <2>1. Q[r] = 0
    BY DEF QueuedFor
  <2> HIDE DEF Q
  <2> QED BY <1>1, <2>1
<1>3. /\ SlotGate(b.slots, Staged(b.stage, "slot") \ {r}, Staged(b.stage, "slotWoken") \ {r},
                  SlotHolders(b.holds), 0)
      /\ ByteGate(b.bytes, Staged(b.stage, "bytes") \ {r}, Staged(b.stage, "bytesWoken") \ {r},
                  BytesHeld(b.holds), 0)
      /\ b.queued = Total(Q) /\ b.queued <= MaxQueued
  BY <1>1 DEF Right
<1> HIDE DEF Q
<1>4. b.queued = Total([Q EXCEPT ![r] = 0])
  BY <1>2, <1>3
<1> QED BY <1>1, <1>3, <1>4 DEF InHand, Q

\* The charge of a request that no longer waits for a slot is taken back.
LEMMA Uncharged ==
    ASSUME NEW b, NEW c \in CostType, Right(b, c, 0, 0), NEW r \in Request,
           b.stage[r] \in {"slot", "slotWoken"}, NEW n, n = c[r]
    PROVE  /\ b.queued - n = Total([QueuedFor(b.stage, c) EXCEPT ![r] = 0])
           /\ b.queued - n <= MaxQueued /\ b.queued - n \in Int
<1> DEFINE Q == QueuedFor(b.stage, c)
<1>1. Q \in [Request -> Nat] /\ n \in Nat
  BY OthersRight DEF CostType
<1>2. b.queued = Total(Q) /\ b.queued <= MaxQueued
  BY DEF Right
<1>3. Q[r] = n
  BY DEF QueuedFor
<1> HIDE DEF Q
<1>4. Total(Q) \in Nat /\ Total([Q EXCEPT ![r] = 0]) = Total(Q) - Q[r] + 0
  <2>1. 0 \in Nat
    OBVIOUS
  <2> QED BY <1>1, <2>1, TotalUpdate
<1>5. MaxQueued \in Int
  BY ChatAdmissionAssumption
<1> QED BY <1>1, <1>2, <1>3, <1>4, <1>5 DEF Q

LEMMA PickedCalled ==
    ASSUME NEW b, NEW c \in CostType, Right(b, c, 0, 0), NEW r \in Request,
           b.stage[r] = "slotWoken", NEW n, n = c[r]
    PROVE  /\ InHand([b EXCEPT !.queued = @ - n], r, c, 1, 0)
           /\ [b EXCEPT !.queued = @ - n].holds[r] = Nothing
<1> DEFINE m == b.queued - n
           o == [b EXCEPT !.queued = @ - n]
<1>1. /\ b \in BookType
      /\ \A x \in Request \ {r} : Proper(b.stage[x], b.holds[x])
      /\ \A x \in Request \ {r} : b.stage[x] \in {"bytes", "bytesWoken"} => c[x] <= MaxBytes
      /\ ~(b.holds[r].slot /\ b.holds[r].headroom)
      /\ b.healthy = Cardinality(HeadroomHolders(b.holds)) /\ b.healthy <= Headroom
      /\ Proper(b.stage[r], b.holds[r])
      /\ \A s : b.stage[r] # s => Staged(b.stage, s) \ {r} = Staged(b.stage, s)
  BY OthersRight
<1>2. m = Total([QueuedFor(b.stage, c) EXCEPT ![r] = 0]) /\ m <= MaxQueued /\ m \in Int
  BY Uncharged
<1>3. /\ SlotGate(b.slots, Staged(b.stage, "slot"), Staged(b.stage, "slotWoken") \ {r},
                  SlotHolders(b.holds), 1)
      /\ ByteGate(b.bytes, Staged(b.stage, "bytes") \ {r}, Staged(b.stage, "bytesWoken") \ {r},
                  BytesHeld(b.holds), 0)
  BY <1>1, SlotCalled DEF Right
<1>4. o = [b EXCEPT !.queued = m]
  OBVIOUS
<1> HIDE DEF m, o
<1>5. /\ o \in BookType /\ o.slots = b.slots /\ o.bytes = b.bytes /\ o.stage = b.stage /\ o.holds = b.holds
      /\ o.healthy = b.healthy /\ o.queued = m
  BY <1>1, <1>2, <1>4 DEF BookType
<1>6. InHand(o, r, c, 1, 0)
  BY <1>1, <1>2, <1>3, <1>5 DEF InHand
<1> QED BY <1>1, <1>5, <1>6 DEF o, Proper

LeavesLine(b, r, n) == [b EXCEPT !.slots = Unparked(@, SessionOf[r], r), !.queued = @ - n]

LEMMA PickedWaiting ==
    ASSUME NEW b, NEW c \in CostType, Right(b, c, 0, 0), NEW r \in Request,
           b.stage[r] = "slot", NEW n, n = c[r]
    PROVE  InHand(LeavesLine(b, r, n), r, c, 0, 0) /\ LeavesLine(b, r, n).holds[r] = Nothing
<1> DEFINE m == b.queued - n
           g == Unparked(b.slots, SessionOf[r], r)
           o == LeavesLine(b, r, n)
<1>1. /\ b \in BookType
      /\ \A x \in Request \ {r} : Proper(b.stage[x], b.holds[x])
      /\ \A x \in Request \ {r} : b.stage[x] \in {"bytes", "bytesWoken"} => c[x] <= MaxBytes
      /\ ~(b.holds[r].slot /\ b.holds[r].headroom)
      /\ b.healthy = Cardinality(HeadroomHolders(b.holds)) /\ b.healthy <= Headroom
      /\ Proper(b.stage[r], b.holds[r])
      /\ \A s : b.stage[r] # s => Staged(b.stage, s) \ {r} = Staged(b.stage, s)
  BY OthersRight
<1>2. m = Total([QueuedFor(b.stage, c) EXCEPT ![r] = 0]) /\ m <= MaxQueued /\ m \in Int
  BY Uncharged
<1>3. /\ SlotGate(b.slots, Staged(b.stage, "slot"), Staged(b.stage, "slotWoken") \ {r},
                  SlotHolders(b.holds), 0)
      /\ ByteGate(b.bytes, Staged(b.stage, "bytes") \ {r}, Staged(b.stage, "bytesWoken") \ {r},
                  BytesHeld(b.holds), 0)
      /\ r \in Staged(b.stage, "slot")
  BY <1>1 DEF Right, Staged
<1>4. SlotGate(g, Staged(b.stage, "slot") \ {r}, Staged(b.stage, "slotWoken") \ {r}, SlotHolders(b.holds), 0)
  BY <1>3, SlotUnparked
<1>5. o = [b EXCEPT !.slots = g, !.queued = m]
  BY DEF LeavesLine
<1> HIDE DEF m, g, o
<1>6. /\ o \in BookType /\ o.slots = g /\ o.bytes = b.bytes /\ o.stage = b.stage /\ o.holds = b.holds
      /\ o.healthy = b.healthy /\ o.queued = m
  <2>1. g \in GateType
    BY <1>4 DEF SlotGate, Parking
  <2> QED BY <1>1, <1>2, <1>5, <2>1 DEF BookType
<1>7. InHand(o, r, c, 0, 0)
  BY <1>1, <1>2, <1>3, <1>4, <1>6 DEF InHand
<1> QED BY <1>1, <1>6, <1>7 DEF o, Proper

\* The same for one that waits for bytes, or was called to them.
LEMMA PickedForBytes ==
    ASSUME NEW b, NEW c \in CostType, Right(b, c, 0, 0), NEW r \in Request
    PROVE  /\ b.stage[r] = "bytesWoken" =>
                /\ InHand(b, r, c, 0, 1)
                /\ Proper("bytes", b.holds[r]) /\ c[r] <= MaxBytes
           /\ b.stage[r] = "bytes" => InHand([b EXCEPT !.bytes = Unparked(@, SessionOf[r], r)], r, c, 0, 0)
<1> DEFINE Q == QueuedFor(b.stage, c)
<1>1. /\ b \in BookType
      /\ \A x \in Request \ {r} : Proper(b.stage[x], b.holds[x])
      /\ \A x \in Request \ {r} : b.stage[x] \in {"bytes", "bytesWoken"} => c[x] <= MaxBytes
      /\ ~(b.holds[r].slot /\ b.holds[r].headroom)
      /\ b.healthy = Cardinality(HeadroomHolders(b.holds)) /\ b.healthy <= Headroom
      /\ Proper(b.stage[r], b.holds[r]) /\ Q \in [Request -> Nat]
      /\ \A s : b.stage[r] # s => Staged(b.stage, s) \ {r} = Staged(b.stage, s)
  BY OthersRight
<1>2. /\ SlotGate(b.slots, Staged(b.stage, "slot"), Staged(b.stage, "slotWoken"), SlotHolders(b.holds), 0)
      /\ ByteGate(b.bytes, Staged(b.stage, "bytes"), Staged(b.stage, "bytesWoken"), BytesHeld(b.holds), 0)
      /\ b.queued = Total(Q) /\ b.queued <= MaxQueued
      /\ b.stage[r] \in {"bytes", "bytesWoken"} => c[r] <= MaxBytes
  BY DEF Right
<1>3. ASSUME b.stage[r] \in {"bytes", "bytesWoken"} PROVE b.queued = Total([Q EXCEPT ![r] = 0])
  <2>1. Q[r] = 0
    BY <1>3 DEF QueuedFor
  <2> HIDE DEF Q
  <2>2. [Q EXCEPT ![r] = 0] = Q
    BY <1>1, <2>1
  <2> QED BY <1>2, <2>2
<1>4. ASSUME b.stage[r] = "bytesWoken" PROVE InHand(b, r, c, 0, 1) /\ Proper("bytes", b.holds[r])
  <2>1. ByteGate(b.bytes, Staged(b.stage, "bytes"), Staged(b.stage, "bytesWoken") \ {r},
                 BytesHeld(b.holds), 1)
    BY <1>2, BytesCalled
  <2>2. InHand(b, r, c, 0, 1)
    BY <1>1, <1>2, <1>3, <1>4, <2>1 DEF InHand
  <2> QED BY <1>1, <1>4, <2>2 DEF Proper
<1>5. ASSUME b.stage[r] = "bytes" PROVE InHand([b EXCEPT !.bytes = Unparked(@, SessionOf[r], r)], r, c, 0, 0)
  <2> DEFINE g == Unparked(b.bytes, SessionOf[r], r)
             o == [b EXCEPT !.bytes = g]
  <2>1. r \in Staged(b.stage, "bytes")
    BY <1>5 DEF Staged
  <2>2. ByteGate(g, Staged(b.stage, "bytes") \ {r}, Staged(b.stage, "bytesWoken"), BytesHeld(b.holds), 0)
    BY <1>2, <2>1, BytesUnparked
  <2> HIDE DEF g
  <2>3. /\ o \in BookType /\ o.slots = b.slots /\ o.bytes = g /\ o.stage = b.stage /\ o.holds = b.holds
        /\ o.healthy = b.healthy /\ o.queued = b.queued
    <3>1. g \in GateType
      BY <2>2 DEF ByteGate, Parking
    <3> QED BY <1>1, <3>1 DEF BookType
  <2> HIDE DEF o
  <2>4. InHand(o, r, c, 0, 0)
    BY <1>1, <1>2, <1>3, <1>5, <2>2, <2>3 DEF InHand
  <2> QED BY <2>4 DEF o, g
<1> QED BY <1>2, <1>4, <1>5

-----------------------------------------------------------------------------
(* What the turns lead to.                                                 *)

Charges == [x \in Request |-> Charge(x)]

LEMMA ChargesType == Charges \in CostType /\ \A r \in Request : Charges[r] = Charge(r)
BY ChatAdmissionAssumption DEF Charges, Charge, CostType

LEMMA Loosened ==
    ASSUME NEW b, NEW r, NEW c, NEW d, InHand(b, r, c, 0, d)
    PROVE  InHand(b, r, c, 1, d)
<1> DEFINE Woken == Staged(b.stage, "slotWoken") \ {r}
           Line == Staged(b.stage, "slot") \ {r}
<1>1. SlotGate(b.slots, Line, Woken, SlotHolders(b.holds), 0)
  BY DEF InHand
<1> HIDE DEF Woken, Line
<1>2. Woken \in SUBSET Request /\ SlotHolders(b.holds) \in SUBSET Request
      /\ b.slots.used = Cardinality(SlotHolders(b.holds))
  BY <1>1 DEF SlotGate
<1>3. Cardinality(Woken) \in Nat /\ b.slots.used \in Nat
  BY <1>2, Counting
<1>4. b.slots.used + Cardinality(Woken) + 0 >= MaxHeavy => b.slots.used + Cardinality(Woken) + 1 >= MaxHeavy
  BY <1>3, Limits
<1>5. SlotGate(b.slots, Line, Woken, SlotHolders(b.holds), 1)
  BY <1>1, <1>4 DEF SlotGate
<1> QED BY <1>5 DEF InHand, Woken, Line

LEMMA SlotOutcomesRight ==
    ASSUME NEW b, NEW r \in Request, InHand(b, r, Charges, 1, 0), b.holds[r] = Nothing,
           NEW o \in SlotOutcomes(b, r)
    PROVE  Right(o, Charges, 0, 0)
<1>1. Charges \in CostType /\ Charges[r] = Charge(r)
  BY ChargesType
<1>2. CASE Fits(b.slots, MaxHeavy, 1)
  <2>1. o = At(TakeSlot(b, r), r, "budget")
    BY <1>2 DEF SlotOutcomes
  <2>2. InHand(TakeSlot(b, r), r, Charges, 0, 0)
        /\ TakeSlot(b, r).holds[r] = SlotOnly
    BY <1>2, SlotBooked
  <2>3. Proper("budget", SlotOnly)
    BY DEF Proper, SlotOnly, Nothing
  <2>4. "budget" \in Stages \ {"slot", "slotWoken", "bytes", "bytesWoken"}
    BY DEF Stages, Waits
  <2>5. Proper("budget", TakeSlot(b, r).holds[r])
    BY <2>2, <2>3
  <2> QED BY <1>1, <2>1, <2>2, <2>4, <2>5, Placed
<1>3. CASE ~Fits(b.slots, MaxHeavy, 1)
  <2> DEFINE p == [At(b, r, "slot") EXCEPT !.slots = Parked(@, SessionOf[r], r), !.queued = @ + Charge(r)]
  <2>1. o = Refused(b, r) \/ (b.queued + Charge(r) <= MaxQueued /\ o = p)
    BY <1>3 DEF SlotOutcomes
  <2>2. Right(Refused(b, r), Charges, 0, 0)
    <3>1. SlotGate(b.slots, Staged(b.stage, "slot") \ {r}, Staged(b.stage, "slotWoken") \ {r},
                   SlotHolders(b.holds), 1)
      BY DEF InHand
    <3>2. SlotGate(b.slots, Staged(b.stage, "slot") \ {r}, Staged(b.stage, "slotWoken") \ {r},
                   SlotHolders(b.holds), 0)
      BY <1>3, <3>1, SlotRefused
    <3>3. InHand(b, r, Charges, 0, 0)
      BY <3>2 DEF InHand
    <3> QED BY <1>1, <3>3, RefusedRight
  <2>3. b.queued + Charge(r) <= MaxQueued => Right(p, Charges, 0, 0)
    <3> DEFINE n == Charge(r)
    <3>1. n = Charges[r]
      BY <1>1
    <3> HIDE DEF n
    <3>2. b.queued + n <= MaxQueued =>
            Right([At(b, r, "slot") EXCEPT !.slots = Parked(@, SessionOf[r], r), !.queued = @ + n], Charges, 0, 0)
      BY <1>1, <1>3, <3>1, ParkedForSlot
    <3> QED BY <3>2 DEF n
  <2> QED BY <2>1, <2>2, <2>3
<1> QED BY <1>2, <1>3

LEMMA BudgetOutcomesRight ==
    ASSUME NEW b, NEW r \in Request, NEW d, InHand(b, r, Charges, 0, d), Proper("bytes", b.holds[r]),
           d = 0 \/ Charge(r) <= MaxBytes, NEW o \in BudgetOutcomes(b, r)
    PROVE  Right(o, Charges, 0, 0)
<1>1. Charges \in CostType /\ Charges[r] = Charge(r) /\ Charge(r) \in Nat \ {0}
  BY ChargesType DEF CostType
<1> DEFINE n == Charge(r)
<1>2. n = Charges[r] /\ n \in Nat \ {0} /\ (d = 0 \/ n <= MaxBytes)
  BY <1>1
<1>3. CASE Fits(b.bytes, MaxBytes, Charge(r))
  <2>1. o = At(TakeBytes(b, r, n), r, Admitted(r))
    BY <1>3 DEF BudgetOutcomes
  <2>2. Fits(b.bytes, MaxBytes, n) /\ b.holds[r].bytes = 0
    BY <1>3 DEF Proper
  <2> HIDE DEF n
  <2>3. /\ InHand(TakeBytes(b, r, n), r, Charges, 0, 0)
        /\ TakeBytes(b, r, n).holds[r].slot = b.holds[r].slot
        /\ TakeBytes(b, r, n).holds[r].headroom = b.holds[r].headroom
    BY <1>2, <2>2, BytesBooked
  <2>4. Admitted(r) \in Stages \ {"slot", "slotWoken", "bytes", "bytesWoken"}
        /\ Admitted(r) \notin {"new", "done", "budget"}
    BY DEF Admitted, Stages
  <2>5. Proper(Admitted(r), TakeBytes(b, r, n).holds[r])
    BY <2>3, <2>4 DEF Proper
  <2> QED BY <1>1, <2>1, <2>3, <2>4, <2>5, Placed
<1>4. CASE ~Fits(b.bytes, MaxBytes, Charge(r))
  <2> DEFINE p == [At(b, r, "bytes") EXCEPT !.bytes = Parked(@, SessionOf[r], r)]
  <2>1. o = Refused(b, r) \/ (n <= MaxBytes /\ o = p)
    BY <1>4 DEF BudgetOutcomes
  <2>2. ~Fits(b.bytes, MaxBytes, n)
    BY <1>4
  <2> HIDE DEF n
  <2>3. n <= MaxBytes => Right(p, Charges, 0, 0)
    BY <1>1, <1>2, <2>2, ParkedForBytes
  <2>4. InHand(b, r, Charges, 0, 0)
    <3>1. CASE d = 0
      BY <3>1
    <3>2. CASE n <= MaxBytes
      <4>1. ByteGate(b.bytes, Staged(b.stage, "bytes") \ {r}, Staged(b.stage, "bytesWoken") \ {r},
                     BytesHeld(b.holds), d)
        BY DEF InHand
      <4>2. ByteGate(b.bytes, Staged(b.stage, "bytes") \ {r}, Staged(b.stage, "bytesWoken") \ {r},
                     BytesHeld(b.holds), 0)
        BY <1>2, <2>2, <3>2, <4>1, BytesRefused
      <4> QED BY <4>2 DEF InHand
    <3> QED BY <1>2, <3>1, <3>2
  <2>5. Right(Refused(b, r), Charges, 0, 0)
    BY <1>1, <2>4, RefusedRight
  <2> QED BY <2>1, <2>3, <2>5
<1> QED BY <1>3, <1>4

LEMMA ReserveOutcomesRight ==
    ASSUME NEW b, NEW r \in Request, InHand(b, r, Charges, 0, 0), b.holds[r] = Nothing,
           NEW o \in ReserveOutcomes(b, r)
    PROVE  Right(o, Charges, 0, 0)
<1>1. InHand(b, r, Charges, 1, 0)
  BY Loosened
<1>2. CASE Fits(b.slots, MaxHeavy, 1)
  <2>1. o \in BudgetOutcomes(TakeSlot(b, r), r)
    BY <1>2 DEF ReserveOutcomes
  <2>2. InHand(TakeSlot(b, r), r, Charges, 0, 0)
        /\ TakeSlot(b, r).holds[r] = SlotOnly
    BY <1>1, <1>2, SlotBooked
  <2>3. Proper("bytes", SlotOnly)
    BY DEF Proper, SlotOnly, Nothing
  <2>4. Proper("bytes", TakeSlot(b, r).holds[r])
    BY <2>2, <2>3
  <2> QED BY <2>1, <2>2, <2>4, BudgetOutcomesRight
<1>3. CASE ~Fits(b.slots, MaxHeavy, 1)
  <2>1. o \in SlotOutcomes(b, r) \/ (b.healthy < Headroom /\ o \in BudgetOutcomes(TakeHeadroom(b, r), r))
    BY <1>3 DEF ReserveOutcomes
  <2>2. ASSUME b.healthy < Headroom, o \in BudgetOutcomes(TakeHeadroom(b, r), r)
        PROVE  Right(o, Charges, 0, 0)
    <3>1. InHand(TakeHeadroom(b, r), r, Charges, 0, 0)
          /\ TakeHeadroom(b, r).holds[r] = HeadroomOnly
      BY <2>2, HeadroomBooked
    <3>2. Proper("bytes", HeadroomOnly)
      BY DEF Proper, HeadroomOnly, Nothing
    <3>3. Proper("bytes", TakeHeadroom(b, r).holds[r])
      BY <3>1, <3>2
    <3> QED BY <2>2, <3>1, <3>3, BudgetOutcomesRight
  <2> QED BY <1>1, <2>1, <2>2, SlotOutcomesRight
<1> QED BY <1>2, <1>3

\* A slot that is taken and given back in the same turn leaves the books right,
\* though it may have called somebody.
LEMMA SlotTriedRight ==
    ASSUME NEW b, NEW r \in Request, InHand(b, r, Charges, 0, 0), b.holds[r] = Nothing,
           b.stage[r] = "parsed", Fits(b.slots, MaxHeavy, 1)
    PROVE  /\ InHand([SlotFreed(TakeSlot(b, r)) EXCEPT !.holds[r] = Nothing], r, Charges, 0, 0)
           /\ [SlotFreed(TakeSlot(b, r)) EXCEPT !.holds[r] = Nothing].holds[r] = Nothing
<1> DEFINE t == TakeSlot(b, r)
           f == SlotFreed(t)
           ho == [f.holds EXCEPT ![r] = Nothing]
           o == [f EXCEPT !.holds[r] = Nothing]
<1>1. /\ InHand(t, r, Charges, 0, 0) /\ t.holds[r] = SlotOnly
      /\ t.bytes = b.bytes /\ t.stage = b.stage
  <2>1. InHand(b, r, Charges, 1, 0)
    BY Loosened
  <2> QED BY <2>1, SlotBooked
<1>2. t \in BookType /\ t.holds \in [Request -> HoldType] /\ t.stage \in [Request -> Stages]
  BY <1>1 DEF InHand, BookType
<1>3. \A s : s # "parsed" => Staged(t.stage, s) \ {r} = Staged(t.stage, s)
  BY <1>1 DEF Staged
<1>4. SlotGate(t.slots, Staged(t.stage, "slot"), Staged(t.stage, "slotWoken"), SlotHolders(t.holds), 0)
  BY <1>1, <1>3 DEF InHand
<1>5. r \in SlotHolders(t.holds)
  BY <1>1 DEF SlotHolders, SlotOnly, Nothing
<1>6. SlotGivenBack(f, t, Charges, SlotHolders(t.holds) \ {r}, 0)
  <2> HIDE DEF t
  <2> QED BY <1>2, <1>4, <1>5, SlotFreedBook
<1>7. Reholds(ho, t.holds, r, Nothing) /\ f.holds = t.holds
  <2>1. f.holds = t.holds
    BY <1>6 DEF SlotGivenBack
  <2>2. Nothing \in HoldType
    BY DEF SlotOnly, HeadroomOnly, Nothing, HoldType
  <2> HIDE DEF t, f
  <2> QED BY <1>2, <2>1, <2>2, Reheld
<1>8. o = [f EXCEPT !.holds = ho]
  OBVIOUS
<1> HIDE DEF t, f, ho, o
<1>9. /\ ho \in [Request -> HoldType] /\ ho[r] = Nothing /\ \A x \in Request \ {r} : ho[x] = t.holds[x]
      /\ SlotHolders(ho) = SlotHolders(t.holds) \ {r}
      /\ HeadroomHolders(ho) = HeadroomHolders(t.holds)
      /\ BytesHeld(ho) = BytesHeld(t.holds)
  <2>1. /\ ho \in [Request -> HoldType] /\ ho[r] = Nothing /\ \A x \in Request \ {r} : ho[x] = t.holds[x]
        /\ SlotHolders(ho) = SlotHolders(t.holds) \ {r}
        /\ HeadroomHolders(ho) = HeadroomHolders(t.holds) \ {r}
    BY <1>7 DEF Reholds, Nothing
  <2>2. t.holds[r].headroom = FALSE /\ t.holds[r].bytes = 0
    BY <1>1 DEF SlotOnly, Nothing
  <2>3. Nothing.bytes = 0
    BY DEF Nothing
  <2> QED BY <2>1, <2>2, <2>3 DEF HeadroomHolders, BytesHeld
<1>10. /\ o \in BookType /\ o.holds = ho /\ o.slots = f.slots /\ o.bytes = t.bytes
       /\ o.queued = t.queued /\ o.healthy = t.healthy /\ o.stage = f.stage
  BY <1>6, <1>8, <1>9 DEF SlotGivenBack, BookType
<1>11. /\ SlotGate(o.slots, Staged(o.stage, "slot") \ {r}, Staged(o.stage, "slotWoken") \ {r}, SlotHolders(ho), 0)
       /\ ByteGate(o.bytes, Staged(o.stage, "bytes") \ {r}, Staged(o.stage, "bytesWoken") \ {r}, BytesHeld(ho), 0)
  <2>1. f.stage[r] = "parsed"
    BY <1>1, <1>6 DEF SlotGivenBack
  <2>2. \A s : s # "parsed" => Staged(f.stage, s) \ {r} = Staged(f.stage, s)
    BY <2>1 DEF Staged
  <2>3. Staged(f.stage, "bytes") = Staged(t.stage, "bytes")
        /\ Staged(f.stage, "bytesWoken") = Staged(t.stage, "bytesWoken")
    BY <1>6 DEF SlotGivenBack
  <2>4. SlotGate(f.slots, Staged(f.stage, "slot"), Staged(f.stage, "slotWoken"), SlotHolders(ho), 0)
    BY <1>6, <1>9 DEF SlotGivenBack
  <2>5. ByteGate(t.bytes, Staged(t.stage, "bytes"), Staged(t.stage, "bytesWoken"), BytesHeld(ho), 0)
    BY <1>1, <1>3, <1>9 DEF InHand
  <2>6. /\ Staged(o.stage, "slot") \ {r} = Staged(f.stage, "slot")
        /\ Staged(o.stage, "slotWoken") \ {r} = Staged(f.stage, "slotWoken")
        /\ Staged(o.stage, "bytes") \ {r} = Staged(t.stage, "bytes")
        /\ Staged(o.stage, "bytesWoken") \ {r} = Staged(t.stage, "bytesWoken")
    BY <1>10, <2>2, <2>3
  <2> QED BY <1>10, <2>4, <2>5, <2>6
<1>12. \A x \in Request \ {r} : /\ Proper(o.stage[x], ho[x])
                                /\ o.stage[x] \in {"bytes", "bytesWoken"} => Charges[x] <= MaxBytes
  <2>1. \A x \in Request : f.stage[x] = t.stage[x] \/ (t.stage[x] = "slot" /\ f.stage[x] = "slotWoken")
    BY <1>6 DEF SlotGivenBack
  <2>2. \A x \in Request \ {r} : /\ Proper(t.stage[x], t.holds[x])
                                 /\ t.stage[x] \in {"bytes", "bytesWoken"} => Charges[x] <= MaxBytes
    BY <1>1 DEF InHand
  <2> QED BY <1>9, <1>10, <2>1, <2>2 DEF Proper
<1>13. o.queued = Total([QueuedFor(o.stage, Charges) EXCEPT ![r] = 0]) /\ o.queued <= MaxQueued
  <2>1. QueuedFor(f.stage, Charges) = QueuedFor(t.stage, Charges)
    BY <1>6 DEF SlotGivenBack
  <2> QED BY <1>1, <1>10, <2>1 DEF InHand
<1>14. InHand(o, r, Charges, 0, 0)
  <2>1. o.healthy = Cardinality(HeadroomHolders(ho)) /\ o.healthy <= Headroom
    BY <1>1, <1>9, <1>10 DEF InHand
  <2>2. ~(ho[r].slot /\ ho[r].headroom)
    BY <1>9 DEF Nothing
  <2> QED BY <1>10, <1>11, <1>12, <1>13, <2>1, <2>2 DEF InHand
<1> QED BY <1>9, <1>10, <1>14 DEF o, f, t

LEMMA StructureOutcomesRight ==
    ASSUME NEW b, NEW r \in Request, InHand(b, r, Charges, 0, 0), b.holds[r] = Nothing,
           b.stage[r] = "parsed", NEW o \in StructureOutcomes(b, r)
    PROVE  Right(o, Charges, 0, 0)
<1> DEFINE b1 == IF Fits(b.slots, MaxHeavy, 1) THEN SlotFreed(TakeSlot(b, r)) ELSE b
           b2 == [b1 EXCEPT !.holds[r] = Nothing]
<1>1. Charges \in CostType /\ "handled" \in Stages \ {"slot", "slotWoken", "bytes", "bytesWoken"}
  BY ChargesType DEF Stages
<1>2. \/ /\ Fits(b.slots, MaxHeavy, 1) /\ Fits(b.bytes, MaxBytes, 1)
         /\ o = At(TakeBytes(TakeSlot(b, r), r, 1), r, "handled")
      \/ o \in SlotOutcomes(b2, r)
      \/ b2.healthy < Headroom /\ o = At(TakeHeadroom(b2, r), r, "handled")
  BY DEF StructureOutcomes
<1>3. InHand(b2, r, Charges, 0, 0) /\ b2.holds[r] = Nothing
  <2>1. CASE Fits(b.slots, MaxHeavy, 1)
    <3>1. b2 = [SlotFreed(TakeSlot(b, r)) EXCEPT !.holds[r] = Nothing]
      BY <2>1
    <3> HIDE DEF b2
    <3> QED BY <2>1, <3>1, SlotTriedRight
  <2>2. CASE ~Fits(b.slots, MaxHeavy, 1)
    <3>1. b \in BookType /\ b.holds \in [Request -> HoldType]
      BY DEF InHand, BookType
    <3>2. [b.holds EXCEPT ![r] = Nothing] = b.holds
      BY <3>1
    <3>3. b2 = [b EXCEPT !.holds = [b.holds EXCEPT ![r] = Nothing]]
      BY <2>2
    <3>4. [b EXCEPT !.holds = b.holds] = b
      BY <3>1 DEF BookType
    <3> HIDE DEF b2
    <3>5. b2 = b
      BY <3>2, <3>3, <3>4
    <3> QED BY <3>5
  <2> QED BY <2>1, <2>2
<1> HIDE DEF b1, b2
<1>4. ASSUME Fits(b.slots, MaxHeavy, 1), Fits(b.bytes, MaxBytes, 1),
             o = At(TakeBytes(TakeSlot(b, r), r, 1), r, "handled")
      PROVE  Right(o, Charges, 0, 0)
  <2> DEFINE t == TakeSlot(b, r)
  <2>1. /\ InHand(t, r, Charges, 0, 0) /\ t.holds[r] = SlotOnly
        /\ t.bytes = b.bytes
    <3>1. InHand(b, r, Charges, 1, 0)
      BY Loosened
    <3> QED BY <1>4, <3>1, SlotBooked
  <2> HIDE DEF t
  <2>2. Fits(t.bytes, MaxBytes, 1) /\ 1 \in Nat \ {0} /\ t.holds[r].bytes = 0
    BY <1>4, <2>1 DEF SlotOnly, Nothing
  <2>3. /\ InHand(TakeBytes(t, r, 1), r, Charges, 0, 0)
        /\ TakeBytes(t, r, 1).holds[r].headroom = t.holds[r].headroom
    <3> DEFINE n == 1
    <3>1. Fits(t.bytes, MaxBytes, n) /\ n \in Nat \ {0}
      BY <2>2
    <3> HIDE DEF n
    <3>2. /\ InHand(TakeBytes(t, r, n), r, Charges, 0, 0)
          /\ TakeBytes(t, r, n).holds[r].headroom = t.holds[r].headroom
      BY <2>1, <2>2, <3>1, BytesBooked
    <3> QED BY <3>2 DEF n
  <2>4. Proper("handled", TakeBytes(t, r, 1).holds[r])
    BY <2>1, <2>3 DEF Proper, SlotOnly, Nothing
  <2>5. Right(At(TakeBytes(t, r, 1), r, "handled"), Charges, 0, 0)
    BY <1>1, <2>3, <2>4, Placed
  <2> QED BY <1>4, <2>5 DEF t
<1>5. ASSUME o \in SlotOutcomes(b2, r) PROVE Right(o, Charges, 0, 0)
  BY <1>3, <1>5, Loosened, SlotOutcomesRight
<1>6. ASSUME b2.healthy < Headroom, o = At(TakeHeadroom(b2, r), r, "handled")
      PROVE  Right(o, Charges, 0, 0)
  <2>1. /\ InHand(TakeHeadroom(b2, r), r, Charges, 0, 0)
        /\ TakeHeadroom(b2, r).holds[r] = HeadroomOnly
    BY <1>3, <1>6, HeadroomBooked
  <2>2. Proper("handled", HeadroomOnly)
    BY DEF Proper, HeadroomOnly, Nothing
  <2>3. Proper("handled", TakeHeadroom(b2, r).holds[r])
    BY <2>1, <2>2
  <2> QED BY <1>1, <1>6, <2>1, <2>3, Placed
<1> QED BY <1>2, <1>4, <1>5, <1>6

-----------------------------------------------------------------------------
(* The invariant.                                                          *)

BooksRight == Right(Books, Charges, 0, 0)

LEMMA BooksFields ==
    /\ Books.slots = slots /\ Books.bytes = bytes /\ Books.queued = queued /\ Books.healthy = healthy
    /\ Books.stage = stage /\ Books.holds = holds
BY DEF Books

\* A turn that ends with the books b.
LEMMA KeepRight ==
    ASSUME NEW b, Right(b, Charges, 0, 0), Keep(b)
    PROVE  BooksRight'
<1>1. b \in BookType
  BY DEF Right
<1>2. Books' = b
  <2>1. b = [slots |-> b.slots, bytes |-> b.bytes, queued |-> b.queued, healthy |-> b.healthy,
             stage |-> b.stage, holds |-> b.holds]
    BY <1>1 DEF BookType
  <2> QED BY <2>1 DEF Keep, Books
<1>3. Charges' = Charges
  BY DEF Keep, Charges, Charge
<1> QED BY <1>2, <1>3 DEF BooksRight

\* In Init nobody has asked for anything.
LEMMA InitRight == Init => BooksRight
<1> SUFFICES ASSUME Init PROVE Right(Books, Charges, 0, 0)
  BY DEF BooksRight
<1> USE BooksFields
<1>1. Parking(IdleGate, {}) /\ IdleGate.used = 0
  <2>1. /\ <<>> \in Seq(Session) /\ <<>> \in Seq(Request)
        /\ NoRepeats(<<>>) /\ ToSet(<<>>) = {}
    BY NothingQueued DEF NoRepeats
  <2>2. IdleGate \in GateType
    BY <2>1 DEF IdleGate, GateType
  <2> QED BY <2>1, <2>2 DEF IdleGate, Parking
<1>2. /\ \A s : s # "new" => Staged(stage, s) = {}
      /\ SlotHolders(holds) = {} /\ HeadroomHolders(holds) = {}
      /\ BytesHeld(holds) = [r \in Request |-> 0] /\ QueuedFor(stage, Charges) = [r \in Request |-> 0]
  BY DEF Init, Staged, SlotHolders, HeadroomHolders, BytesHeld, QueuedFor, Nothing
<1>3. Cardinality({}) = 0 /\ Total([r \in Request |-> 0]) = 0 /\ [r \in Request |-> 0] \in [Request -> Nat]
  BY FS_EmptySet, TotalOfNothing
<1>4. SlotGate(slots, Staged(stage, "slot"), Staged(stage, "slotWoken"), SlotHolders(holds), 0)
  BY <1>1, <1>2, <1>3, Limits DEF Init, SlotGate
<1>5. ByteGate(bytes, Staged(stage, "bytes"), Staged(stage, "bytesWoken"), BytesHeld(holds), 0)
  <2> DEFINE zero == [r \in Request |-> 0]
  <2>1. /\ Staged(stage, "bytes") = {} /\ Staged(stage, "bytesWoken") = {} /\ BytesHeld(holds) = zero
        /\ zero \in [Request -> Nat] /\ Total(zero) = 0
    BY <1>2, <1>3
  <2> HIDE DEF zero
  <2> QED BY <1>1, <2>1, Limits DEF Init, ByteGate
<1>6. Books \in BookType
  <2>1. slots \in GateType /\ bytes \in GateType
    BY <1>1 DEF Init, Parking
  <2>2. stage \in [Request -> Stages] /\ holds \in [Request -> HoldType]
    BY DEF Init, Stages, HoldType, Nothing
  <2>3. queued \in Int /\ healthy \in Int
    BY DEF Init
  <2> QED BY <2>1, <2>2, <2>3 DEF Books, BookType
<1>7. \A x \in Request : /\ Proper(stage[x], holds[x])
                         /\ stage[x] \in {"bytes", "bytesWoken"} => Charges[x] <= MaxBytes
  BY DEF Init, Proper, Nothing
<1>8. /\ healthy = Cardinality(HeadroomHolders(holds)) /\ healthy <= Headroom
      /\ queued = Total(QueuedFor(stage, Charges)) /\ queued <= MaxQueued
  BY <1>2, <1>3, ChatAdmissionAssumption DEF Init
<1> QED BY <1>4, <1>5, <1>6, <1>7, <1>8 DEF Right

\* A request goes on without asking for anything.
LEMMA GoesOn ==
    ASSUME BooksRight, NEW r \in Request, NEW s \in {"reading", "handled", "parsed", "done"},
           stage[r] \in {"new", "reading", "parsed"}, s = "done" => holds[r] = Nothing
    PROVE  Right(At(Books, r, s), Charges, 0, 0)
<1> USE BooksFields
<1>1. InHand(Books, r, Charges, 0, 0)
  BY ChargesType, Picked DEF BooksRight
<1>2. Proper(s, Books.holds[r])
  BY <1>1 DEF InHand, Proper
<1>3. s \in Stages \ {"slot", "slotWoken", "bytes", "bytesWoken"}
  BY DEF Stages
<1> QED BY <1>1, <1>2, <1>3, ChargesType, Placed

LEMMA AtKept ==
    ASSUME NEW r \in Request, NEW s, stage' = [stage EXCEPT ![r] = s],
           UNCHANGED <<slots, bytes, queued, healthy, parsed, holds>>
    PROVE  Keep(At(Books, r, s))
BY DEF Keep, At, Books

\* What reading the body changes is what r asks for from then on.
LEMMA BodyEndsRight == ASSUME BooksRight, NEW r \in Request, BodyEnds(r) PROVE BooksRight'
<1> DEFINE o == At(Books, r, "parsed")
           c == Charges'
<1>1. Right(o, Charges, 0, 0)
  BY GoesOn DEF BodyEnds
<1>2. Books' = o
  BY DEF Books, At, BodyEnds
<1>3. o.stage[r] = "parsed"
  <2>1. Books \in BookType
    BY DEF BooksRight, Right
  <2> QED BY <2>1 DEF At, BookType
<1>4. \A x \in Request \ {r} : c[x] = Charges[x]
  BY DEF BodyEnds, Charges, Charge
<1> HIDE DEF o, c
<1>5. QueuedFor(o.stage, c) = QueuedFor(o.stage, Charges)
  BY <1>3, <1>4 DEF QueuedFor
<1>6. Right(o, c, 0, 0)
  BY <1>1, <1>3, <1>4, <1>5 DEF Right
<1> QED BY <1>2, <1>6 DEF BooksRight, c

LEMMA TurnedRight == ASSUME BooksRight, NEW r \in Request, Turned(r) PROVE BooksRight'
<1>1. holds[r] = Nothing
  BY BooksFields DEF BooksRight, Right, Proper, Turned
<1>2. Right(At(Books, r, "done"), Charges, 0, 0)
  BY <1>1, GoesOn DEF Turned
<1>3. Keep(At(Books, r, "done"))
  BY AtKept DEF Turned
<1> QED BY <1>2, <1>3, KeepRight

LEMMA ArriveSmallRight == ASSUME BooksRight, NEW r \in Request, ArriveSmall(r) PROVE BooksRight'
<1>1. PICK s \in {"reading", "handled"} : stage' = [stage EXCEPT ![r] = s]
  BY DEF ArriveSmall
<1>2. Right(At(Books, r, s), Charges, 0, 0)
  BY <1>1, GoesOn DEF ArriveSmall
<1>3. Keep(At(Books, r, s))
  BY <1>1, AtKept DEF ArriveSmall
<1> QED BY <1>2, <1>3, KeepRight

\* A request that waits for nothing is taken in hand as it is.
LEMMA TakenUp ==
    ASSUME BooksRight, NEW r \in Request, stage[r] \notin {"slot", "slotWoken", "bytes", "bytesWoken"}
    PROVE  /\ InHand(Books, r, Charges, 0, 0) /\ Proper(stage[r], holds[r])
           /\ Right(Refused(Books, r), Charges, 0, 0)
<1> USE BooksFields
<1>1. InHand(Books, r, Charges, 0, 0)
  BY ChargesType, Picked DEF BooksRight
<1>2. Proper(stage[r], holds[r])
  BY DEF BooksRight, Right
<1>3. Right(Refused(Books, r), Charges, 0, 0)
  BY <1>1, ChargesType, RefusedRight
<1> QED BY <1>1, <1>2, <1>3

LEMMA ReservesRight ==
    ASSUME BooksRight, NEW r \in Request, ArriveLarge(r) \/ BodyCrosses(r)
    PROVE  BooksRight'
<1>1. stage[r] \in {"new", "reading"}
  BY DEF ArriveLarge, BodyCrosses
<1>2. InHand(Books, r, Charges, 0, 0) /\ Proper(stage[r], holds[r])
  BY <1>1, TakenUp
<1>3. Books.holds[r] = Nothing
  BY <1>2, BooksFields DEF ArriveLarge, BodyCrosses, HasLease, Proper
<1>4. PICK b \in ReserveOutcomes(Books, r) : Keep(b)
  BY DEF ArriveLarge, BodyCrosses
<1> QED BY <1>2, <1>3, <1>4, ReserveOutcomesRight, KeepRight

LEMMA EndsRight ==
    ASSUME BooksRight, NEW r \in Request, BodyRefused(r) \/ Finish(r)
    PROVE  BooksRight'
<1>1. stage[r] \in {"reading", "handled"} /\ Keep(Refused(Books, r))
  BY DEF BodyRefused, Finish
<1> QED BY <1>1, TakenUp, KeepRight

LEMMA StructuredRight == ASSUME BooksRight, NEW r \in Request, Structured(r) PROVE BooksRight'
<1>1. stage[r] = "parsed"
  BY DEF Structured
<1>2. InHand(Books, r, Charges, 0, 0) /\ Right(Refused(Books, r), Charges, 0, 0)
  BY <1>1, TakenUp
<1>3. CASE Keep(Refused(Books, r))
  BY <1>2, <1>3, KeepRight
<1>4. CASE Keep(At(Books, r, "handled"))
  <2>1. Right(At(Books, r, "handled"), Charges, 0, 0)
    BY <1>1, GoesOn
  <2> QED BY <1>4, <2>1, KeepRight
<1>5. ASSUME ~HasLease(r), NEW b \in StructureOutcomes(Books, r), Keep(b) PROVE BooksRight'
  <2>1. Books.holds[r] = Nothing /\ Books.stage[r] = "parsed"
    BY <1>1, <1>5, BooksFields DEF HasLease
  <2> QED BY <1>2, <1>5, <2>1, StructureOutcomesRight, KeepRight
<1> QED BY <1>3, <1>4, <1>5 DEF Structured

LEMMA GiveUpSlotRight == ASSUME BooksRight, NEW r \in Request, GiveUpSlot(r) PROVE BooksRight'
<1> DEFINE n == Charge(r)
           b == LeavesLine(Books, r, n)
<1>1. Keep(At(b, r, "done")) /\ Books.stage[r] = "slot"
  BY BooksFields DEF GiveUpSlot, LeavesLine
<1>2. Charges \in CostType /\ n = Charges[r]
  BY ChargesType
<1> HIDE DEF n
<1>3. InHand(b, r, Charges, 0, 0) /\ b.holds[r] = Nothing
  BY <1>1, <1>2, PickedWaiting DEF BooksRight
<1> HIDE DEF b
<1>4. Proper("done", b.holds[r])
  BY <1>3 DEF Proper, Nothing
<1>5. "done" \in Stages \ {"slot", "slotWoken", "bytes", "bytesWoken"}
  BY DEF Stages
<1>6. Right(At(b, r, "done"), Charges, 0, 0)
  BY <1>2, <1>3, <1>4, <1>5, Placed
<1> QED BY <1>1, <1>6, KeepRight

LEMMA RetrySlotRight == ASSUME BooksRight, NEW r \in Request, RetrySlot(r) PROVE BooksRight'
<1> DEFINE n == Charge(r)
           b == [Books EXCEPT !.queued = @ - n]
<1>1. Books.stage[r] = "slotWoken"
  BY BooksFields DEF RetrySlot
<1>2. PICK o \in SlotOutcomes(b, r) : Keep(o)
  BY DEF RetrySlot
<1>3. Charges \in CostType /\ n = Charges[r]
  BY ChargesType
<1> HIDE DEF n
<1>4. InHand(b, r, Charges, 1, 0) /\ b.holds[r] = Nothing
  BY <1>1, <1>3, PickedCalled DEF BooksRight
<1> HIDE DEF b
<1> QED BY <1>2, <1>4, SlotOutcomesRight, KeepRight

LEMMA GiveUpBytesRight == ASSUME BooksRight, NEW r \in Request, GiveUpBytes(r) PROVE BooksRight'
<1> DEFINE b == [Books EXCEPT !.bytes = Unparked(@, SessionOf[r], r)]
<1>1. Keep(Refused(b, r)) /\ Books.stage[r] = "bytes"
  BY BooksFields DEF GiveUpBytes
<1>2. InHand(b, r, Charges, 0, 0)
  BY <1>1, ChargesType, PickedForBytes DEF BooksRight
<1> HIDE DEF b
<1>3. Right(Refused(b, r), Charges, 0, 0)
  BY <1>2, ChargesType, RefusedRight
<1> QED BY <1>1, <1>3, KeepRight

LEMMA BudgetRight ==
    ASSUME BooksRight, NEW r \in Request, AskBudget(r) \/ RetryBytes(r)
    PROVE  BooksRight'
<1>1. PICK o \in BudgetOutcomes(Books, r) : Keep(o)
  BY DEF AskBudget, RetryBytes
<1>2. CASE stage[r] = "budget"
  <2>1. InHand(Books, r, Charges, 0, 0) /\ Proper("bytes", Books.holds[r])
    BY <1>2, TakenUp, BooksFields DEF Proper
  <2> QED BY <1>1, <2>1, BudgetOutcomesRight, KeepRight
<1>3. CASE stage[r] = "bytesWoken"
  <2>1. InHand(Books, r, Charges, 0, 1) /\ Proper("bytes", Books.holds[r]) /\ Charge(r) <= MaxBytes
    BY <1>3, BooksFields, ChargesType, PickedForBytes DEF BooksRight
  <2> QED BY <1>1, <2>1, BudgetOutcomesRight, KeepRight
<1> QED BY <1>2, <1>3 DEF AskBudget, RetryBytes

\* The books are right at every turn of the event loop: the inductive invariant
\* of admitChatRequest and admitChatStructure over the two gates.
THEOREM AdmissionInvariant == Spec => []BooksRight
<1>1. Init => BooksRight
  BY InitRight
<1>2. BooksRight /\ [Next]_admissionVars => BooksRight'
  <2>1. SUFFICES ASSUME BooksRight, Next PROVE BooksRight'
    <3>1. ASSUME BooksRight, UNCHANGED admissionVars PROVE BooksRight'
      <4>1. Books' = Books /\ Charges' = Charges
        BY <3>1 DEF admissionVars, Books, Charges, Charge
      <4> QED BY <3>1, <4>1 DEF BooksRight
    <3> QED BY <3>1
  <2>2. PICK r \in Request :
          \/ Turned(r) \/ ArriveLarge(r) \/ ArriveSmall(r)
          \/ BodyCrosses(r) \/ BodyRefused(r) \/ BodyEnds(r) \/ Structured(r) \/ Finish(r)
          \/ GiveUpSlot(r) \/ GiveUpBytes(r) \/ RetrySlot(r) \/ AskBudget(r) \/ RetryBytes(r)
    BY <2>1 DEF Next
  <2>3. CASE Turned(r)
    BY <2>1, <2>3, TurnedRight
  <2>4. CASE ArriveLarge(r) \/ BodyCrosses(r)
    BY <2>1, <2>4, ReservesRight
  <2>5. CASE ArriveSmall(r)
    BY <2>1, <2>5, ArriveSmallRight
  <2>6. CASE BodyRefused(r) \/ Finish(r)
    BY <2>1, <2>6, EndsRight
  <2>7. CASE BodyEnds(r)
    BY <2>1, <2>7, BodyEndsRight
  <2>8. CASE Structured(r)
    BY <2>1, <2>8, StructuredRight
  <2>9. CASE GiveUpSlot(r)
    BY <2>1, <2>9, GiveUpSlotRight
  <2>10. CASE GiveUpBytes(r)
    BY <2>1, <2>10, GiveUpBytesRight
  <2>11. CASE RetrySlot(r)
    BY <2>1, <2>11, RetrySlotRight
  <2>12. CASE AskBudget(r) \/ RetryBytes(r)
    BY <2>1, <2>12, BudgetRight
  <2> QED BY <2>2, <2>3, <2>4, <2>5, <2>6, <2>7, <2>8, <2>9, <2>10, <2>11, <2>12
<1> QED BY <1>1, <1>2, PTL DEF Spec

\* The counters of the slots, of the headroom, of the bytes and of the queue
\* agree with what the requests hold and wait for, within the limits, and both
\* rotations are in order (chatBodyAdmission.ts, ingestByteAdmission.ts).
THEOREM BooksAlwaysMatch == Spec => []BooksMatch
<1>1. BooksRight => BooksMatch
  <2> SUFFICES ASSUME BooksRight PROVE BooksMatch
    OBVIOUS
  <2>1. /\ stage \in [Request -> Stages]
        /\ SlotGate(slots, Staged(stage, "slot"), Staged(stage, "slotWoken"), SlotHolders(holds), 0)
        /\ ByteGate(bytes, Staged(stage, "bytes"), Staged(stage, "bytesWoken"), BytesHeld(holds), 0)
        /\ healthy = Cardinality(HeadroomHolders(holds)) /\ healthy <= Headroom
        /\ queued = Total(QueuedFor(stage, Charges)) /\ queued <= MaxQueued
    BY BooksFields DEF BooksRight, Right, BookType
  <2>2. Tidy(slots) /\ Waiters(slots) = Staged(stage, "slot")
    <3>1. Parking(slots, Staged(stage, "slot")) /\ Staged(stage, "slot") \in SUBSET Request
      BY <2>1 DEF SlotGate
    <3> QED BY <3>1, ParkingIsTidy
  <2>3. Tidy(bytes) /\ Waiters(bytes) = Staged(stage, "bytes")
    <3>1. Parking(bytes, Staged(stage, "bytes")) /\ Staged(stage, "bytes") \in SUBSET Request
      BY <2>1 DEF ByteGate
    <3> QED BY <3>1, ParkingIsTidy
  <2>4. Staged(stage, "slot") = In({"slot"}) /\ Staged(stage, "bytes") = In({"bytes"})
    BY DEF Staged, In
  <2>5. slots.used = Cardinality({r \in Request : holds[r].slot}) /\ slots.used <= MaxHeavy
    BY <2>1 DEF SlotGate, SlotHolders
  <2>6. bytes.used = Total([r \in Request |-> holds[r].bytes]) /\ bytes.used <= MaxBytes
    BY <2>1 DEF ByteGate, BytesHeld
  <2>7. healthy = Cardinality({r \in Request : holds[r].headroom})
    BY <2>1 DEF HeadroomHolders
  <2>8. QueuedFor(stage, Charges)
          = [r \in Request |-> IF stage[r] \in {"slot", "slotWoken"} THEN Charge(r) ELSE 0]
    BY DEF QueuedFor, Charges
  <2>9. queued = Total([r \in Request |-> IF stage[r] \in {"slot", "slotWoken"} THEN Charge(r) ELSE 0])
    BY <2>1, <2>8
  <2> QED BY <2>1, <2>2, <2>3, <2>4, <2>5, <2>6, <2>7, <2>9 DEF BooksMatch
<1> QED BY <1>1, AdmissionInvariant, PTL

\* What a request has reserved fits the place it is at, whatever way it left:
\* nothing stays reserved for one that has been answered.
THEOREM NeverLeaks == Spec => []NothingLeaks
<1>1. BooksRight => NothingLeaks
  BY BooksFields DEF BooksRight, Right, Proper, NothingLeaks, HasLease
<1> QED BY <1>1, AdmissionInvariant, PTL

\* Nobody is parked for a slot that is free, unless somebody has been called to
\* it: a wake-up of dispatchFair is never lost to a newcomer.
THEOREM NeverIdleSlot == Spec => []NoIdleSlot
<1>1. BooksRight => NoIdleSlot
  <2> SUFFICES ASSUME BooksRight, slots.used < MaxHeavy, In({"slotWoken"}) = {} PROVE Waiters(slots) = {}
    BY DEF NoIdleSlot
  <2>1. SlotGate(slots, Staged(stage, "slot"), Staged(stage, "slotWoken"), SlotHolders(holds), 0)
    BY BooksFields DEF BooksRight, Right
  <2>2. Staged(stage, "slotWoken") = {} /\ Cardinality({}) = 0
    BY FS_EmptySet DEF In, Staged
  <2>3. slots.used \in Nat
    <3>1. SlotHolders(holds) \in SUBSET Request /\ slots.used = Cardinality(SlotHolders(holds))
      BY <2>1 DEF SlotGate
    <3> QED BY <3>1, Counting
  <2>4. ~(slots.used + 0 + 0 >= MaxHeavy)
    BY <2>3, Limits
  <2>5. Staged(stage, "slot") = {}
    BY <2>1, <2>2, <2>4 DEF SlotGate
  <2>6. Parking(slots, Staged(stage, "slot")) /\ Staged(stage, "slot") \in SUBSET Request
    BY <2>1 DEF SlotGate
  <2> QED BY <2>5, <2>6, ParkingIsTidy
<1> QED BY <1>1, AdmissionInvariant, PTL

\* Nobody is parked for bytes while none are in use and nobody has been called.
THEOREM NeverIdleBudget == Spec => []NoIdleBudget
<1>1. BooksRight => NoIdleBudget
  <2> SUFFICES ASSUME BooksRight, bytes.used = 0, In({"bytesWoken"}) = {} PROVE Waiters(bytes) = {}
    BY DEF NoIdleBudget
  <2>1. ByteGate(bytes, Staged(stage, "bytes"), Staged(stage, "bytesWoken"), BytesHeld(holds), 0)
    BY BooksFields DEF BooksRight, Right
  <2>2. Staged(stage, "bytesWoken") = {}
    BY DEF In, Staged
  <2>3. Staged(stage, "bytes") = {}
    BY <2>1, <2>2 DEF ByteGate
  <2>4. Parking(bytes, Staged(stage, "bytes")) /\ Staged(stage, "bytes") \in SUBSET Request
    BY <2>1 DEF ByteGate
  <2> QED BY <2>3, <2>4, ParkingIsTidy
<1> QED BY <1>1, AdmissionInvariant, PTL
=============================================================================
