----------------------- MODULE AdaptiveAdmissionProofs -----------------------
(***************************************************************************)
(* Machine-checked proofs about AdaptiveAdmission and its FairCostQueue,   *)
(* for any requests, tenants, weights, limits and caps.                    *)
(***************************************************************************)
EXTENDS AdaptiveAdmission, QueueLemmas

-----------------------------------------------------------------------------
(* A bucket.                                                               *)

\* The bucket s has one entry for each of the requests R.
Filed(s, R) ==
    /\ s \in Seq(EntryType) /\ NoRepeats(s)
    /\ \A e \in ToSet(s) : e.cost = CostOf[e.id]
    /\ \A e, f \in ToSet(s) : e.id = f.id => e = f
    /\ {e.id : e \in ToSet(s)} = R

LEMMA FiledFacts ==
    ASSUME NEW s, NEW R, Filed(s, R)
    PROVE  /\ ToSet(s) \subseteq EntryType /\ R \subseteq Request /\ (s = <<>> <=> R = {})
           /\ s # <<>> => Head(s) \in ToSet(s)
           /\ \A e \in ToSet(s) : e.id \in R /\ e.id \in Request /\ e.cost = CostOf[e.id]
<1>1. s \in Seq(EntryType)
  BY DEF Filed
<1>2. ToSet(s) \subseteq EntryType /\ (s = <<>> <=> ToSet(s) = {})
      /\ (s # <<>> => Head(s) \in ToSet(s))
  BY <1>1, HeadPrecedes
<1>3. \A e \in ToSet(s) : e.id \in R /\ e.id \in Request /\ e.cost = CostOf[e.id]
  BY <1>2 DEF Filed, EntryType
<1> QED BY <1>2, <1>3 DEF Filed

LEMMA FiledEmpty == Filed(<<>>, {})
<1>1. <<>> \in Seq(EntryType) /\ ToSet(<<>>) = {}
  BY NothingQueued
<1>2. NoRepeats(<<>>)
  BY NothingQueued, Zenon DEF NoRepeats
<1> QED BY <1>1, <1>2 DEF Filed

LEMMA FiledAppend ==
    ASSUME NEW s, NEW R, Filed(s, R), NEW e \in EntryType, e.cost = CostOf[e.id], e.id \notin R
    PROVE  /\ Filed(Append(s, e), R \cup {e.id})
           /\ s # <<>> => Head(Append(s, e)) = Head(s)
           /\ ToSet(Append(s, e)) = ToSet(s) \cup {e}
<1>1. s \in Seq(EntryType) /\ NoRepeats(s) /\ \A f \in ToSet(s) : f.id \in R
  BY FiledFacts DEF Filed
<1>2. /\ Append(s, e) \in Seq(EntryType)
      /\ ToSet(Append(s, e)) = ToSet(s) \cup {e}
      /\ \A a, b : Precedes(Append(s, e), a, b) <=> Precedes(s, a, b) \/ (a \in ToSet(s) /\ b = e)
  BY <1>1, AppendQueue
<1>3. e \notin ToSet(s)
  BY <1>1
<1>4. NoRepeats(Append(s, e))
  BY <1>1, <1>2, <1>3 DEF NoRepeats
<1>5. \A f \in ToSet(Append(s, e)) : f.cost = CostOf[f.id]
  BY <1>2 DEF Filed
<1>6. \A f, h \in ToSet(Append(s, e)) : f.id = h.id => f = h
  BY <1>1, <1>2 DEF Filed
<1>7. {f.id : f \in ToSet(Append(s, e))} = R \cup {e.id}
  BY <1>2 DEF Filed
<1>8. s # <<>> => Head(Append(s, e)) = Head(s)
  BY <1>1, AppendProperties, LenProperties, EmptySeq
<1> QED BY <1>2, <1>4, <1>5, <1>6, <1>7, <1>8 DEF Filed

\* An entry is taken out of a bucket: what remains is t.
LEMMA FiledLess ==
    ASSUME NEW s, NEW R, Filed(s, R), NEW e \in ToSet(s), NEW t \in Seq(EntryType),
           NoRepeats(t), ToSet(t) = ToSet(s) \ {e}
    PROVE  Filed(t, R \ {e.id})
<1>1. \A f \in ToSet(t) : f.cost = CostOf[f.id] /\ \A h \in ToSet(t) : f.id = h.id => f = h
  BY DEF Filed
<1>2. \A f \in ToSet(s) : f.id = e.id => f = e
  BY DEF Filed
<1>3. {f.id : f \in ToSet(t)} = {f.id : f \in ToSet(s)} \ {e.id}
  BY <1>2
<1> QED BY <1>1, <1>3 DEF Filed

LEMMA FiledTail ==
    ASSUME NEW s, NEW R, Filed(s, R), s # <<>>
    PROVE  Filed(Tail(s), R \ {Head(s).id}) /\ ToSet(Tail(s)) = ToSet(s) \ {Head(s)}
<1>1. s \in Seq(EntryType) /\ NoRepeats(s) /\ Head(s) \in ToSet(s)
  BY FiledFacts DEF Filed
<1>2. Tail(s) \in Seq(EntryType) /\ ToSet(Tail(s)) = ToSet(s) \ {Head(s)} /\ NoRepeats(Tail(s))
  BY <1>1, TailProperties
<1> QED BY <1>1, <1>2, FiledLess

LEMMA FiledWithout ==
    ASSUME NEW s, NEW R, Filed(s, R), NEW e \in ToSet(s)
    PROVE  Filed(Without(s, e), R \ {e.id}) /\ ToSet(Without(s, e)) = ToSet(s) \ {e}
<1>1. s \in Seq(EntryType) /\ NoRepeats(s)
  BY DEF Filed
<1>2. /\ Without(s, e) \in Seq(EntryType) /\ ToSet(Without(s, e)) = ToSet(s) \ {e}
      /\ NoRepeats(Without(s, e))
  BY <1>1, WithoutProperties
<1> QED BY <1>2, FiledLess

\* The entries of t are those of s but for their stamps and skips.
Alike(s, t) ==
    /\ DOMAIN t = DOMAIN s
    /\ \A k \in DOMAIN s : t[k].id = s[k].id /\ t[k].cost = s[k].cost

LEMMA FiledAlike ==
    ASSUME NEW s, NEW R, Filed(s, R), NEW t \in Seq(EntryType), Alike(s, t)
    PROVE  Filed(t, R)
<1>1. \A k \in DOMAIN s : s[k] \in ToSet(s)
  BY DEF ToSet
<1>2. \A e \in ToSet(t) : \E k \in DOMAIN s : e = t[k]
  BY DEF ToSet, Alike
<1>3. \A e \in ToSet(t) : e.cost = CostOf[e.id]
  BY <1>1, <1>2 DEF Filed, Alike
<1>4. \A i, j \in DOMAIN s : t[i].id = t[j].id => i = j
  <2> SUFFICES ASSUME NEW i \in DOMAIN s, NEW j \in DOMAIN s, t[i].id = t[j].id PROVE i = j
    OBVIOUS
  <2>1. s[i] = s[j]
    BY <1>1 DEF Alike, Filed
  <2>2. ~(i < j) /\ ~(j < i)
    BY <2>1 DEF Filed, NoRepeats, Precedes
  <2>3. i \in Int /\ j \in Int
    <3>1. DOMAIN s = 1..Len(s)
      BY LenProperties DEF Filed
    <3> QED BY <3>1
  <2> QED BY <2>2, <2>3
<1>5. \A e, f \in ToSet(t) : e.id = f.id => e = f
  BY <1>2, <1>4
<1>6. NoRepeats(t)
  <2>1. ASSUME NEW a, Precedes(t, a, a) PROVE FALSE
    <3>1. PICK i \in DOMAIN t, j \in DOMAIN t : i < j /\ t[i] = a /\ t[j] = a
      BY <2>1 DEF Precedes
    <3>2. i = j /\ i \in Int
      <4>1. DOMAIN t = 1..Len(t)
        BY LenProperties
      <4> QED BY <1>4, <3>1, <4>1 DEF Alike
    <3> QED BY <3>1, <3>2
  <2> QED BY <2>1, Zenon DEF NoRepeats
<1>7. {e.id : e \in ToSet(t)} = {e.id : e \in ToSet(s)}
  <2>1. \A k \in DOMAIN s : t[k] \in ToSet(t)
    BY DEF ToSet, Alike
  <2>2. \A e \in ToSet(s) : \E k \in DOMAIN s : e = s[k]
    BY DEF ToSet
  <2>3. \A e \in ToSet(t) : \E f \in ToSet(s) : e.id = f.id
    BY <1>1, <1>2 DEF Alike
  <2>4. \A f \in ToSet(s) : \E e \in ToSet(t) : e.id = f.id
    BY <2>1, <2>2 DEF Alike
  <2> QED BY <2>3, <2>4
<1> QED BY <1>3, <1>5, <1>6, <1>7 DEF Filed

-----------------------------------------------------------------------------
(* What a set of requests weighs.                                          *)

LEMMA Weights ==
    /\ CostOf \in [Request -> Nat] /\ \A r \in Request : CostOf[r] \in Nat /\ CostOf[r] >= 1
    /\ TenantOf \in [Request -> Tenant]
BY AdmissionAssumption

LEMMA Weighed ==
    ASSUME NEW R \in SUBSET Request
    PROVE  /\ IsFiniteSet(R) /\ Cardinality(R) \in Nat /\ TotalCost(R) \in Nat
           /\ Cardinality(R) = 0 <=> R = {}
           /\ \A r \in Request \ R : /\ Cardinality(R \cup {r}) = Cardinality(R) + 1
                                     /\ TotalCost(R \cup {r}) = TotalCost(R) + CostOf[r]
<1>1. IsFiniteSet(Request)
  BY AdmissionAssumption
<1>2. IsFiniteSet(R) /\ Cardinality(R) \in Nat /\ (Cardinality(R) = 0 <=> R = {})
  BY <1>1, FS_Subset, FS_CardinalityType, FS_EmptySet
<1>3. TotalCost(R) \in Nat
  <2>1. IsFiniteSet(UNION {{r} \X (1..CostOf[r]) : r \in R})
    BY <1>2, Weights, UnitsFinite
  <2> QED BY <2>1, FS_CardinalityType DEF TotalCost
<1>4. ASSUME NEW r \in Request \ R
      PROVE  /\ Cardinality(R \cup {r}) = Cardinality(R) + 1
             /\ TotalCost(R \cup {r}) = TotalCost(R) + CostOf[r]
  <2>1. Cardinality(R \cup {r}) = Cardinality(R) + 1
    BY <1>2, FS_AddElement
  <2>2. TotalCost(R \cup {r}) = TotalCost(R) + CostOf[r]
    BY <1>2, Weights, UnitsAdded DEF TotalCost
  <2> QED BY <2>1, <2>2
<1> QED BY <1>2, <1>3, <1>4

LEMMA WeighedLess ==
    ASSUME NEW R \in SUBSET Request, NEW r \in R
    PROVE  /\ Cardinality(R \ {r}) = Cardinality(R) - 1
           /\ TotalCost(R \ {r}) = TotalCost(R) - CostOf[r]
<1> DEFINE S == R \ {r}
<1>1. S \in SUBSET Request /\ r \in Request \ S /\ R = S \cup {r}
  OBVIOUS
<1>2. /\ Cardinality(S) \in Nat /\ TotalCost(S) \in Nat
      /\ Cardinality(R) = Cardinality(S) + 1 /\ TotalCost(R) = TotalCost(S) + CostOf[r]
  <2> HIDE DEF S
  <2> QED BY <1>1, Weighed
<1>3. CostOf[r] \in Nat
  BY <1>1, Weights
<1> HIDE DEF S
<1>4. Cardinality(S) = Cardinality(R) - 1 /\ TotalCost(S) = TotalCost(R) - CostOf[r]
  BY <1>2, <1>3
<1> QED BY <1>4 DEF S

LEMMA WeighsNothing == TotalCost({}) = 0 /\ Cardinality({}) = 0
<1>1. UNION {{r} \X (1..CostOf[r]) : r \in {}} = {}
  OBVIOUS
<1> QED BY <1>1, FS_EmptySet DEF TotalCost

-----------------------------------------------------------------------------
(* A fair queue, in which the requests W wait.                             *)

QueueType == [order : Seq(Tenant), cursor : Nat, bucket : [Tenant -> Seq(EntryType)],
              count : Int, cost : Int]

Of(W, t) == {r \in W : TenantOf[r] = t}

Holds(q, W) ==
    /\ q \in QueueType
    /\ NoRepeats(q.order) /\ ToSet(q.order) = {t \in Tenant : q.bucket[t] # <<>>}
    /\ IF q.order = <<>> THEN q.cursor = 0 ELSE q.cursor < Len(q.order)
    /\ \A t \in Tenant : Filed(q.bucket[t], Of(W, t))
    /\ q.count = Cardinality(W) /\ q.cost = TotalCost(W)

LEMMA HoldsNobody == Holds(EmptyQueue, {})
<1> DEFINE q == EmptyQueue
<1>1. <<>> \in Seq(Tenant) /\ <<>> \in Seq(EntryType) /\ ToSet(<<>>) = {}
  BY NothingQueued
<1>2. NoRepeats(<<>>)
  BY NothingQueued, Zenon DEF NoRepeats
<1>3. q.order = <<>> /\ q.cursor = 0 /\ q.count = 0 /\ q.cost = 0
      /\ \A t \in Tenant : q.bucket[t] = <<>>
  BY DEF EmptyQueue
<1>4. q \in QueueType
  BY <1>1 DEF EmptyQueue, QueueType
<1>5. \A t \in Tenant : Of({}, t) = {}
  BY DEF Of
<1>6. \A t \in Tenant : Filed(q.bucket[t], Of({}, t))
  BY <1>3, <1>5, FiledEmpty
<1> HIDE DEF q
<1>7. ToSet(q.order) = {t \in Tenant : q.bucket[t] # <<>>}
  BY <1>1, <1>3
<1>8. Holds(q, {})
  BY <1>2, <1>3, <1>4, <1>6, <1>7, WeighsNothing DEF Holds
<1> QED BY <1>8 DEF q

LEMMA NoEntries == Entries(EmptyQueue) = {} /\ InQueue(EmptyQueue) = {}
<1>1. \A t \in Tenant : EmptyQueue.bucket[t] = <<>>
  BY DEF EmptyQueue
<1>2. Range(<<>>) = {}
  BY NothingQueued, InjectiveQueue
<1>3. Entries(EmptyQueue) = {}
  BY <1>1, <1>2 DEF Entries
<1> QED BY <1>3 DEF InQueue

LEMMA HoldsFacts ==
    ASSUME NEW W \in SUBSET Request, NEW q, Holds(q, W)
    PROVE  /\ InQueue(q) = W /\ Tidy(q) /\ q.count \in Nat
           /\ q.count = 0 <=> W = {}
           /\ q.order = <<>> <=> W = {}
           /\ Len(q.order) \in Nat /\ (q.order # <<>> => Len(q.order) >= 1)
<1>1. /\ q.order \in Seq(Tenant) /\ q.bucket \in [Tenant -> Seq(EntryType)]
      /\ \A t \in Tenant : q.bucket[t] \in Seq(EntryType)
  BY DEF Holds, QueueType
<1>2. \A t \in Tenant : Filed(q.bucket[t], Of(W, t))
  BY DEF Holds
<1>3. \A t \in Tenant : Range(q.bucket[t]) = ToSet(q.bucket[t])
  BY <1>1, InjectiveQueue
<1>4. InQueue(q) = W
  <2>1. \A r \in W : TenantOf[r] \in Tenant /\ r \in Of(W, TenantOf[r])
    BY Weights DEF Of
  <2>2. \A t \in Tenant : {e.id : e \in ToSet(q.bucket[t])} = Of(W, t)
    BY <1>2 DEF Filed
  <2>3. Entries(q) = UNION {ToSet(q.bucket[t]) : t \in Tenant}
    BY <1>3 DEF Entries
  <2>4. InQueue(q) = UNION {{e.id : e \in ToSet(q.bucket[t])} : t \in Tenant}
    BY <2>3 DEF InQueue
  <2>5. InQueue(q) = UNION {Of(W, t) : t \in Tenant}
    BY <2>2, <2>4
  <2>6. UNION {Of(W, t) : t \in Tenant} = W
    BY <2>1 DEF Of
  <2> QED BY <2>5, <2>6
<1>5. q.count \in Nat /\ (q.count = 0 <=> W = {})
  BY Weighed DEF Holds
<1>6. q.order = <<>> <=> W = {}
  <2>1. q.order = <<>> <=> ToSet(q.order) = {}
    BY <1>1, HeadPrecedes
  <2>2. \A t \in Tenant : q.bucket[t] = <<>> <=> Of(W, t) = {}
    BY <1>2, FiledFacts
  <2>3. ToSet(q.order) = {t \in Tenant : q.bucket[t] # <<>>}
    BY DEF Holds
  <2>4. W = {} <=> \A t \in Tenant : Of(W, t) = {}
    BY Weights DEF Of
  <2> QED BY <2>1, <2>2, <2>3, <2>4
<1>7. Len(q.order) \in Nat /\ (q.order # <<>> => Len(q.order) >= 1)
  BY <1>1, LenProperties, EmptySeq
<1>8. IsInjective(q.order) /\ Range(q.order) = {t \in Tenant : q.bucket[t] # <<>>}
  BY <1>1, InjectiveQueue DEF Holds
<1>9. Tidy(q)
  BY <1>4, <1>8 DEF Tidy, Holds
<1> QED BY <1>4, <1>5, <1>6, <1>7, <1>9

-----------------------------------------------------------------------------
(* The places of a queue, and the one that is chosen.                      *)

TenantAt(q, i) == q.order[Index(q, i) + 1]

LEMMA HeadIs == \A q, i : HeadAt(q, i) = Head(q.bucket[TenantAt(q, i)])
BY DEF HeadAt, TenantAt

\* A tenant with a bucket, and its first entry.
LEMMA BucketFacts ==
    ASSUME NEW W \in SUBSET Request, NEW q, Holds(q, W), NEW t \in Tenant, q.bucket[t] # <<>>,
           NEW h, h = Head(q.bucket[t])
    PROVE  /\ h \in ToSet(q.bucket[t]) /\ h \in EntryType /\ h \in Entries(q)
           /\ h.id \in W /\ TenantOf[h.id] = t /\ h.cost = CostOf[h.id]
<1>1. Filed(q.bucket[t], Of(W, t)) /\ q.bucket[t] \in Seq(EntryType)
  BY DEF Holds, Filed
<1>2. h \in ToSet(q.bucket[t]) /\ h \in EntryType /\ h.id \in Of(W, t) /\ h.cost = CostOf[h.id]
  BY <1>1, FiledFacts
<1>3. h \in Entries(q)
  BY <1>1, <1>2, InjectiveQueue DEF Entries
<1>4. h.id \in W /\ TenantOf[h.id] = t
  BY <1>2 DEF Of
<1> QED BY <1>2, <1>3, <1>4

LEMMA PlaceFacts ==
    ASSUME NEW W \in SUBSET Request, NEW q, Holds(q, W), NEW i \in Places(q)
    PROVE  /\ q.order # <<>> /\ Index(q, i) \in 0..Len(q.order) - 1
           /\ TenantAt(q, i) \in Tenant /\ q.bucket[TenantAt(q, i)] # <<>>
<1>1. q.order \in Seq(Tenant) /\ q.cursor \in Nat /\ Len(q.order) \in Nat
      /\ DOMAIN q.order = 1..Len(q.order)
  BY LenProperties DEF Holds, QueueType
<1>2. i \in Nat /\ Len(q.order) >= 1
  BY <1>1 DEF Places
<1>3. q.order # <<>>
  BY <1>2, NothingQueued
<1>4. q.cursor + i \in Nat
  BY <1>1, <1>2
<1>5. Index(q, i) \in 0..Len(q.order) - 1
  BY <1>1, <1>2, <1>4 DEF Index
<1>6. TenantAt(q, i) \in ToSet(q.order)
  <2>1. Index(q, i) + 1 \in DOMAIN q.order
    BY <1>1, <1>5
  <2> QED BY <2>1 DEF TenantAt, ToSet
<1>7. ToSet(q.order) = {t \in Tenant : q.bucket[t] # <<>>}
  BY DEF Holds
<1> QED BY <1>3, <1>5, <1>6, <1>7

LEMMA HeadAtFacts ==
    ASSUME NEW W \in SUBSET Request, NEW q, Holds(q, W), NEW i \in Places(q)
    PROVE  LET h == HeadAt(q, i)
           IN  /\ h \in EntryType /\ h.id \in W /\ h.id \in Request /\ h.cost = CostOf[h.id]
               /\ h \in ToSet(q.bucket[TenantAt(q, i)]) /\ h \in Entries(q)
<1>1. PICK t \in Tenant : t = TenantAt(q, i) /\ q.bucket[t] # <<>>
  BY PlaceFacts
<1>2. HeadAt(q, i) = Head(q.bucket[t])
  BY <1>1, HeadIs
<1> DEFINE h == HeadAt(q, i)
<1>3. /\ h \in ToSet(q.bucket[t]) /\ h \in EntryType /\ h \in Entries(q)
      /\ h.id \in W /\ h.cost = CostOf[h.id]
  <2> HIDE DEF h
  <2>1. h = Head(q.bucket[t])
    BY <1>2 DEF h
  <2>2. h \in ToSet(q.bucket[t]) /\ h \in EntryType /\ h \in Entries(q) /\ h.id \in W
    BY <1>1, <2>1, BucketFacts
  <2>3. h.cost = CostOf[h.id]
    BY <2>2, FiledFacts DEF Holds
  <2> QED BY <2>2, <2>3
<1>4. h.id \in Request
  BY <1>3
<1> QED BY <1>1, <1>3, <1>4

\* Every tenant with a bucket has a place.
LEMMA PlaceOf ==
    ASSUME NEW W \in SUBSET Request, NEW q, Holds(q, W), NEW t \in Tenant, q.bucket[t] # <<>>
    PROVE  \E i \in Places(q) : TenantAt(q, i) = t
<1> DEFINE n == Len(q.order)
           c == q.cursor
<1>1. q.order \in Seq(Tenant) /\ c \in Nat /\ n \in Nat /\ DOMAIN q.order = 1..n
  BY LenProperties DEF Holds, QueueType
<1>2. t \in ToSet(q.order)
  BY DEF Holds
<1>3. PICK m \in 1..n : q.order[m] = t
  BY <1>1, <1>2 DEF ToSet
<1>4. c < n
  <2>1. q.order # <<>>
    BY <1>1, <1>3, NothingQueued
  <2> QED BY <2>1 DEF Holds
<1> DEFINE i == IF m - 1 >= c THEN m - 1 - c ELSE m - 1 - c + n
<1>5. i \in 0..n - 1 /\ (c + i = m - 1 \/ c + i = m - 1 + n)
  BY <1>1, <1>3, <1>4
<1>6. (m - 1) % n = m - 1 /\ (m - 1 + n) % n = m - 1
  <2>1. m - 1 \in 0..n - 1
    BY <1>1, <1>3
  <2> HIDE DEF n, c, i
  <2> QED BY <1>1, <2>1
<1>7. (c + i) % n = m - 1
  <2> HIDE DEF n, c, i
  <2> QED BY <1>5, <1>6
<1>8. (m - 1) + 1 = m
  BY <1>1, <1>3
<1>9. TenantAt(q, i) = t
  BY <1>3, <1>7, <1>8 DEF TenantAt, Index
<1>10. i \in Places(q)
  BY <1>5 DEF Places
<1> QED BY <1>9, <1>10

\* Who is chosen is there and fits; while a head is aged, it is an aged one and
\* came no later.
LEMMA ChoiceFacts ==
    ASSUME NEW W \in SUBSET Request, NEW q, Holds(q, W), NEW free \in Int,
           NEW i \in Choice(q, free)
    PROVE  /\ i \in Places(q) /\ HeadAt(q, i).cost <= free
           /\ Aged(q) # {} => i \in Aged(q)
           /\ \A j \in Aged(q) : HeadAt(q, i).at <= HeadAt(q, j).at
<1>1. i \in Places(q) /\ HeadAt(q, i).cost <= free /\ (Aged(q) # {} => i \in Aged(q))
  BY DEF Choice, Aged, Fitting
<1>2. \A j \in Places(q) : HeadAt(q, j).at \in Nat
  <2> SUFFICES ASSUME NEW j \in Places(q) PROVE HeadAt(q, j).at \in Nat
    OBVIOUS
  <2>1. HeadAt(q, j) \in EntryType
    BY HeadAtFacts
  <2> QED BY <2>1 DEF EntryType
<1>3. ASSUME NEW j \in Aged(q) PROVE HeadAt(q, i).at <= HeadAt(q, j).at
  <2>1. j \in Places(q) /\ Aged(q) # {}
    BY DEF Aged
  <2>2. HeadAt(q, i).at \in Nat /\ HeadAt(q, j).at \in Nat
    BY <1>1, <1>2, <2>1
  <2>3. CASE i = j
    BY <2>2, <2>3
  <2>4. CASE i # j
    <3>1. \/ HeadAt(q, i).at < HeadAt(q, j).at
          \/ HeadAt(q, i).at = HeadAt(q, j).at /\ i < j
      BY <2>1, <2>4 DEF Choice
    <3> QED BY <2>2, <3>1
  <2> QED BY <2>3, <2>4
<1> QED BY <1>1, <1>3

\* Nobody fits where nothing is free.
LEMMA NoRoom ==
    ASSUME NEW W \in SUBSET Request, NEW q, Holds(q, W), NEW free \in Int, free <= 0
    PROVE  Choice(q, free) = {}
<1> SUFFICES ASSUME NEW i \in Choice(q, free) PROVE FALSE
  OBVIOUS
<1>1. i \in Places(q) /\ HeadAt(q, i).cost <= free
  BY ChoiceFacts
<1>2. HeadAt(q, i).cost = CostOf[HeadAt(q, i).id] /\ HeadAt(q, i).id \in Request
  BY <1>1, HeadAtFacts
<1>3. CostOf[HeadAt(q, i).id] \in Nat /\ CostOf[HeadAt(q, i).id] >= 1
  BY <1>2, Weights
<1> QED BY <1>1, <1>2, <1>3

-----------------------------------------------------------------------------
(* What the operations of a queue keep.                                    *)

\* p is q with the entry e, which goes before nobody.
Joined(p, q, e) ==
    /\ Entries(p) = Entries(q) \cup {e}
    /\ \A t \in Tenant : q.bucket[t] # <<>> =>
          p.bucket[t] # <<>> /\ Head(p.bucket[t]) = Head(q.bucket[t])

LEMMA EnqueueHolds ==
    ASSUME NEW W \in SUBSET Request, NEW q, Holds(q, W), NEW r \in Request \ W,
           NEW e \in EntryType, e.id = r, e.cost = CostOf[r]
    PROVE  LET p == Enqueue(q, TenantOf[r], e)
           IN  Holds(p, W \cup {r}) /\ Joined(p, q, e)
<1> DEFINE t == TenantOf[r]
           p == Enqueue(q, t, e)
           s == Append(q.bucket[t], e)
<1>1. t \in Tenant
  BY Weights
<1>2. /\ q.order \in Seq(Tenant) /\ q.cursor \in Nat /\ q.bucket \in [Tenant -> Seq(EntryType)]
      /\ q.count \in Int /\ q.cost \in Int
  BY DEF Holds, QueueType
<1>3. /\ p.order = IF q.bucket[t] = <<>> THEN Append(q.order, t) ELSE q.order
      /\ p.cursor = q.cursor /\ p.bucket = [q.bucket EXCEPT ![t] = s]
      /\ p.count = q.count + 1 /\ p.cost = q.cost + e.cost
      /\ p = [order |-> p.order, cursor |-> p.cursor, bucket |-> p.bucket, count |-> p.count,
              cost |-> p.cost]
  <2> HIDE DEF t
  <2>1. q = [order |-> q.order, cursor |-> q.cursor, bucket |-> q.bucket, count |-> q.count,
             cost |-> q.cost]
    BY DEF Holds, QueueType
  <2> DEFINE A == IF q.bucket[t] = <<>> THEN Append(q.order, t) ELSE q.order
             B == [q.bucket EXCEPT ![t] = s]
  <2>2. p = [q EXCEPT !.order = A, !.bucket = B, !.count = q.count + 1, !.cost = q.cost + e.cost]
    BY DEF Enqueue
  <2> HIDE DEF A, B, p
  <2>3. p = [order |-> A, cursor |-> q.cursor, bucket |-> B, count |-> q.count + 1,
             cost |-> q.cost + e.cost]
    BY <2>1, <2>2
  <2>4. p.order = A /\ p.cursor = q.cursor /\ p.bucket = B /\ p.count = q.count + 1
        /\ p.cost = q.cost + e.cost
        /\ p = [order |-> p.order, cursor |-> p.cursor, bucket |-> p.bucket, count |-> p.count,
                cost |-> p.cost]
    BY <2>3
  <2> QED BY <2>4 DEF A, B
<1>4. r \notin Of(W, t) /\ Of(W \cup {r}, t) = Of(W, t) \cup {r}
      /\ \A u \in Tenant \ {t} : Of(W \cup {r}, u) = Of(W, u)
  BY DEF Of
<1>5. /\ Filed(s, Of(W, t) \cup {r})
      /\ q.bucket[t] # <<>> => Head(s) = Head(q.bucket[t])
      /\ ToSet(s) = ToSet(q.bucket[t]) \cup {e}
  <2>1. Filed(q.bucket[t], Of(W, t))
    BY <1>1 DEF Holds
  <2> HIDE DEF t
  <2> QED BY <1>4, <2>1, FiledAppend
<1>6. s \in Seq(EntryType) /\ s # <<>>
  <2>1. s \in Seq(EntryType)
    BY <1>5 DEF Filed
  <2>2. e \in ToSet(s)
    BY <1>5
  <2> QED BY <2>1, <2>2, NothingQueued
<1> HIDE DEF p, s
<1>7. /\ p.bucket \in [Tenant -> Seq(EntryType)] /\ p.bucket[t] = s
      /\ \A u \in Tenant \ {t} : p.bucket[u] = q.bucket[u]
  BY <1>1, <1>2, <1>3, <1>6
<1>8. ASSUME NEW u \in Tenant PROVE Filed(p.bucket[u], Of(W \cup {r}, u))
  <2>1. CASE u = t
    BY <1>4, <1>5, <1>7, <2>1
  <2>2. CASE u # t
    BY <1>4, <1>7, <2>2 DEF Holds
  <2> QED BY <2>1, <2>2
<1>9. /\ p.order \in Seq(Tenant) /\ NoRepeats(p.order) /\ p.order # <<>>
      /\ ToSet(p.order) = {u \in Tenant : p.bucket[u] # <<>>} /\ p.cursor < Len(p.order)
  <2>1. NoRepeats(q.order) /\ ToSet(q.order) = {u \in Tenant : q.bucket[u] # <<>>}
    BY DEF Holds
  <2>2. {u \in Tenant : p.bucket[u] # <<>>} = {u \in Tenant : q.bucket[u] # <<>>} \cup {t}
    BY <1>1, <1>6, <1>7
  <2>3. Len(q.order) \in Nat /\ (q.order = <<>> => Len(q.order) = 0)
    BY <1>2, LenProperties, NothingQueued
  <2>4. CASE q.bucket[t] = <<>>
    <3>1. p.order = Append(q.order, t)
      BY <1>3, <2>4
    <3>2. t \notin ToSet(q.order)
      BY <2>1, <2>4
    <3>3. /\ p.order \in Seq(Tenant) /\ Len(p.order) = Len(q.order) + 1
          /\ ToSet(p.order) = ToSet(q.order) \cup {t}
          /\ \A a, b : Precedes(p.order, a, b)
                          <=> Precedes(q.order, a, b) \/ (a \in ToSet(q.order) /\ b = t)
      BY <1>1, <1>2, <3>1, AppendQueue
    <3>4. NoRepeats(p.order)
      BY <2>1, <3>2, <3>3 DEF NoRepeats
    <3>5. p.order # <<>>
      BY <3>3, NothingQueued
    <3>6. p.cursor < Len(p.order)
      <4>1. q.cursor <= Len(q.order)
        BY <1>2, <2>3 DEF Holds
      <4> QED BY <1>2, <1>3, <2>3, <3>3, <4>1
    <3> QED BY <2>1, <2>2, <3>3, <3>4, <3>5, <3>6
  <2>5. CASE q.bucket[t] # <<>>
    <3>1. p.order = q.order /\ t \in ToSet(q.order)
      BY <1>1, <1>3, <2>1, <2>5
    <3>2. q.order # <<>>
      BY <3>1, NothingQueued
    <3>3. p.cursor < Len(p.order)
      BY <1>3, <3>1, <3>2 DEF Holds
    <3> QED BY <1>2, <2>1, <2>2, <3>1, <3>2, <3>3
  <2> QED BY <2>4, <2>5
<1>10. p.count = Cardinality(W \cup {r}) /\ p.cost = TotalCost(W \cup {r})
  BY <1>3, Weighed DEF Holds
<1>11. p \in QueueType
  <2>1. CostOf[r] \in Nat
    BY Weights
  <2>2. p.count \in Int /\ p.cost \in Int /\ p.cursor \in Nat
    BY <1>2, <1>3, <2>1
  <2> QED BY <1>3, <1>7, <1>9, <2>2 DEF QueueType
<1>12. Holds(p, W \cup {r})
  BY <1>8, <1>9, <1>10, <1>11 DEF Holds
<1>13. Entries(p) = Entries(q) \cup {e}
  <2>1. \A u \in Tenant : Range(p.bucket[u]) = ToSet(p.bucket[u])
                          /\ Range(q.bucket[u]) = ToSet(q.bucket[u])
    BY <1>2, <1>7, InjectiveQueue
  <2>2. Entries(p) = UNION {ToSet(p.bucket[u]) : u \in Tenant}
        /\ Entries(q) = UNION {ToSet(q.bucket[u]) : u \in Tenant}
    BY <2>1 DEF Entries
  <2>3. ToSet(p.bucket[t]) = ToSet(q.bucket[t]) \cup {e}
        /\ \A u \in Tenant \ {t} : ToSet(p.bucket[u]) = ToSet(q.bucket[u])
    BY <1>5, <1>7
  <2> QED BY <1>1, <2>2, <2>3
<1>14. ASSUME NEW u \in Tenant, q.bucket[u] # <<>>
       PROVE  p.bucket[u] # <<>> /\ Head(p.bucket[u]) = Head(q.bucket[u])
  BY <1>5, <1>6, <1>7, <1>14
<1>15. /\ Holds(p, W \cup {r}) /\ Entries(p) = Entries(q) \cup {e}
       /\ \A u \in Tenant : q.bucket[u] # <<>> =>
             p.bucket[u] # <<>> /\ Head(p.bucket[u]) = Head(q.bucket[u])
  BY <1>12, <1>13, <1>14
<1> QED BY <1>15 DEF p, t, Joined

\* p is q with s for the bucket of tenant t, which may be gone with it.
LessBy(p, q, t, e, s) ==
    /\ p \in [order : {IF s = <<>> THEN Without(q.order, t) ELSE q.order}, cursor : Nat,
              bucket : {[q.bucket EXCEPT ![t] = s]}, count : {q.count - 1},
              cost : {q.cost - e.cost}]
    /\ IF p.order = <<>> THEN p.cursor = 0 ELSE p.cursor < Len(p.order)

\* An entry gone, the others wait on.
LEMMA LessHolds ==
    ASSUME NEW W \in SUBSET Request, NEW q, Holds(q, W), NEW t \in Tenant,
           NEW e \in ToSet(q.bucket[t]), NEW s, Filed(s, Of(W, t) \ {e.id}),
           NEW p, LessBy(p, q, t, e, s)
    PROVE  Holds(p, W \ {e.id}) /\ e.id \in W
<1>1. /\ q.order \in Seq(Tenant) /\ q.bucket \in [Tenant -> Seq(EntryType)]
      /\ q.count \in Int /\ q.cost \in Int
  BY DEF Holds, QueueType
<1>2. /\ p.order = IF s = <<>> THEN Without(q.order, t) ELSE q.order
      /\ p.cursor \in Nat /\ p.bucket = [q.bucket EXCEPT ![t] = s]
      /\ p.count = q.count - 1 /\ p.cost = q.cost - e.cost
      /\ p = [order |-> p.order, cursor |-> p.cursor, bucket |-> p.bucket, count |-> p.count,
              cost |-> p.cost]
  BY DEF LessBy
<1>3. e.id \in Of(W, t) /\ e.id \in Request /\ e.cost = CostOf[e.id]
  BY FiledFacts DEF Holds
<1>4. e.id \in W /\ TenantOf[e.id] = t
  BY <1>3 DEF Of
<1>5. Of(W \ {e.id}, t) = Of(W, t) \ {e.id}
      /\ \A u \in Tenant \ {t} : Of(W \ {e.id}, u) = Of(W, u)
  BY <1>4 DEF Of
<1>6. s \in Seq(EntryType)
  BY DEF Filed
<1>7. /\ p.bucket \in [Tenant -> Seq(EntryType)] /\ p.bucket[t] = s
      /\ \A u \in Tenant \ {t} : p.bucket[u] = q.bucket[u]
  BY <1>1, <1>2, <1>6
<1>8. ASSUME NEW u \in Tenant PROVE Filed(p.bucket[u], Of(W \ {e.id}, u))
  <2>1. CASE u = t
    BY <1>5, <1>7, <2>1
  <2>2. CASE u # t
    BY <1>5, <1>7, <2>2 DEF Holds
  <2> QED BY <2>1, <2>2
<1>9. /\ p.order \in Seq(Tenant) /\ NoRepeats(p.order)
      /\ ToSet(p.order) = {u \in Tenant : p.bucket[u] # <<>>}
  <2>1. NoRepeats(q.order) /\ ToSet(q.order) = {u \in Tenant : q.bucket[u] # <<>>}
    BY DEF Holds
  <2>2. /\ Without(q.order, t) \in Seq(Tenant) /\ ToSet(Without(q.order, t)) = ToSet(q.order) \ {t}
        /\ NoRepeats(Without(q.order, t))
    BY <1>1, <2>1, WithoutProperties
  <2>3. q.bucket[t] # <<>>
    BY NothingQueued
  <2>4. {u \in Tenant : p.bucket[u] # <<>>} =
           IF s = <<>> THEN {u \in Tenant : q.bucket[u] # <<>>} \ {t}
           ELSE {u \in Tenant : q.bucket[u] # <<>>}
    BY <1>7, <2>3
  <2> QED BY <1>1, <1>2, <2>1, <2>2, <2>4
<1>10. p.count = Cardinality(W \ {e.id}) /\ p.cost = TotalCost(W \ {e.id})
  <2>1. /\ Cardinality(W \ {e.id}) = Cardinality(W) - 1
        /\ TotalCost(W \ {e.id}) = TotalCost(W) - CostOf[e.id]
    BY <1>4, WeighedLess
  <2>2. q.count = Cardinality(W) /\ q.cost = TotalCost(W)
    BY DEF Holds
  <2> QED BY <1>2, <1>3, <2>1, <2>2
<1>11. p \in QueueType
  <2>1. p.count \in Int /\ p.cost \in Int
    <3>1. CostOf[e.id] \in Nat
      BY <1>3, Weights
    <3> QED BY <1>1, <1>2, <1>3, <3>1
  <2> QED BY <1>2, <1>7, <1>9, <2>1 DEF QueueType
<1>12. IF p.order = <<>> THEN p.cursor = 0 ELSE p.cursor < Len(p.order)
  BY DEF LessBy
<1>13. Holds(p, W \ {e.id})
  BY <1>8, <1>9, <1>10, <1>11, <1>12, Zenon DEF Holds
<1> QED BY <1>4, <1>13

\* The first of a queue stays the first when another one leaves.
LEMMA HeadStays ==
    ASSUME NEW T, NEW s \in Seq(T), NoRepeats(s), NEW e, s # <<>>, e # Head(s)
    PROVE  Without(s, e) # <<>> /\ Head(Without(s, e)) = Head(s)
<1> DEFINE u == Without(s, e)
           h == Head(s)
<1>1. /\ u \in Seq(T) /\ ToSet(u) = ToSet(s) \ {e} /\ NoRepeats(u)
      /\ \A a, b : Precedes(u, a, b) <=> Precedes(s, a, b) /\ a # e /\ b # e
  BY WithoutProperties
<1>2. h \in ToSet(s) /\ \A b \in ToSet(s) : b # h => Precedes(s, h, b)
  BY HeadPrecedes
<1>3. h \in ToSet(u)
  BY <1>1, <1>2
<1> HIDE DEF u
<1>4. u # <<>>
  BY <1>3, NothingQueued
<1>5. Head(u) \in ToSet(u) /\ \A b \in ToSet(u) : b # Head(u) => Precedes(u, Head(u), b)
  BY <1>1, <1>4, HeadPrecedes
<1>6. Head(u) = h
  <2> SUFFICES ASSUME Head(u) # h PROVE FALSE
    OBVIOUS
  <2>1. Precedes(u, Head(u), h)
    BY <1>3, <1>5
  <2>2. Precedes(u, h, Head(u))
    <3>1. Head(u) \in ToSet(s) /\ Head(u) # e /\ h # e
      BY <1>1, <1>5
    <3>2. Precedes(s, h, Head(u))
      BY <1>2, <3>1
    <3> QED BY <1>1, <3>1, <3>2
  <2>3. /\ DOMAIN u = 1..Len(u) /\ Len(u) \in Nat /\ u # <<>>
        /\ Head(u) = u[1]
    BY <1>1, <1>4, LenProperties, HeadTailProperties
  <2>4. PICK i \in DOMAIN u, j \in DOMAIN u : i < j /\ u[i] = h /\ u[j] = Head(u)
    BY <2>2 DEF Precedes
  <2>5. 1 \in DOMAIN u /\ 1 < j /\ u[1] = u[j]
    BY <2>3, <2>4
  <2>6. Precedes(u, u[1], u[1])
    BY <2>4, <2>5 DEF Precedes
  <2> QED BY <1>1, <2>6 DEF NoRepeats
<1> QED BY <1>4, <1>6 DEF u, h

LEMMA TakeLess ==
    ASSUME NEW W \in SUBSET Request, NEW q, Holds(q, W), NEW idx \in 0..Len(q.order) - 1,
           NEW t \in Tenant, t = q.order[idx + 1], q.bucket[t] # <<>>
    PROVE  LessBy(TakeAt(q, idx), q, t, Head(q.bucket[t]), Tail(q.bucket[t]))
<1> DEFINE rest == Tail(q.bucket[t])
           order == IF rest = <<>> THEN Without(q.order, t) ELSE q.order
           cursor == IF order = <<>> THEN 0
                     ELSE IF rest = <<>> THEN idx % Len(order) ELSE (idx + 1) % Len(order)
           B == [q.bucket EXCEPT ![t] = rest]
           h == Head(q.bucket[t])
           p == TakeAt(q, idx)
<1>1. q.order \in Seq(Tenant) /\ Without(q.order, t) \in Seq(Tenant) /\ Len(q.order) \in Nat
  BY WithoutProperties, LenProperties DEF Holds, QueueType
<1>2. order \in Seq(Tenant)
  BY <1>1
<1>3. q = [order |-> q.order, cursor |-> q.cursor, bucket |-> q.bucket, count |-> q.count,
           cost |-> q.cost]
  BY DEF Holds, QueueType
<1>4. p = [q EXCEPT !.order = order, !.bucket = B, !.count = q.count - 1,
                    !.cost = q.cost - h.cost, !.cursor = cursor]
  BY DEF TakeAt
<1>5. cursor \in Nat /\ (IF order = <<>> THEN cursor = 0 ELSE cursor < Len(order))
  <2> HIDE DEF order, rest
  <2>1. CASE order = <<>>
    BY <2>1
  <2>2. CASE order # <<>>
    <3>1. Len(order) \in Nat /\ Len(order) > 0
      BY <1>2, <2>2, LenProperties, EmptySeq
    <3>2. idx \in Nat /\ idx + 1 \in Nat
      BY <1>1
    <3>3. idx % Len(order) \in 0..Len(order) - 1 /\ (idx + 1) % Len(order) \in 0..Len(order) - 1
      BY <3>1, <3>2
    <3>4. cursor \in 0..Len(order) - 1
      BY <2>2, <3>3
    <3> HIDE DEF cursor
    <3> QED BY <2>2, <3>1, <3>4
  <2> QED BY <2>1, <2>2
<1> HIDE DEF order, cursor, B, h, p
<1>6. p = [order |-> order, cursor |-> cursor, bucket |-> B, count |-> q.count - 1,
           cost |-> q.cost - h.cost]
  BY <1>3, <1>4
<1>7. /\ p \in [order : {order}, cursor : Nat, bucket : {B}, count : {q.count - 1},
                cost : {q.cost - h.cost}]
      /\ p.order = order /\ p.cursor = cursor
  BY <1>5, <1>6
<1> QED BY <1>5, <1>7 DEF LessBy, order, B, h, p

\* p has the buckets of q, that of t without its first.
Shifted(p, q, t) == p.bucket = [q.bucket EXCEPT ![t] = Tail(q.bucket[t])]

LEMMA TakeHolds ==
    ASSUME NEW W \in SUBSET Request, NEW q, Holds(q, W), NEW idx \in 0..Len(q.order) - 1,
           NEW t \in Tenant, t = q.order[idx + 1], q.bucket[t] # <<>>,
           NEW h, h = Head(q.bucket[t])
    PROVE  /\ Holds(TakeAt(q, idx), W \ {h.id}) /\ h.id \in W
           /\ Shifted(TakeAt(q, idx), q, t)
<1>1. Filed(q.bucket[t], Of(W, t))
  BY DEF Holds
<1>2. Filed(Tail(q.bucket[t]), Of(W, t) \ {h.id})
  BY <1>1, FiledTail
<1>3. h \in ToSet(q.bucket[t])
  BY <1>1, FiledFacts
<1>4. LessBy(TakeAt(q, idx), q, t, h, Tail(q.bucket[t]))
  BY TakeLess
<1>5. Shifted(TakeAt(q, idx), q, t)
  BY <1>4 DEF LessBy, Shifted
<1> QED BY <1>2, <1>3, <1>4, <1>5, LessHolds

\* The queue p is q but for the stamps and skips of its entries.
Redone(p, q) ==
    /\ p \in QueueType
    /\ p.order = q.order /\ p.cursor = q.cursor /\ p.count = q.count /\ p.cost = q.cost
    /\ \A t \in Tenant : Alike(q.bucket[t], p.bucket[t])

LEMMA AlikeFacts ==
    ASSUME NEW s \in Seq(EntryType), NEW u \in Seq(EntryType), Alike(s, u)
    PROVE  /\ u = <<>> <=> s = <<>>
           /\ s # <<>> => Head(u).id = Head(s).id /\ Head(u).cost = Head(s).cost
<1>1. Len(u) = Len(s)
  BY LenProperties DEF Alike
<1>2. u = <<>> <=> s = <<>>
  BY <1>1, EmptySeq
<1>3. ASSUME s # <<>> PROVE Head(u).id = Head(s).id /\ Head(u).cost = Head(s).cost
  <2>1. Head(u) = u[1] /\ Head(s) = s[1]
    BY <1>2, <1>3, HeadTailProperties
  <2>2. 1 \in DOMAIN s
    BY <1>3, LenProperties, EmptySeq
  <2> QED BY <2>1, <2>2 DEF Alike
<1> QED BY <1>2, <1>3

LEMMA RedoneHolds ==
    ASSUME NEW W \in SUBSET Request, NEW q, Holds(q, W), NEW p, Redone(p, q)
    PROVE  Holds(p, W)
<1>1. \A t \in Tenant : p.bucket[t] \in Seq(EntryType) /\ q.bucket[t] \in Seq(EntryType)
  BY DEF Holds, Redone, QueueType
<1>2. \A t \in Tenant : Filed(p.bucket[t], Of(W, t))
  BY <1>1, FiledAlike DEF Holds, Redone
<1>3. \A t \in Tenant : p.bucket[t] = <<>> <=> q.bucket[t] = <<>>
  BY <1>1, AlikeFacts DEF Redone
<1>4. ToSet(p.order) = {t \in Tenant : p.bucket[t] # <<>>}
  BY <1>3 DEF Holds, Redone
<1> QED BY <1>2, <1>4 DEF Holds, Redone

\* Those passed over were not aged yet.
LEMMA SkipRedone ==
    ASSUME NEW W \in SUBSET Request, NEW q, Holds(q, W), NEW i \in Places(q), Aged(q) = {}
    PROVE  Redone(SkipBefore(q, i), q)
<1> DEFINE p == SkipBefore(q, i)
           passed == {q.order[Index(q, j) + 1] : j \in 0..(i - 1)}
           skipped(s) == [s EXCEPT ![1].skips = @ + 1]
           B == [t \in Tenant |-> IF t \in passed THEN skipped(q.bucket[t]) ELSE q.bucket[t]]
<1>1. q \in QueueType /\ MaxSkips \in Nat
  BY SkipsAssumption DEF Holds
<1>2. q = [order |-> q.order, cursor |-> q.cursor, bucket |-> q.bucket, count |-> q.count,
           cost |-> q.cost]
  BY <1>1 DEF QueueType
<1>3. p = [q EXCEPT !.bucket = B]
  BY DEF SkipBefore
<1>4. ASSUME NEW t \in Tenant
      PROVE  B[t] \in Seq(EntryType) /\ Alike(q.bucket[t], B[t])
  <2> DEFINE s == q.bucket[t]
  <2>1. s \in Seq(EntryType) /\ DOMAIN s = 1..Len(s) /\ Len(s) \in Nat
    BY <1>1, LenProperties DEF QueueType
  <2>2. CASE t \notin passed
    BY <2>1, <2>2 DEF Alike
  <2>3. CASE t \in passed
    <3>1. PICK j \in 0..(i - 1) : TenantAt(q, j) = t
      BY <2>3 DEF TenantAt
    <3>2. j \in Places(q)
      <4>1. Len(q.order) \in Nat
        BY <1>1, LenProperties DEF QueueType
      <4> QED BY <4>1 DEF Places
    <3>3. s # <<>> /\ HeadAt(q, j) = Head(s) /\ HeadAt(q, j) \in EntryType
      <4>1. q.bucket[TenantAt(q, j)] # <<>>
        BY <3>2, PlaceFacts
      <4>2. HeadAt(q, j) \in EntryType
        BY <3>2, HeadAtFacts
      <4>3. HeadAt(q, j) = Head(q.bucket[TenantAt(q, j)])
        BY HeadIs
      <4> QED BY <3>1, <4>1, <4>2, <4>3
    <3>4. Head(s).skips \in Nat /\ Head(s).skips < MaxSkips
      <4>1. ~(HeadAt(q, j).skips >= MaxSkips)
        BY <3>2 DEF Aged
      <4>2. HeadAt(q, j).skips \in 0..MaxSkips
        BY <3>3 DEF EntryType
      <4> QED BY <1>1, <3>3, <4>1, <4>2
    <3>5. s[1] = Head(s) /\ 1 \in DOMAIN s
      BY <2>1, <3>3, EmptySeq, HeadTailProperties
    <3> DEFINE e == [s[1] EXCEPT !.skips = @ + 1]
    <3>6. e \in EntryType /\ e.id = s[1].id /\ e.cost = s[1].cost
      <4>1. s[1] \in EntryType /\ s[1].skips + 1 \in 0..MaxSkips
        BY <1>1, <3>3, <3>4, <3>5
      <4> HIDE DEF s
      <4> QED BY <4>1 DEF EntryType
    <3>7. B[t] = [s EXCEPT ![1] = e]
      BY <2>3
    <3> HIDE DEF B, e, s
    <3>8. B[t] \in Seq(EntryType)
      BY <2>1, <3>5, <3>6, <3>7, ExceptSeq
    <3>9. Alike(s, B[t])
      BY <3>5, <3>6, <3>7 DEF Alike
    <3> QED BY <3>8, <3>9 DEF s
  <2> QED BY <2>2, <2>3
<1> HIDE DEF p, B
<1>5. B \in [Tenant -> Seq(EntryType)]
  <2>1. B = [t \in Tenant |-> B[t]]
    BY DEF B
  <2> QED BY <1>4, <2>1
<1>6. p = [order |-> q.order, cursor |-> q.cursor, bucket |-> B, count |-> q.count,
           cost |-> q.cost]
  BY <1>2, <1>3
<1>7. p \in QueueType
  BY <1>1, <1>5, <1>6 DEF QueueType
<1>8. p.order = q.order /\ p.cursor = q.cursor /\ p.count = q.count /\ p.cost = q.cost
      /\ p.bucket = B
  BY <1>6
<1> QED BY <1>4, <1>7, <1>8 DEF Redone, p

\* One is taken: it waited, and it fits.
LEMMA DequeueHolds ==
    ASSUME NEW W \in SUBSET Request, NEW q, Holds(q, W), NEW free \in Int,
           NEW i \in Choice(q, free), NEW h, h = HeadAt(q, i)
    PROVE  /\ h.id \in W /\ h \in Entries(q) /\ CostOf[h.id] <= free
           /\ Holds(Dequeue(q, i), W \ {h.id})
           /\ Aged(q) # {} =>
                 /\ h.skips >= MaxSkips
                 /\ Shifted(Dequeue(q, i), q, TenantAt(q, i))
<1> DEFINE idx == Index(q, i)
           p == IF Aged(q) # {} THEN q ELSE SkipBefore(q, i)
<1>1. i \in Places(q) /\ h.cost <= free /\ (Aged(q) # {} => i \in Aged(q))
  BY ChoiceFacts
<1>2. h.id \in W /\ h.cost = CostOf[h.id] /\ h \in Entries(q)
  BY <1>1, HeadAtFacts
<1>3. PICK t \in Tenant : t = TenantAt(q, i) /\ q.bucket[t] # <<>>
  BY <1>1, PlaceFacts
<1>4. idx \in 0..Len(q.order) - 1
  BY <1>1, PlaceFacts
<1>5. Dequeue(q, i) = TakeAt(p, idx)
  BY DEF Dequeue
<1>6. /\ p.order = q.order /\ Holds(p, W) /\ p.bucket[t] # <<>>
      /\ Head(p.bucket[t]).id = h.id
  <2>1. Head(q.bucket[t]) = h
    BY <1>3, HeadIs
  <2>2. CASE Aged(q) # {}
    BY <1>3, <2>1, <2>2
  <2>3. CASE Aged(q) = {}
    <3>1. p = SkipBefore(q, i)
      BY <2>3
    <3>2. Redone(p, q)
      BY <1>1, <2>3, <3>1, SkipRedone
    <3>3. q.bucket[t] \in Seq(EntryType) /\ p.bucket[t] \in Seq(EntryType)
      BY <3>2 DEF Redone, Holds, QueueType
    <3>4. Alike(q.bucket[t], p.bucket[t])
      BY <3>2 DEF Redone
    <3> HIDE DEF p
    <3>5. p.bucket[t] # <<>> /\ Head(p.bucket[t]).id = Head(q.bucket[t]).id
      BY <1>3, <3>3, <3>4, AlikeFacts
    <3> QED BY <2>1, <3>2, <3>5, RedoneHolds DEF Redone
  <2> QED BY <2>2, <2>3
<1>7. t = p.order[idx + 1] /\ idx \in 0..Len(p.order) - 1
  BY <1>3, <1>4, <1>6 DEF TenantAt
<1>8. /\ Holds(TakeAt(p, idx), W \ {h.id})
      /\ Shifted(TakeAt(p, idx), p, t)
  <2> HIDE DEF p, idx
  <2>1. PICK g : g = Head(p.bucket[t])
    OBVIOUS
  <2>2. /\ Holds(TakeAt(p, idx), W \ {g.id})
        /\ Shifted(TakeAt(p, idx), p, t)
    BY <1>6, <1>7, <2>1, TakeHolds
  <2> QED BY <1>6, <2>1, <2>2
<1>9. ASSUME Aged(q) # {}
      PROVE  /\ h.skips >= MaxSkips
             /\ Shifted(Dequeue(q, i), q, t)
  <2>1. p = q
    BY <1>9
  <2>2. h.skips >= MaxSkips
    BY <1>1, <1>9 DEF Aged
  <2> HIDE DEF p
  <2> QED BY <1>5, <1>8, <2>1, <2>2
<1>10. CostOf[h.id] <= free
  BY <1>1, <1>2
<1> HIDE DEF p, idx
<1>11. Holds(Dequeue(q, i), W \ {h.id})
  BY <1>5, <1>8
<1> QED BY <1>2, <1>3, <1>9, <1>10, <1>11

\* p keeps of q who is first for each tenant, unless it is id, and has nobody new.
Keeps(p, q, id) ==
    /\ Entries(p) \subseteq Entries(q)
    /\ \A t \in Tenant : q.bucket[t] # <<>> /\ Head(q.bucket[t]).id # id =>
          p.bucket[t] # <<>> /\ Head(p.bucket[t]) = Head(q.bucket[t])

LEMMA RemoveLess ==
    ASSUME NEW W \in SUBSET Request, NEW q, Holds(q, W), NEW t \in Tenant, NEW id \in Of(W, t)
    PROVE  \E e \in ToSet(q.bucket[t]) :
              /\ e.id = id
              /\ LessBy(RemoveId(q, t, id), q, t, e, Without(q.bucket[t], e))
<1> DEFINE gone == {e \in Range(q.bucket[t]) : e.id = id}
           e == CHOOSE e \in gone : TRUE
           rest == Without(q.bucket[t], e)
           order == IF rest = <<>> THEN Without(q.order, t) ELSE q.order
           ti == CHOOSE j \in 0..(Len(q.order) - 1) : q.order[j + 1] = t
           cursor == IF rest # <<>> THEN q.cursor
                     ELSE IF order = <<>> THEN 0
                     ELSE IF ti < q.cursor THEN q.cursor - 1
                     ELSE IF q.cursor >= Len(order) THEN 0 ELSE q.cursor
           B == [q.bucket EXCEPT ![t] = rest]
           p == RemoveId(q, t, id)
<1>1. /\ q.order \in Seq(Tenant) /\ q.bucket[t] \in Seq(EntryType) /\ q.cursor \in Nat
      /\ Len(q.order) \in Nat /\ DOMAIN q.order = 1..Len(q.order)
      /\ q = [order |-> q.order, cursor |-> q.cursor, bucket |-> q.bucket, count |-> q.count,
              cost |-> q.cost]
  BY LenProperties DEF Holds, QueueType
<1>2. Filed(q.bucket[t], Of(W, t)) /\ Range(q.bucket[t]) = ToSet(q.bucket[t])
  BY <1>1, InjectiveQueue DEF Holds
<1>3. gone # {} /\ e \in gone
  <2>1. \E f \in ToSet(q.bucket[t]) : f.id = id
    BY <1>2 DEF Filed
  <2>2. gone # {}
    BY <1>2, <2>1
  <2> HIDE DEF gone
  <2> QED BY <2>2
<1>4. e \in ToSet(q.bucket[t]) /\ e.id = id
  <2> HIDE DEF e
  <2> QED BY <1>2, <1>3
<1>5. t \in ToSet(q.order) /\ NoRepeats(q.order)
  <2>1. q.bucket[t] # <<>>
    BY <1>4, NothingQueued
  <2> QED BY <2>1 DEF Holds
<1>6. ti \in 0..Len(q.order) - 1
  <2>1. PICK m \in 1..Len(q.order) : q.order[m] = t
    BY <1>1, <1>5 DEF ToSet
  <2>2. m - 1 \in 0..(Len(q.order) - 1) /\ q.order[(m - 1) + 1] = t
    BY <1>1, <2>1
  <2>3. \E j \in 0..(Len(q.order) - 1) : q.order[j + 1] = t
    BY <2>2
  <2> QED BY <2>3
<1>7. /\ Without(q.order, t) \in Seq(Tenant) /\ Len(Without(q.order, t)) = Len(q.order) - 1
  <2> DEFINE u == Without(q.order, t)
  <2>1. u \in Seq(Tenant) /\ ToSet(u) = ToSet(q.order) \ {t} /\ NoRepeats(u)
    BY <1>1, <1>5, WithoutProperties
  <2> HIDE DEF u
  <2>2. IsFiniteSet(ToSet(q.order)) /\ Cardinality(ToSet(q.order)) = Len(q.order)
    BY <1>1, <1>5, LenIsCardinality
  <2>3. Cardinality(ToSet(u)) = Len(u)
    BY <2>1, LenIsCardinality
  <2>4. Cardinality(ToSet(q.order) \ {t}) = Cardinality(ToSet(q.order)) - 1
    BY <1>5, <2>2, FS_RemoveElement
  <2>5. Len(u) = Len(q.order) - 1
    BY <2>1, <2>2, <2>3, <2>4
  <2> QED BY <2>1, <2>5 DEF u
<1>8. IF q.order = <<>> THEN q.cursor = 0 ELSE q.cursor < Len(q.order)
  BY DEF Holds
<1>9. q.order # <<>>
  BY <1>5, NothingQueued
<1>10. cursor \in Nat /\ (IF order = <<>> THEN cursor = 0 ELSE cursor < Len(order))
  <2> HIDE DEF ti, rest
  <2>1. CASE rest # <<>>
    BY <1>1, <1>8, <1>9, <2>1
  <2>2. CASE rest = <<>>
    <3>1. order \in Seq(Tenant) /\ Len(order) = Len(q.order) - 1
      BY <1>7, <2>2
    <3> HIDE DEF order
    <3>2. order # <<>> => Len(order) > 0 /\ Len(order) \in Nat
      BY <3>1, LenProperties, EmptySeq
    <3> QED BY <1>1, <1>6, <1>8, <1>9, <2>2, <3>1, <3>2
  <2> QED BY <2>1, <2>2
<1>11. p = [q EXCEPT !.order = order, !.bucket = B, !.count = q.count - 1,
                     !.cost = q.cost - e.cost, !.cursor = cursor]
  BY <1>3 DEF RemoveId
<1> HIDE DEF gone, e, rest, order, ti, cursor, B, p
<1>12. p = [order |-> order, cursor |-> cursor, bucket |-> B, count |-> q.count - 1,
            cost |-> q.cost - e.cost]
  BY <1>1, <1>11
<1>13. /\ p \in [order : {order}, cursor : Nat, bucket : {B}, count : {q.count - 1},
                 cost : {q.cost - e.cost}]
       /\ p.order = order /\ p.cursor = cursor
  BY <1>10, <1>12
<1>14. LessBy(p, q, t, e, rest)
  BY <1>10, <1>13 DEF LessBy, order, B
<1> QED BY <1>4, <1>14 DEF p, rest

LEMMA RemoveHolds ==
    ASSUME NEW W \in SUBSET Request, NEW q, Holds(q, W), NEW t \in Tenant, NEW id
    PROVE  /\ Holds(RemoveId(q, t, id), W \ (Of(W, t) \cap {id}))
           /\ Keeps(RemoveId(q, t, id), q, id)
<1> DEFINE p == RemoveId(q, t, id)
<1>0. \A u \in Tenant : q.bucket[u] \in Seq(EntryType) /\ Filed(q.bucket[u], Of(W, u))
  BY DEF Holds, QueueType
<1>1. CASE id \in Of(W, t)
  <2>1. PICK e \in ToSet(q.bucket[t]) :
              e.id = id /\ LessBy(p, q, t, e, Without(q.bucket[t], e))
    BY <1>1, RemoveLess
  <2> DEFINE s == q.bucket[t]
             rest == Without(q.bucket[t], e)
  <2>2. Filed(rest, Of(W, t) \ {e.id}) /\ ToSet(rest) = ToSet(s) \ {e}
    BY <1>0, <2>1, FiledWithout
  <2>3. Holds(p, W \ {id})
    <3> HIDE DEF p, rest
    <3>1. LessBy(p, q, t, e, rest)
      BY <2>1 DEF rest
    <3> QED BY <2>1, <2>2, <3>1, LessHolds
  <2>4. W \ (Of(W, t) \cap {id}) = W \ {id}
    BY <1>1
  <2>5. p.bucket = [q.bucket EXCEPT ![t] = rest] /\ q.bucket \in [Tenant -> Seq(EntryType)]
    BY <2>1 DEF LessBy, Holds, QueueType
  <2> HIDE DEF p, rest
  <2>6. p.bucket[t] = rest /\ \A u \in Tenant \ {t} : p.bucket[u] = q.bucket[u]
    BY <2>5
  <2>7. \A u \in Tenant : Range(p.bucket[u]) \subseteq Range(q.bucket[u])
    <3>1. rest \in Seq(EntryType)
      BY <2>2 DEF Filed
    <3>2. Range(rest) = ToSet(rest) /\ Range(s) = ToSet(s)
      BY <1>0, <3>1, InjectiveQueue
    <3>3. Range(p.bucket[t]) \subseteq Range(q.bucket[t])
      BY <2>2, <2>6, <3>2
    <3> QED BY <2>6, <3>3
  <2>8. Entries(p) \subseteq Entries(q)
    BY <2>7 DEF Entries
  <2>9. ASSUME NEW u \in Tenant, q.bucket[u] # <<>>, Head(q.bucket[u]).id # id
        PROVE  p.bucket[u] # <<>> /\ Head(p.bucket[u]) = Head(q.bucket[u])
    <3>1. CASE u # t
      BY <2>6, <2>9, <3>1
    <3>2. CASE u = t
      <4>1. s \in Seq(EntryType) /\ NoRepeats(s) /\ s # <<>> /\ e # Head(s)
        BY <1>0, <2>1, <2>9, <3>2 DEF Filed
      <4>2. rest # <<>> /\ Head(rest) = Head(s)
        BY <4>1, HeadStays DEF rest
      <4> QED BY <2>6, <3>2, <4>2
    <3> QED BY <3>1, <3>2
  <2>10. Keeps(p, q, id)
    BY <2>8, <2>9 DEF Keeps
  <2> QED BY <2>3, <2>4, <2>10 DEF p
<1>2. CASE id \notin Of(W, t)
  <2>1. Range(q.bucket[t]) = ToSet(q.bucket[t])
    BY <1>0, InjectiveQueue
  <2>2. \A e \in ToSet(q.bucket[t]) : e.id # id
    BY <1>0, <1>2, FiledFacts
  <2>3. {e \in Range(q.bucket[t]) : e.id = id} = {}
    BY <2>1, <2>2
  <2>4. p = q
    BY <2>3 DEF RemoveId
  <2>5. W \ (Of(W, t) \cap {id}) = W
    BY <1>2
  <2>6. Keeps(q, q, id)
    BY DEF Keeps
  <2> QED BY <2>4, <2>5, <2>6
<1> QED BY <1>1, <1>2

-----------------------------------------------------------------------------
(* Stamps.                                                                 *)

LEMMA StampsFinite ==
    ASSUME NEW W \in SUBSET Request, NEW q, Holds(q, W)
    PROVE  /\ Entries(q) \subseteq EntryType /\ Stamps(q) \subseteq Nat /\ IsFiniteSet(Stamps(q))
           /\ W # {} => Stamps(q) # {}
<1> DEFINE f == [r \in W |-> (CHOOSE e \in Entries(q) : e.id = r).at]
<1>1. \A t \in Tenant : /\ Range(q.bucket[t]) = ToSet(q.bucket[t])
                        /\ ToSet(q.bucket[t]) \subseteq EntryType
                        /\ \A e \in ToSet(q.bucket[t]) : e.id \in Of(W, t)
                        /\ \A e, d \in ToSet(q.bucket[t]) : e.id = d.id => e = d
  <2> SUFFICES ASSUME NEW t \in Tenant
               PROVE  /\ Range(q.bucket[t]) = ToSet(q.bucket[t])
                      /\ ToSet(q.bucket[t]) \subseteq EntryType
                      /\ \A e \in ToSet(q.bucket[t]) : e.id \in Of(W, t)
                      /\ \A e, d \in ToSet(q.bucket[t]) : e.id = d.id => e = d
    OBVIOUS
  <2>1. q.bucket[t] \in Seq(EntryType) /\ Filed(q.bucket[t], Of(W, t))
    BY DEF Holds, QueueType
  <2>2. Range(q.bucket[t]) = ToSet(q.bucket[t])
    BY <2>1, InjectiveQueue
  <2>3. ToSet(q.bucket[t]) \subseteq EntryType /\ \A e \in ToSet(q.bucket[t]) : e.id \in Of(W, t)
    BY <2>1, FiledFacts
  <2>4. \A e, d \in ToSet(q.bucket[t]) : e.id = d.id => e = d
    BY <2>1 DEF Filed
  <2> QED BY <2>2, <2>3, <2>4
<1>2. \A e \in Entries(q) : \E t \in Tenant : e \in ToSet(q.bucket[t])
  BY <1>1 DEF Entries
<1>3. Entries(q) \subseteq EntryType
  BY <1>1, <1>2
<1>4. \A e, d \in Entries(q) : e.id = d.id => e = d
  <2> SUFFICES ASSUME NEW e \in Entries(q), NEW d \in Entries(q), e.id = d.id PROVE e = d
    OBVIOUS
  <2>1. PICK t \in Tenant : e \in ToSet(q.bucket[t])
    BY <1>2
  <2>2. PICK u \in Tenant : d \in ToSet(q.bucket[u])
    BY <1>2
  <2>3. e.id \in Of(W, t) /\ d.id \in Of(W, u)
    BY <1>1, <2>1, <2>2
  <2>4. t = u
    BY <2>3 DEF Of
  <2> QED BY <1>1, <2>1, <2>2, <2>4
<1>5. {e.id : e \in Entries(q)} = W
  BY HoldsFacts DEF InQueue
<1>6. Stamps(q) \subseteq Nat /\ (W # {} => Stamps(q) # {})
  <2>1. \A e \in Entries(q) : e.at \in Nat
    BY <1>3 DEF EntryType
  <2> QED BY <1>5, <2>1 DEF Stamps
<1>7. f \in Surjection(W, Stamps(q))
  <2>1. ASSUME NEW e \in Entries(q) PROVE e.id \in W /\ f[e.id] = e.at
    <3>1. e.id \in W
      BY <1>5
    <3>2. (CHOOSE d \in Entries(q) : d.id = e.id) = e
      BY <1>4
    <3> QED BY <3>1, <3>2
  <2>2. \A r \in W : \E e \in Entries(q) : e.id = r
    BY <1>5
  <2>3. \A r \in W : f[r] \in Stamps(q)
    <3> HIDE DEF f
    <3> QED BY <2>1, <2>2 DEF Stamps
  <2>4. \A a \in Stamps(q) : \E r \in W : f[r] = a
    <3> HIDE DEF f
    <3> QED BY <2>1 DEF Stamps
  <2>5. f = [r \in W |-> f[r]]
    OBVIOUS
  <2> HIDE DEF f
  <2>6. f \in [W -> Stamps(q)]
    BY <2>3, <2>5
  <2> QED BY <2>4, <2>6 DEF Surjection
<1>8. IsFiniteSet(Stamps(q))
  <2>1. IsFiniteSet(W)
    BY Weighed
  <2> HIDE DEF f
  <2> QED BY <1>7, <2>1, FS_Surjection DEF ExistsSurjection
<1> QED BY <1>3, <1>6, <1>8

LEMMA StampsNatural ==
    ASSUME NEW W \in SUBSET Request, NEW q, Holds(q, W)
    PROVE  NextStamps(q) \subseteq Nat
<1>1. IsFiniteSet(Stamps(q)) /\ (W # {} => Stamps(q) # {}) /\ (q.count = 0 <=> W = {})
  BY StampsFinite, HoldsFacts
<1>2. Cardinality(Stamps(q)) \in Nat /\ (Cardinality(Stamps(q)) = 0 => Stamps(q) = {})
  BY <1>1, FS_CardinalityType, FS_EmptySet
<1>3. CASE q.count = 0
  BY <1>3 DEF NextStamps
<1>4. CASE q.count # 0
  BY <1>1, <1>2, <1>4 DEF NextStamps
<1> QED BY <1>3, <1>4

LEMMA RankOrder ==
    ASSUME NEW W \in SUBSET Request, NEW q, Holds(q, W), NEW a \in Stamps(q), NEW b \in Stamps(q)
    PROVE  /\ Rank(q, a) \in Nat /\ Rank(q, b) \in Nat
           /\ Rank(q, a) < Rank(q, b) <=> a < b
           /\ Rank(q, a) = Rank(q, b) <=> a = b
<1>1. IsFiniteSet(Stamps(q)) /\ Stamps(q) \subseteq Nat
  BY StampsFinite
<1>2. ASSUME NEW x \in Stamps(q)
      PROVE  IsFiniteSet({y \in Stamps(q) : y < x}) /\ Rank(q, x) \in Nat
  <2>1. IsFiniteSet({y \in Stamps(q) : y < x})
    BY <1>1, FS_Subset
  <2> QED BY <2>1, FS_CardinalityType DEF Rank
<1>3. ASSUME NEW x \in Stamps(q), NEW y \in Stamps(q), x < y PROVE Rank(q, x) < Rank(q, y)
  <2> DEFINE X == {z \in Stamps(q) : z < x}
             Y == {z \in Stamps(q) : z < y}
  <2>1. X \subseteq Y /\ x \in Y /\ x \notin X
    BY <1>1, <1>3
  <2>2. IsFiniteSet(Y) /\ Rank(q, x) = Cardinality(X) /\ Rank(q, y) = Cardinality(Y)
        /\ Rank(q, x) \in Nat /\ Rank(q, y) \in Nat
    BY <1>2 DEF Rank
  <2> HIDE DEF X, Y
  <2>3. Cardinality(X) <= Cardinality(Y) /\ (Cardinality(X) = Cardinality(Y) => X = Y)
    BY <2>1, <2>2, FS_Subset
  <2> QED BY <2>1, <2>2, <2>3
<1>4. a \in Nat /\ b \in Nat /\ Rank(q, a) \in Nat /\ Rank(q, b) \in Nat
  BY <1>1, <1>2
<1>5. (a < b => Rank(q, a) < Rank(q, b)) /\ (b < a => Rank(q, b) < Rank(q, a))
  BY <1>3
<1> QED BY <1>4, <1>5

LEMMA RerankedBuckets ==
    ASSUME NEW W \in SUBSET Request, NEW q, Holds(q, W)
    PROVE  LET p == Reranked(q)
           IN  /\ Redone(p, q)
               /\ \A t \in Tenant : q.bucket[t] # <<>> =>
                     /\ Head(p.bucket[t]).cost = Head(q.bucket[t]).cost
                     /\ Head(p.bucket[t]).skips = Head(q.bucket[t]).skips
                     /\ Head(p.bucket[t]).at = Rank(q, Head(q.bucket[t]).at)
<1> DEFINE p == Reranked(q)
           reranked(s) == [k \in DOMAIN s |-> [s[k] EXCEPT !.at = Rank(q, @)]]
           B == [t \in Tenant |-> reranked(q.bucket[t])]
<1>1. /\ q \in QueueType
      /\ q = [order |-> q.order, cursor |-> q.cursor, bucket |-> q.bucket, count |-> q.count,
              cost |-> q.cost]
  BY DEF Holds, QueueType
<1>2. p = [q EXCEPT !.bucket = B]
  BY DEF Reranked
<1>3. ASSUME NEW t \in Tenant
      PROVE  /\ B[t] \in Seq(EntryType) /\ Alike(q.bucket[t], B[t])
             /\ q.bucket[t] # <<>> =>
                   /\ Head(B[t]).cost = Head(q.bucket[t]).cost
                   /\ Head(B[t]).skips = Head(q.bucket[t]).skips
                   /\ Head(B[t]).at = Rank(q, Head(q.bucket[t]).at)
  <2> DEFINE s == q.bucket[t]
             u == [k \in DOMAIN s |-> [s[k] EXCEPT !.at = Rank(q, @)]]
  <2>1. s \in Seq(EntryType) /\ Len(s) \in Nat /\ DOMAIN s = 1..Len(s)
        /\ Range(s) = ToSet(s)
    BY <1>1, LenProperties, InjectiveQueue DEF QueueType
  <2>2. B[t] = u
    OBVIOUS
  <2>3. ASSUME NEW k \in DOMAIN s PROVE s[k] \in EntryType /\ Rank(q, s[k].at) \in Nat
    <3>1. s[k] \in ToSet(s)
      BY DEF ToSet
    <3>2. s[k] \in Entries(q)
      BY <2>1, <3>1 DEF Entries
    <3>3. s[k] \in EntryType /\ s[k].at \in Stamps(q)
      BY <3>2, StampsFinite DEF Stamps
    <3> HIDE DEF s
    <3> QED BY <3>3, RankOrder
  <2> HIDE DEF s
  <2>4. ASSUME NEW k \in DOMAIN s
        PROVE  /\ u[k] \in EntryType /\ u[k].id = s[k].id /\ u[k].cost = s[k].cost
               /\ u[k].skips = s[k].skips /\ u[k].at = Rank(q, s[k].at)
    <3>1. u[k] = [s[k] EXCEPT !.at = Rank(q, s[k].at)]
      OBVIOUS
    <3> HIDE DEF u
    <3> QED BY <2>3, <3>1 DEF EntryType
  <2>5. u \in Seq(EntryType) /\ DOMAIN u = DOMAIN s
    <3>1. DOMAIN u = DOMAIN s /\ u = [k \in DOMAIN s |-> u[k]]
      OBVIOUS
    <3> HIDE DEF u
    <3>2. u \in [1..Len(s) -> EntryType]
      BY <2>1, <2>4, <3>1
    <3> QED BY <2>1, <3>1, <3>2, SeqDef
  <2> HIDE DEF u
  <2>6. Alike(s, u)
    BY <2>4, <2>5 DEF Alike
  <2>7. ASSUME s # <<>>
        PROVE  1 \in DOMAIN s /\ Head(s) = s[1] /\ Head(u) = u[1]
    <3>1. u # <<>>
      BY <2>1, <2>5, <2>6, <2>7, AlikeFacts
    <3> QED BY <2>1, <2>5, <2>7, <3>1, EmptySeq, HeadTailProperties
  <2>8. s # <<>> => /\ Head(u).cost = Head(s).cost /\ Head(u).skips = Head(s).skips
                    /\ Head(u).at = Rank(q, Head(s).at)
    BY <2>4, <2>7
  <2> HIDE DEF B
  <2> QED BY <2>2, <2>5, <2>6, <2>8 DEF s
<1>4. B = [t \in Tenant |-> B[t]]
  OBVIOUS
<1> HIDE DEF p, B
<1>5. B \in [Tenant -> Seq(EntryType)]
  BY <1>3, <1>4
<1>6. p = [order |-> q.order, cursor |-> q.cursor, bucket |-> B, count |-> q.count,
           cost |-> q.cost]
  BY <1>1, <1>2
<1>7. p \in QueueType
  BY <1>1, <1>5, <1>6 DEF QueueType
<1>8. p.order = q.order /\ p.cursor = q.cursor /\ p.count = q.count /\ p.cost = q.cost
      /\ p.bucket = B
  BY <1>6
<1>9. Redone(p, q)
  BY <1>3, <1>7, <1>8 DEF Redone
<1> QED BY <1>3, <1>8, <1>9 DEF p

\* Ranks serve as well as stamps.
LEMMA Reranking ==
    ASSUME NEW W \in SUBSET Request, NEW q, Holds(q, W)
    PROVE  /\ Holds(Reranked(q), W) /\ Reranked(q).count = q.count
           /\ \A free : Choice(Reranked(q), free) = Choice(q, free)
<1> DEFINE p == Reranked(q)
<1>1. /\ Redone(p, q)
      /\ \A t \in Tenant : q.bucket[t] # <<>> =>
                     /\ Head(p.bucket[t]).cost = Head(q.bucket[t]).cost
                     /\ Head(p.bucket[t]).skips = Head(q.bucket[t]).skips
                     /\ Head(p.bucket[t]).at = Rank(q, Head(q.bucket[t]).at)
  BY RerankedBuckets
<1> HIDE DEF p
<1>2. Holds(p, W) /\ p.count = q.count
  BY <1>1, RedoneHolds DEF Redone
<1>3. Places(p) = Places(q) /\ \A i : TenantAt(p, i) = TenantAt(q, i)
  BY <1>1 DEF Redone, Places, TenantAt, Index
<1>4. ASSUME NEW i \in Places(q)
      PROVE  /\ HeadAt(p, i).cost = HeadAt(q, i).cost /\ HeadAt(p, i).skips = HeadAt(q, i).skips
             /\ HeadAt(p, i).at = Rank(q, HeadAt(q, i).at) /\ HeadAt(q, i).at \in Stamps(q)
  <2>1. PICK t \in Tenant : t = TenantAt(q, i) /\ q.bucket[t] # <<>>
    BY PlaceFacts
  <2>2. HeadAt(q, i) = Head(q.bucket[t]) /\ HeadAt(p, i) = Head(p.bucket[t])
    BY <1>3, <2>1, HeadIs
  <2>3. HeadAt(q, i).at \in Stamps(q)
    BY HeadAtFacts DEF Stamps
  <2> QED BY <1>1, <2>1, <2>2, <2>3
<1>5. ASSUME NEW i \in Places(q), NEW j \in Places(q)
      PROVE  /\ HeadAt(p, i).at < HeadAt(p, j).at <=> HeadAt(q, i).at < HeadAt(q, j).at
             /\ HeadAt(p, i).at = HeadAt(p, j).at <=> HeadAt(q, i).at = HeadAt(q, j).at
  BY <1>4, RankOrder
<1>6. Aged(p) = Aged(q) /\ Aged(q) \subseteq Places(q)
  BY <1>3, <1>4 DEF Aged
<1>7. ASSUME NEW free PROVE Choice(p, free) = Choice(q, free)
  <2>1. Fitting(p, free) = Fitting(q, free)
    BY <1>3, <1>4 DEF Fitting
  <2>2. CASE Aged(q) = {}
    BY <1>6, <2>1, <2>2 DEF Choice
  <2>3. CASE Aged(q) # {}
    <3>1. ASSUME NEW i \in Aged(q)
          PROVE  /\ HeadAt(p, i).cost = HeadAt(q, i).cost
                 /\ \A j \in Aged(q) \ {i} :
                       (\/ HeadAt(p, i).at < HeadAt(p, j).at
                        \/ HeadAt(p, i).at = HeadAt(p, j).at /\ i < j)
                       <=> (\/ HeadAt(q, i).at < HeadAt(q, j).at
                            \/ HeadAt(q, i).at = HeadAt(q, j).at /\ i < j)
      BY <1>4, <1>5, <1>6
    <3> QED BY <1>6, <2>3, <3>1 DEF Choice
  <2> QED BY <2>2, <2>3
<1> QED BY <1>2, <1>7 DEF p

-----------------------------------------------------------------------------
(* The books: S waits in the shared queue, L in the lanes.                 *)

BookType == [queue : QueueType, lanes : [Tenant -> QueueType], active : SUBSET Request,
             cost : Int, overdue : SUBSET Request]

Apart(A, S, L) == A \cap S = {} /\ A \cap L = {} /\ S \cap L = {}

Right(b, S, L) ==
    /\ b \in BookType /\ Apart(b.active, S, L) /\ b.overdue \subseteq S \cup L
    /\ b.cost = TotalCost(b.active)
    /\ Holds(b.queue, S) /\ \A t \in Tenant : Holds(b.lanes[t], Of(L, t))

Good(b) == \E S, L \in SUBSET Request : Right(b, S, L)

LEMMA SettledFacts ==
    ASSUME NEW b \in BookType, NEW r \in Request, NEW x, x = Settled(b, r)
    PROVE  /\ x \in BookType /\ x.queue = b.queue /\ x.lanes = b.lanes
           /\ x.overdue = b.overdue \ {r}
           /\ r \in b.overdue => x.active = b.active /\ x.cost = b.cost
           /\ r \notin b.overdue => x.active = b.active \cup {r} /\ x.cost = b.cost + CostOf[r]
<1>1. b = [queue |-> b.queue, lanes |-> b.lanes, active |-> b.active, cost |-> b.cost,
           overdue |-> b.overdue]
  BY DEF BookType
<1>2. CostOf[r] \in Nat
  BY Weights
<1>3. CASE r \in b.overdue
  <2>1. x = [queue |-> b.queue, lanes |-> b.lanes, active |-> b.active, cost |-> b.cost,
             overdue |-> b.overdue \ {r}]
    BY <1>1, <1>3 DEF Settled
  <2> QED BY <1>3, <2>1 DEF BookType
<1>4. CASE r \notin b.overdue
  <2>1. x = [queue |-> b.queue, lanes |-> b.lanes, active |-> b.active \cup {r},
             cost |-> b.cost + CostOf[r], overdue |-> b.overdue]
    BY <1>1, <1>4 DEF Settled, Admitted
  <2>2. b.overdue = b.overdue \ {r}
    BY <1>4
  <2> QED BY <1>2, <1>4, <2>1, <2>2 DEF BookType
<1> QED BY <1>3, <1>4

\* y is b with only S and L left in the queues.
Taken(y, b, S, L) ==
    /\ y \in BookType /\ y.active = b.active /\ y.cost = b.cost /\ y.overdue = b.overdue
    /\ Holds(y.queue, S) /\ \A t \in Tenant : Holds(y.lanes[t], Of(L, t))

\* x is y with r, whom b had queued, rejected or active.
Leaving(b, y, x, r) ==
    /\ x.queue = y.queue /\ x.lanes = y.lanes
    /\ b.active \subseteq x.active /\ x.active \subseteq b.active \cup {r}
    /\ x.active = b.active \/ x.cost = b.cost + CostOf[r]

\* Who was taken from its queue leaves it for good, or is active.
LEMMA SettledRight ==
    ASSUME NEW S \in SUBSET Request, NEW L \in SUBSET Request, NEW b, Right(b, S, L),
           NEW r \in S \cup L, NEW y, Taken(y, b, S \ {r}, L \ {r})
    PROVE  /\ Right(Settled(y, r), S \ {r}, L \ {r})
           /\ Leaving(b, y, Settled(y, r), r)
<1> DEFINE x == Settled(y, r)
<1>0. y \in BookType /\ y.active = b.active /\ y.cost = b.cost /\ y.overdue = b.overdue
  BY DEF Taken
<1>1. r \in Request /\ r \notin b.active
  BY DEF Right, Apart
<1>2. /\ x \in BookType /\ x.queue = y.queue /\ x.lanes = y.lanes
      /\ x.overdue = b.overdue \ {r}
      /\ \/ x.active = b.active /\ x.cost = b.cost
         \/ x.active = b.active \cup {r} /\ x.cost = b.cost + CostOf[r]
  BY <1>0, <1>1, SettledFacts
<1> HIDE DEF x
<1>3. b.active \in SUBSET Request
  BY DEF Right, BookType
<1>4. x.cost = TotalCost(x.active)
  <2>1. TotalCost(b.active \cup {r}) = TotalCost(b.active) + CostOf[r]
    BY <1>1, <1>3, Weighed
  <2>2. b.cost = TotalCost(b.active)
    BY DEF Right
  <2> QED BY <1>2, <2>1, <2>2
<1>5. Apart(x.active, S \ {r}, L \ {r}) /\ x.overdue \subseteq (S \ {r}) \cup (L \ {r})
  BY <1>2 DEF Right, Apart
<1>6. Holds(x.queue, S \ {r}) /\ \A t \in Tenant : Holds(x.lanes[t], Of(L \ {r}, t))
  BY <1>2 DEF Taken
<1>7. Right(x, S \ {r}, L \ {r})
  BY <1>2, <1>4, <1>5, <1>6 DEF Right
<1> QED BY <1>2, <1>7 DEF Leaving, x

LEMMA RightFacts ==
    ASSUME NEW b, Good(b)
    PROVE  /\ b \in BookType /\ b.cost = TotalCost(b.active) /\ b.cost \in Nat
           /\ b.queue.count \in Nat /\ \A t \in Tenant : b.lanes[t].count \in Nat
           /\ \A free \in Int : free <= 0 => Choice(b.queue, free) = {}
           /\ b.queue.count = 0 => InQueue(b.queue) = {}
           /\ b.active = {} => b.cost = 0
<1>1. PICK S, L \in SUBSET Request : Right(b, S, L)
  BY DEF Good
<1>2. /\ Holds(b.queue, S)
      /\ \A t \in Tenant : Holds(b.lanes[t], Of(L, t)) /\ Of(L, t) \in SUBSET Request
  BY <1>1 DEF Right, Of
<1>3. b \in BookType /\ b.active \in SUBSET Request /\ b.cost = TotalCost(b.active)
  BY <1>1 DEF Right, BookType
<1>4. b.cost \in Nat
  BY <1>3, Weighed
<1>5. b.queue.count \in Nat /\ (b.queue.count = 0 => InQueue(b.queue) = {})
  BY <1>2, HoldsFacts
<1>6. \A t \in Tenant : b.lanes[t].count \in Nat
  BY <1>2, HoldsFacts
<1>7. \A free \in Int : free <= 0 => Choice(b.queue, free) = {}
  BY <1>2, NoRoom
<1>8. b.active = {} => b.cost = 0
  BY <1>3, WeighsNothing
<1> QED BY <1>3, <1>4, <1>5, <1>6, <1>7, <1>8

\* Whoever was reserved in b is gone from x, or is first in x as it was in b,
\* and whom x admitted was reserved as well and came no later.
ReservedIn(b, t) ==
    b.queue.bucket[t] # <<>> /\ Head(b.queue.bucket[t]).skips >= MaxSkips

BeforeHead(b, r, h) ==
    \E e \in Entries(b.queue) : e.id = r /\ e.at <= h.at /\ e.skips >= MaxSkips

Yields(b, x) ==
    \A t \in Tenant :
       ReservedIn(b, t) /\ Head(b.queue.bucket[t]).id \in InQueue(x.queue) =>
          /\ x.queue.bucket[t] # <<>> /\ Head(x.queue.bucket[t]) = Head(b.queue.bucket[t])
          /\ Entries(x.queue) \subseteq Entries(b.queue)
          /\ \A r \in x.active \ b.active : BeforeHead(b, r, Head(b.queue.bucket[t]))

\* What dispatching may do to the books.
Onward(b, x, lim) ==
    /\ Good(x) /\ b.active \subseteq x.active
    /\ x.active = b.active \/ x.cost <= lim
    /\ \A t \in Tenant : b.lanes[t].count = 0 => x.lanes[t].count = 0
    /\ InQueue(x.queue) \subseteq InQueue(b.queue)
    /\ Yields(b, x)

LEMMA OnwardStays == ASSUME NEW b, NEW lim, Good(b) PROVE Onward(b, b, lim)
BY DEF Onward, Yields, ReservedIn

LEMMA OnwardOn ==
    ASSUME NEW b, NEW x, NEW y, NEW lim, Onward(b, x, lim), Onward(x, y, lim)
    PROVE  Onward(b, y, lim)
<1>1. y.active = b.active \/ y.cost <= lim
  <2>1. CASE y.active = x.active
    <3>1. x.cost = TotalCost(x.active) /\ y.cost = TotalCost(y.active)
      BY RightFacts DEF Onward
    <3> QED BY <2>1, <3>1 DEF Onward
  <2>2. CASE y.active # x.active
    BY <2>2 DEF Onward
  <2> QED BY <2>1, <2>2
<1>2. ASSUME NEW t \in Tenant, ReservedIn(b, t),
             Head(b.queue.bucket[t]).id \in InQueue(y.queue)
      PROVE  /\ y.queue.bucket[t] # <<>> /\ Head(y.queue.bucket[t]) = Head(b.queue.bucket[t])
             /\ Entries(y.queue) \subseteq Entries(b.queue)
             /\ \A r \in y.active \ b.active : BeforeHead(b, r, Head(b.queue.bucket[t]))
  <2> DEFINE h == Head(b.queue.bucket[t])
  <2>1. h.id \in InQueue(x.queue)
    BY <1>2 DEF Onward
  <2>2. /\ x.queue.bucket[t] # <<>> /\ Head(x.queue.bucket[t]) = h
        /\ Entries(x.queue) \subseteq Entries(b.queue)
        /\ \A r \in x.active \ b.active : BeforeHead(b, r, h)
    BY <1>2, <2>1 DEF Onward, Yields
  <2>3. ReservedIn(x, t)
    BY <1>2, <2>2 DEF ReservedIn
  <2>4. /\ y.queue.bucket[t] # <<>> /\ Head(y.queue.bucket[t]) = h
        /\ Entries(y.queue) \subseteq Entries(x.queue)
        /\ \A r \in y.active \ x.active : BeforeHead(x, r, h)
    BY <1>2, <2>2, <2>3 DEF Onward, Yields
  <2>5. \A r \in y.active \ b.active : BeforeHead(b, r, h)
    BY <2>2, <2>4 DEF BeforeHead
  <2> QED BY <2>2, <2>4, <2>5
<1>3. Yields(b, y)
  BY <1>2 DEF Yields
<1> QED BY <1>1, <1>3 DEF Onward

-----------------------------------------------------------------------------
(* One turn of each loop.                                                  *)

\* Taking the chosen one of the shared queue respects who is reserved.
LEMMA TakenYields ==
    ASSUME NEW S \in SUBSET Request, NEW b, Holds(b.queue, S), NEW free \in Int,
           NEW i \in Choice(b.queue, free), NEW h, h = HeadAt(b.queue, i),
           NEW x, x.queue = Dequeue(b.queue, i), x.active \subseteq b.active \cup {h.id}
    PROVE  Yields(b, x)
<1> DEFINE q == b.queue
           p == x.queue
<1>1. /\ h.id \in S /\ h \in Entries(q) /\ Holds(p, S \ {h.id})
      /\ Aged(q) # {} => h.skips >= MaxSkips /\ Shifted(p, q, TenantAt(q, i))
  <2>1. /\ h.id \in S /\ h \in Entries(q) /\ Holds(Dequeue(q, i), S \ {h.id})
        /\ Aged(q) # {} => h.skips >= MaxSkips /\ Shifted(Dequeue(q, i), q, TenantAt(q, i))
    <3> HIDE DEF q
    <3>1. Holds(q, S) /\ i \in Choice(q, free) /\ h = HeadAt(q, i)
      BY DEF q
    <3> QED BY <3>1, DequeueHolds
  <2> QED BY <2>1
<1>2. i \in Places(q) /\ \A j \in Aged(q) : h.at <= HeadAt(q, j).at
  BY ChoiceFacts
<1>3. InQueue(p) = S \ {h.id}
  BY <1>1, HoldsFacts
<1> SUFFICES ASSUME NEW t \in Tenant, ReservedIn(b, t), Head(q.bucket[t]).id \in InQueue(p)
             PROVE  /\ p.bucket[t] # <<>> /\ Head(p.bucket[t]) = Head(q.bucket[t])
                    /\ Entries(p) \subseteq Entries(q)
                    /\ \A r \in x.active \ b.active : BeforeHead(b, r, Head(q.bucket[t]))
  BY DEF Yields
<1> DEFINE g == Head(q.bucket[t])
<1>4. PICK j \in Places(q) : TenantAt(q, j) = t
  BY PlaceOf DEF ReservedIn
<1>5. HeadAt(q, j) = g
  BY <1>4, HeadIs
<1>6. j \in Aged(q)
  BY <1>5 DEF Aged, ReservedIn
<1>7. g.id # h.id
  BY <1>3
<1>8. PICK u \in Tenant : u = TenantAt(q, i) /\ q.bucket[u] # <<>>
  BY <1>2, PlaceFacts
<1>9. u # t
  <2>1. h = Head(q.bucket[u])
    BY <1>8, HeadIs
  <2> QED BY <1>7, <2>1
<1>10. /\ h.skips >= MaxSkips
       /\ p.bucket = [q.bucket EXCEPT ![u] = Tail(q.bucket[u])]
       /\ q.bucket \in [Tenant -> Seq(EntryType)]
  BY <1>1, <1>6, <1>8 DEF Shifted, Holds, QueueType
<1> HIDE DEF p, q
<1>11. /\ p.bucket[u] = Tail(q.bucket[u])
       /\ \A v \in Tenant \ {u} : p.bucket[v] = q.bucket[v]
  BY <1>10
<1>12. Entries(p) \subseteq Entries(q)
  <2>1. q.bucket[u] \in Seq(EntryType) /\ Filed(q.bucket[u], Of(S, u))
    BY <1>10 DEF Holds, q
  <2>2. Tail(q.bucket[u]) \in Seq(EntryType)
        /\ ToSet(Tail(q.bucket[u])) \subseteq ToSet(q.bucket[u])
    <3>1. /\ Filed(Tail(q.bucket[u]), Of(S, u) \ {Head(q.bucket[u]).id})
          /\ ToSet(Tail(q.bucket[u])) = ToSet(q.bucket[u]) \ {Head(q.bucket[u])}
      <4>1. q.bucket[u] # <<>>
        BY <1>8 DEF q
      <4> QED BY <2>1, <4>1, FiledTail
    <3> QED BY <3>1 DEF Filed
  <2>3. Range(Tail(q.bucket[u])) \subseteq Range(q.bucket[u])
    BY <2>1, <2>2, InjectiveQueue
  <2>4. \A v \in Tenant : Range(p.bucket[v]) \subseteq Range(q.bucket[v])
    BY <1>11, <2>3
  <2> QED BY <2>4 DEF Entries
<1>13. p.bucket[t] = q.bucket[t]
  BY <1>9, <1>11
<1>14. ASSUME NEW r \in x.active \ b.active PROVE BeforeHead(b, r, g)
  <2>1. r = h.id /\ h.at <= g.at
    BY <1>2, <1>5, <1>6
  <2>2. h \in Entries(b.queue)
    BY <1>1 DEF q
  <2> HIDE DEF g
  <2> QED BY <1>10, <2>1, <2>2 DEF BeforeHead
<1> QED BY <1>12, <1>13, <1>14 DEF ReservedIn, q

LEMMA ServedTurn ==
    ASSUME NEW b, Good(b), NEW lim \in Int, NEW x, x = ServeNext(b, lim)
    PROVE  /\ Onward(b, x, lim)
           /\ Blocked(b, b.queue, lim) => x = b
           /\ ~Blocked(b, b.queue, lim) => x.queue.count = b.queue.count - 1
<1>1. CASE Blocked(b, b.queue, lim)
  BY <1>1, OnwardStays DEF ServeNext
<1>2. CASE ~Blocked(b, b.queue, lim)
  <2> DEFINE i == Chosen(b, b.queue, lim)
             h == HeadAt(b.queue, i)
             y == [b EXCEPT !.queue = Dequeue(b.queue, i)]
             free == lim - b.cost
  <2>1. PICK S, L \in SUBSET Request : Right(b, S, L)
    BY DEF Good
  <2>2. b \in BookType /\ Holds(b.queue, S) /\ b.cost \in Nat
        /\ \A t \in Tenant : Holds(b.lanes[t], Of(L, t))
    BY <2>1, RightFacts DEF Right
  <2>3. free \in Int /\ i \in Choice(b.queue, free)
    BY <1>2, <2>2 DEF Blocked, Chosen
  <2>4. x = Settled(y, h.id)
    BY <1>2 DEF ServeNext
  <2> HIDE DEF i, h, free
  <2>5. /\ h.id \in S /\ CostOf[h.id] <= free /\ Holds(Dequeue(b.queue, i), S \ {h.id})
    BY <2>2, <2>3, DequeueHolds DEF h
  <2>6. /\ y.queue = Dequeue(b.queue, i) /\ y.lanes = b.lanes /\ y.active = b.active
        /\ y.cost = b.cost /\ y.overdue = b.overdue /\ y \in BookType
    <3>1. Dequeue(b.queue, i) \in QueueType
      BY <2>5 DEF Holds
    <3> QED BY <2>2, <3>1 DEF BookType
  <2>7. \A t \in Tenant : Of(L \ {h.id}, t) = Of(L, t)
    <3>1. h.id \notin L
      BY <2>1, <2>5 DEF Right, Apart
    <3> QED BY <3>1 DEF Of
  <2> HIDE DEF y
  <2>8. /\ Right(x, S \ {h.id}, L \ {h.id}) /\ x.queue = y.queue /\ x.lanes = y.lanes
        /\ b.active \subseteq x.active /\ x.active \subseteq b.active \cup {h.id}
        /\ x.active = b.active \/ x.cost = b.cost + CostOf[h.id]
    <3>1. Holds(y.queue, S \ {h.id}) /\ \A t \in Tenant : Holds(y.lanes[t], Of(L \ {h.id}, t))
      BY <2>2, <2>5, <2>6, <2>7
    <3>2. h.id \in S \cup L
      BY <2>5
    <3>3. Taken(y, b, S \ {h.id}, L \ {h.id})
      BY <2>6, <3>1 DEF Taken
    <3>4. Right(Settled(y, h.id), S \ {h.id}, L \ {h.id}) /\ Leaving(b, y, Settled(y, h.id), h.id)
      BY <2>1, <3>2, <3>3, SettledRight
    <3> QED BY <2>4, <3>4 DEF Leaving
  <2>9. Good(x)
    BY <2>8 DEF Good
  <2>10. x.active = b.active \/ x.cost <= lim
    <3>1. CostOf[h.id] \in Nat
      BY <2>5, Weights
    <3> QED BY <2>2, <2>5, <2>8, <3>1 DEF free
  <2>11. InQueue(b.queue) = S /\ InQueue(x.queue) = S \ {h.id}
         /\ x.queue.count = b.queue.count - 1
    <3>1. Holds(x.queue, S \ {h.id})
      BY <2>5, <2>6, <2>8
    <3>2. Cardinality(S \ {h.id}) = Cardinality(S) - 1
      BY <2>5, WeighedLess
    <3>3. x.queue.count = Cardinality(S \ {h.id}) /\ b.queue.count = Cardinality(S)
      BY <2>2, <3>1 DEF Holds
    <3> QED BY <2>2, <3>1, <3>2, <3>3, HoldsFacts
  <2>12. Yields(b, x)
    <3>1. x.queue = Dequeue(b.queue, i)
      BY <2>6, <2>8
    <3> QED BY <2>2, <2>3, <2>8, <3>1, TakenYields DEF h
  <2>13. \A t \in Tenant : b.lanes[t].count = 0 => x.lanes[t].count = 0
    BY <2>6, <2>8
  <2>14. Onward(b, x, lim)
    BY <2>8, <2>9, <2>10, <2>11, <2>12, <2>13 DEF Onward
  <2> QED BY <1>2, <2>11, <2>14
<1> QED BY <1>1, <1>2

\* A turn in lane t, when the shared queue is empty.
LEMMA LaneTurn ==
    ASSUME NEW b, NEW x, Good(x), x.queue.count = 0, NEW lim \in Int, NEW t \in Tenant,
           NEW y, y = LaneNext(b, x, lim, t)
    PROVE  /\ Onward(x, y, lim) /\ y.queue = x.queue
           /\ \A u \in Tenant \ {t} : y.lanes[u] = x.lanes[u]
           /\ x.active # b.active \/ Blocked(x, x.lanes[t], lim) => y = x
           /\ x.active = b.active /\ ~Blocked(x, x.lanes[t], lim) =>
                 y.lanes[t].count = x.lanes[t].count - 1
<1>1. CASE x.active # b.active \/ Blocked(x, x.lanes[t], lim)
  BY <1>1, OnwardStays DEF LaneNext
<1>2. CASE x.active = b.active /\ ~Blocked(x, x.lanes[t], lim)
  <2> DEFINE q == x.lanes[t]
             i == Chosen(x, q, lim)
             h == HeadAt(q, i)
             z == [x EXCEPT !.lanes[t] = Dequeue(q, i)]
             free == lim - x.cost
  <2>1. PICK S, L \in SUBSET Request : Right(x, S, L)
    BY DEF Good
  <2>2. x \in BookType /\ Holds(x.queue, S) /\ x.cost \in Nat
        /\ \A u \in Tenant : Holds(x.lanes[u], Of(L, u)) /\ Of(L, u) \in SUBSET Request
    BY <2>1, RightFacts DEF Right, Of
  <2>3. free \in Int /\ i \in Choice(q, free)
    BY <1>2, <2>2 DEF Blocked, Chosen
  <2>4. y = Settled(z, h.id)
    BY <1>2 DEF LaneNext
  <2> HIDE DEF i, h, free
  <2>5. h.id \in Of(L, t) /\ CostOf[h.id] <= free /\ Holds(Dequeue(q, i), Of(L, t) \ {h.id})
    BY <2>2, <2>3, DequeueHolds DEF h
  <2>6. h.id \in L /\ TenantOf[h.id] = t /\ h.id \in Request
    BY <2>5 DEF Of
  <2>7. /\ z.queue = x.queue /\ z.active = x.active
        /\ z.cost = x.cost /\ z.overdue = x.overdue /\ z \in BookType
        /\ z.lanes[t] = Dequeue(q, i) /\ \A u \in Tenant \ {t} : z.lanes[u] = x.lanes[u]
    <3> DEFINE M == [x.lanes EXCEPT ![t] = Dequeue(q, i)]
    <3>1. z = [x EXCEPT !.lanes = M]
      OBVIOUS
    <3>2. Dequeue(q, i) \in QueueType
      BY <2>5 DEF Holds
    <3>3. x.lanes \in [Tenant -> QueueType]
      BY <2>2 DEF BookType
    <3>4. M \in [Tenant -> QueueType] /\ M[t] = Dequeue(q, i)
          /\ \A u \in Tenant \ {t} : M[u] = x.lanes[u]
      BY <3>2, <3>3
    <3> HIDE DEF M, z
    <3>5. z.lanes = M /\ z.queue = x.queue /\ z.active = x.active
          /\ z.cost = x.cost /\ z.overdue = x.overdue /\ z \in BookType
      BY <2>2, <3>1, <3>4 DEF BookType
    <3> QED BY <3>4, <3>5
  <2> HIDE DEF z
  <2>8. Of(L \ {h.id}, t) = Of(L, t) \ {h.id} /\ S \ {h.id} = S
        /\ \A u \in Tenant \ {t} : Of(L \ {h.id}, u) = Of(L, u)
    <3>1. h.id \notin S
      BY <2>1, <2>6 DEF Right, Apart
    <3> QED BY <2>6, <3>1 DEF Of
  <2>9. /\ Right(y, S \ {h.id}, L \ {h.id}) /\ y.queue = z.queue /\ y.lanes = z.lanes
        /\ x.active \subseteq y.active
        /\ y.active = x.active \/ y.cost = x.cost + CostOf[h.id]
    <3>1. Holds(z.queue, S \ {h.id})
      BY <2>2, <2>7, <2>8
    <3>2. \A u \in Tenant : Holds(z.lanes[u], Of(L \ {h.id}, u))
      BY <2>2, <2>5, <2>7, <2>8
    <3>3. h.id \in S \cup L
      BY <2>6
    <3>4. Taken(z, x, S \ {h.id}, L \ {h.id})
      BY <2>7, <3>1, <3>2 DEF Taken
    <3>5. Right(Settled(z, h.id), S \ {h.id}, L \ {h.id}) /\ Leaving(x, z, Settled(z, h.id), h.id)
      BY <2>1, <3>3, <3>4, SettledRight
    <3> QED BY <2>4, <3>5 DEF Leaving
  <2>10. Good(y)
    BY <2>9 DEF Good
  <2>11. y.active = x.active \/ y.cost <= lim
    <3>1. CostOf[h.id] \in Nat
      BY <2>6, Weights
    <3> QED BY <2>2, <2>5, <2>9, <3>1 DEF free
  <2>12. y.lanes[t].count = x.lanes[t].count - 1
    <3>1. Cardinality(Of(L, t) \ {h.id}) = Cardinality(Of(L, t)) - 1
      BY <2>2, <2>5, WeighedLess
    <3>2. x.lanes[t].count = Cardinality(Of(L, t))
      BY <2>2 DEF Holds
    <3>3. Holds(y.lanes[t], Of(L, t) \ {h.id})
      BY <2>5, <2>7, <2>9
    <3>4. y.lanes[t].count = Cardinality(Of(L, t) \ {h.id})
      BY <3>3 DEF Holds
    <3> QED BY <3>1, <3>2, <3>4
  <2>13. InQueue(x.queue) = {} /\ InQueue(y.queue) = {}
    BY <2>7, <2>9, RightFacts
  <2>14. Yields(x, y)
    BY <2>13 DEF Yields
  <2>15. x.lanes[t].count # 0
    BY <1>2 DEF Blocked
  <2>16. \A u \in Tenant : x.lanes[u].count = 0 => y.lanes[u].count = 0
    BY <2>7, <2>9, <2>15
  <2>17. Onward(x, y, lim)
    BY <2>9, <2>10, <2>11, <2>13, <2>14, <2>16 DEF Onward
  <2> QED BY <1>2, <2>7, <2>9, <2>12, <2>17
<1> QED BY <1>1, <1>2

-----------------------------------------------------------------------------
(* The loops.                                                              *)

\* The loop over the shared queue has as many turns as there are entries, so
\* that at the end nobody can be taken.
LEMMA QueueLoop ==
    ASSUME NEW b, Good(b), NEW lim \in Int
    PROVE  LET x == QueueServed(b, lim)
           IN  Onward(b, x, lim) /\ Blocked(x, x.queue, lim)
<1> DEFINE N == b.queue.count
           V == {x \in BookType : Onward(b, x, lim)}
           D == [p \in V \X (1..N) |-> ServeNext(p[1], lim)]
           T(f) == f = [n \in 0..N |-> IF n = 0 THEN b ELSE ServeNext(f[n - 1], lim)]
           turn == CHOOSE f : T(f)
<1>0. N \in Nat
  BY RightFacts
<1>1. b \in V
  BY OnwardStays, RightFacts
<1>2. ASSUME NEW x \in V
      PROVE  /\ ServeNext(x, lim) \in V /\ x.queue.count \in Nat
             /\ Blocked(x, x.queue, lim) => ServeNext(x, lim) = x
             /\ ~Blocked(x, x.queue, lim) =>
                   ServeNext(x, lim).queue.count = x.queue.count - 1
  <2>1. Good(x) /\ Onward(b, x, lim)
    BY DEF Onward
  <2>2. /\ Onward(x, ServeNext(x, lim), lim)
        /\ Blocked(x, x.queue, lim) => ServeNext(x, lim) = x
        /\ ~Blocked(x, x.queue, lim) => ServeNext(x, lim).queue.count = x.queue.count - 1
    BY <2>1, ServedTurn
  <2>3. Onward(b, ServeNext(x, lim), lim)
    BY <2>1, <2>2, OnwardOn
  <2>4. ServeNext(x, lim) \in BookType
    BY <2>2, RightFacts DEF Onward
  <2> QED BY <2>1, <2>2, <2>3, <2>4, RightFacts
<1>3. D \in [V \X (1..N) -> V]
  <2> HIDE DEF V
  <2> QED BY <1>2
<1>4. PICK f : f \in [0..N -> V] /\ Iterates(f, N, b, D)
  <2> HIDE DEF V, D, N
  <2> QED BY <1>0, <1>1, <1>3, Recursion
<1>5. T(f)
  <2>1. ASSUME NEW n \in 0..N PROVE f[n] = IF n = 0 THEN b ELSE ServeNext(f[n - 1], lim)
    <3>1. CASE n = 0
      BY <1>4, <3>1 DEF Iterates
    <3>2. CASE n \in 1..N
      <4>1. f[n - 1] \in V /\ n # 0
        <5>1. n - 1 \in 0..N
          BY <1>0, <3>2
        <5> QED BY <1>0, <1>4, <3>2, <5>1
      <4>2. f[n] = D[<<f[n - 1], n>>]
        BY <1>4, <3>2 DEF Iterates
      <4> HIDE DEF V
      <4> QED BY <3>2, <4>1, <4>2
    <3> QED BY <1>0, <3>1, <3>2
  <2>2. f = [n \in 0..N |-> f[n]]
    BY <1>4
  <2> HIDE DEF V, N
  <2> QED BY <2>1, <2>2, Zenon
<1>6. T(turn)
  <2> HIDE DEF T
  <2> QED BY <1>5
<1>7. QueueServed(b, lim) = turn[N]
  BY DEF QueueServed
<1> HIDE DEF turn, D
<1>8. turn[0] = b /\ \A n \in 1..N : turn[n] = ServeNext(turn[n - 1], lim)
  <2>1. 0 \in 0..N /\ \A n \in 1..N : n \in 0..N /\ n # 0
    BY <1>0
  <2> QED BY <1>6, <2>1
<1> DEFINE Done(x) == Blocked(x, x.queue, lim)
           S == {n \in 0..N : turn[n] \in V /\ (Done(turn[n]) \/ turn[n].queue.count = N - n)}
<1> HIDE DEF V, T
<1>9. 0 \in S
  <2>1. 0 \in 0..N /\ turn[0] \in V /\ turn[0].queue.count = N - 0
    BY <1>0, <1>1, <1>8
  <2> QED BY <2>1
<1>10. ASSUME NEW n \in 0..N - 1, n \in S PROVE n + 1 \in S
  <2>1. n + 1 \in 1..N /\ (n + 1) - 1 = n /\ n + 1 \in 0..N
    BY <1>0
  <2>2. turn[n + 1] = ServeNext(turn[n], lim) /\ turn[n] \in V
    BY <1>8, <1>10, <2>1
  <2>3. turn[n + 1] \in V
    BY <1>2, <2>2
  <2>4. CASE Done(turn[n])
    <3>1. turn[n + 1] = turn[n]
      BY <1>2, <2>2, <2>4
    <3> QED BY <2>1, <2>2, <2>4, <3>1
  <2>5. CASE ~Done(turn[n])
    <3>1. turn[n].queue.count = N - n
      BY <1>10, <2>5
    <3>2. turn[n + 1].queue.count = turn[n].queue.count - 1
      BY <1>2, <2>2, <2>5
    <3>3. turn[n + 1].queue.count = N - (n + 1)
      BY <1>0, <2>1, <3>1, <3>2
    <3> QED BY <2>1, <2>3, <3>3
  <2> QED BY <2>4, <2>5
<1> HIDE DEF S
<1>11. N \in S
  BY <1>0, <1>9, <1>10, Induction
<1>12. turn[N] \in V /\ (Done(turn[N]) \/ turn[N].queue.count = 0)
  BY <1>0, <1>11 DEF S
<1>13. Done(turn[N])
  BY <1>12 DEF Blocked
<1> QED BY <1>7, <1>12, <1>13 DEF V

\* The loop over lane t: when it ends one was admitted, or nobody can be taken.
LEMMA LaneLoop ==
    ASSUME NEW b, Good(b), b.queue.count = 0, NEW lim \in Int, NEW t \in Tenant
    PROVE  LET x == LaneServed(b, lim, t)
           IN  /\ Onward(b, x, lim) /\ x.queue = b.queue
               /\ \A u \in Tenant \ {t} : x.lanes[u] = b.lanes[u]
               /\ x.active # b.active \/ Blocked(x, x.lanes[t], lim)
<1> DEFINE N == b.lanes[t].count
           V == {x \in BookType : Onward(b, x, lim) /\ x.queue = b.queue
                                  /\ \A u \in Tenant \ {t} : x.lanes[u] = b.lanes[u]}
           D == [p \in V \X (1..N) |-> LaneNext(b, p[1], lim, t)]
           T(f) == f = [n \in 0..N |-> IF n = 0 THEN b ELSE LaneNext(b, f[n - 1], lim, t)]
           turn == CHOOSE f : T(f)
           Done(x) == x.active # b.active \/ Blocked(x, x.lanes[t], lim)
<1>0. N \in Nat
  BY RightFacts
<1>1. b \in V
  BY OnwardStays, RightFacts
<1>2. ASSUME NEW x \in V
      PROVE  /\ LaneNext(b, x, lim, t) \in V
             /\ Done(x) => LaneNext(b, x, lim, t) = x
             /\ ~Done(x) => LaneNext(b, x, lim, t).lanes[t].count = x.lanes[t].count - 1
  <2> DEFINE y == LaneNext(b, x, lim, t)
  <2>1. Good(x) /\ Onward(b, x, lim) /\ x.queue.count = 0
    BY DEF Onward
  <2>2. /\ Onward(x, y, lim) /\ y.queue = x.queue
        /\ \A u \in Tenant \ {t} : y.lanes[u] = x.lanes[u]
        /\ Done(x) => y = x
        /\ ~Done(x) => y.lanes[t].count = x.lanes[t].count - 1
    BY <2>1, LaneTurn
  <2> HIDE DEF y
  <2>3. Onward(b, y, lim)
    BY <2>1, <2>2, OnwardOn
  <2>4. y \in BookType
    BY <2>2, RightFacts DEF Onward
  <2>5. y \in V
    BY <2>2, <2>3, <2>4
  <2> QED BY <2>2, <2>5 DEF y
<1>3. D \in [V \X (1..N) -> V]
  <2> HIDE DEF V
  <2> QED BY <1>2
<1>4. PICK f : f \in [0..N -> V] /\ Iterates(f, N, b, D)
  <2> HIDE DEF V, D, N
  <2> QED BY <1>0, <1>1, <1>3, Recursion
<1>5. T(f)
  <2>1. ASSUME NEW n \in 0..N PROVE f[n] = IF n = 0 THEN b ELSE LaneNext(b, f[n - 1], lim, t)
    <3>1. CASE n = 0
      BY <1>4, <3>1 DEF Iterates
    <3>2. CASE n \in 1..N
      <4>1. f[n - 1] \in V /\ n # 0
        <5>1. n - 1 \in 0..N
          BY <1>0, <3>2
        <5> QED BY <1>0, <1>4, <3>2, <5>1
      <4>2. f[n] = D[<<f[n - 1], n>>]
        BY <1>4, <3>2 DEF Iterates
      <4> HIDE DEF V
      <4> QED BY <3>2, <4>1, <4>2
    <3> QED BY <1>0, <3>1, <3>2
  <2>2. f = [n \in 0..N |-> f[n]]
    BY <1>4
  <2> HIDE DEF V, N
  <2> QED BY <2>1, <2>2, Zenon
<1>6. T(turn)
  <2> HIDE DEF T
  <2> QED BY <1>5
<1>7. LaneServed(b, lim, t) = turn[N]
  BY DEF LaneServed
<1> HIDE DEF turn, D, Done
<1>8. turn[0] = b /\ \A n \in 1..N : turn[n] = LaneNext(b, turn[n - 1], lim, t)
  <2>1. 0 \in 0..N /\ \A n \in 1..N : n \in 0..N /\ n # 0
    BY <1>0
  <2> QED BY <1>6, <2>1
<1> DEFINE S == {n \in 0..N : turn[n] \in V /\ (Done(turn[n]) \/ turn[n].lanes[t].count = N - n)}
<1> HIDE DEF V, T
<1>9. 0 \in S
  <2>1. 0 \in 0..N /\ turn[0] \in V /\ turn[0].lanes[t].count = N - 0
    BY <1>0, <1>1, <1>8
  <2> QED BY <2>1
<1>10. ASSUME NEW n \in 0..N - 1, n \in S PROVE n + 1 \in S
  <2>1. n + 1 \in 1..N /\ (n + 1) - 1 = n /\ n + 1 \in 0..N
    BY <1>0
  <2>2. turn[n + 1] = LaneNext(b, turn[n], lim, t) /\ turn[n] \in V
    BY <1>8, <1>10, <2>1
  <2>3. turn[n + 1] \in V
    BY <1>2, <2>2
  <2>4. CASE Done(turn[n])
    <3>1. turn[n + 1] = turn[n]
      BY <1>2, <2>2, <2>4
    <3> QED BY <2>1, <2>2, <2>4, <3>1
  <2>5. CASE ~Done(turn[n])
    <3>1. turn[n].lanes[t].count = N - n
      BY <1>10, <2>5
    <3>2. turn[n + 1].lanes[t].count = turn[n].lanes[t].count - 1
      BY <1>2, <2>2, <2>5
    <3>3. turn[n + 1].lanes[t].count = N - (n + 1)
      BY <1>0, <2>1, <3>1, <3>2
    <3> QED BY <2>1, <2>3, <3>3
  <2> QED BY <2>4, <2>5
<1> HIDE DEF S
<1>11. N \in S
  BY <1>0, <1>9, <1>10, Induction
<1>12. turn[N] \in V /\ (Done(turn[N]) \/ turn[N].lanes[t].count = 0)
  BY <1>0, <1>11 DEF S
<1>13. Done(turn[N])
  BY <1>12 DEF Blocked, Done
<1> QED BY <1>7, <1>12, <1>13 DEF V, Done

\* The lanes one after the other: unless somebody is active at the end, there is
\* nobody in them who can be taken.
LEMMA LanesLoop ==
    ASSUME NEW b, Good(b), b.queue.count = 0, NEW lim \in Int, NEW order \in Seq(Tenant)
    PROVE  LET x == LanesServed(b, order, lim)
           IN  /\ Onward(b, x, lim) /\ x.queue = b.queue
               /\ x.active = {} => \A t \in ToSet(order) : Blocked(x, x.lanes[t], lim)
<1> DEFINE N == Len(order)
           V == {x \in BookType : Onward(b, x, lim) /\ x.queue = b.queue}
           D == [p \in V \X (1..N) |-> LaneServed(p[1], lim, order[p[2]])]
           T(f) == f = [n \in 0..N |-> IF n = 0 THEN b ELSE LaneServed(f[n - 1], lim, order[n])]
           round == CHOOSE f : T(f)
           Done(x, n) == x.active = {} => \A m \in 1..n : Blocked(x, x.lanes[order[m]], lim)
<1>0. N \in Nat /\ DOMAIN order = 1..N /\ \A n \in 1..N : order[n] \in Tenant
  BY LenProperties, ElementOfSeq
<1>1. b \in V
  BY OnwardStays, RightFacts
<1>2. ASSUME NEW x \in V, NEW t \in Tenant
      PROVE  LET y == LaneServed(x, lim, t)
             IN  /\ y \in V /\ x.active \subseteq y.active
                 /\ \A u \in Tenant \ {t} : y.lanes[u] = x.lanes[u]
                 /\ y.active # x.active \/ Blocked(y, y.lanes[t], lim)
                 /\ y.active = x.active => y.cost = x.cost
  <2> DEFINE y == LaneServed(x, lim, t)
  <2>1. Good(x) /\ Onward(b, x, lim) /\ x.queue = b.queue
    BY DEF Onward
  <2>2. /\ Onward(x, y, lim) /\ y.queue = x.queue
        /\ \A u \in Tenant \ {t} : y.lanes[u] = x.lanes[u]
        /\ y.active # x.active \/ Blocked(y, y.lanes[t], lim)
    BY <2>1, LaneLoop
  <2> HIDE DEF y
  <2>3. Onward(b, y, lim) /\ Good(y) /\ x.active \subseteq y.active
    BY <2>1, <2>2, OnwardOn DEF Onward
  <2>4. y \in BookType /\ x.cost = TotalCost(x.active) /\ y.cost = TotalCost(y.active)
    BY <2>1, <2>3, RightFacts
  <2> QED BY <2>1, <2>2, <2>3, <2>4 DEF y
<1>3. D \in [V \X (1..N) -> V]
  <2> HIDE DEF V, N
  <2> QED BY <1>0, <1>2
<1>4. PICK f : f \in [0..N -> V] /\ Iterates(f, N, b, D)
  <2> HIDE DEF V, D, N
  <2> QED BY <1>0, <1>1, <1>3, Recursion
<1>5. T(f)
  <2>1. ASSUME NEW n \in 0..N
        PROVE  f[n] = IF n = 0 THEN b ELSE LaneServed(f[n - 1], lim, order[n])
    <3>1. CASE n = 0
      BY <1>4, <3>1 DEF Iterates
    <3>2. CASE n \in 1..N
      <4>1. f[n - 1] \in V /\ n # 0
        <5>1. n - 1 \in 0..N
          BY <1>0, <3>2
        <5>2. n # 0
          BY <3>2
        <5> HIDE DEF N, V
        <5> QED BY <1>4, <5>1, <5>2
      <4>2. f[n] = D[<<f[n - 1], n>>]
        BY <1>4, <3>2 DEF Iterates
      <4> HIDE DEF V
      <4> QED BY <3>2, <4>1, <4>2
    <3> QED BY <1>0, <3>1, <3>2
  <2>2. f = [n \in 0..N |-> f[n]]
    BY <1>4
  <2> HIDE DEF V, N
  <2> QED BY <2>1, <2>2, Zenon
<1>6. T(round)
  <2> HIDE DEF T
  <2> QED BY <1>5
<1>7. LanesServed(b, order, lim) = round[N]
  BY DEF LanesServed
<1> HIDE DEF round, D, Done
<1>8. round[0] = b /\ \A n \in 1..N : round[n] = LaneServed(round[n - 1], lim, order[n])
  <2>1. 0 \in 0..N /\ \A n \in 1..N : n \in 0..N /\ n # 0
    BY <1>0
  <2> QED BY <1>6, <2>1
<1> DEFINE S == {n \in 0..N : round[n] \in V /\ Done(round[n], n)}
<1> HIDE DEF V, T
<1>9. 0 \in S
  <2>1. 0 \in 0..N /\ round[0] \in V
    BY <1>0, <1>1, <1>8
  <2>2. Done(round[0], 0)
    BY DEF Done
  <2> QED BY <2>1, <2>2
<1>10. ASSUME NEW n \in 0..N - 1, n \in S PROVE n + 1 \in S
  <2> DEFINE t == order[n + 1]
             x == round[n]
             y == round[n + 1]
  <2>1. n + 1 \in 1..N /\ (n + 1) - 1 = n /\ n + 1 \in 0..N
    BY <1>0
  <2>2. y = LaneServed(x, lim, t) /\ x \in V /\ t \in Tenant
    BY <1>0, <1>8, <1>10, <2>1
  <2> HIDE DEF t, x, y
  <2>3. /\ y \in V /\ x.active \subseteq y.active
        /\ \A u \in Tenant \ {t} : y.lanes[u] = x.lanes[u]
        /\ y.active # x.active \/ Blocked(y, y.lanes[t], lim)
        /\ y.active = x.active => y.cost = x.cost
    BY <1>2, <2>2
  <2>4. Done(y, n + 1)
    <3> SUFFICES ASSUME y.active = {}, NEW m \in 1..n + 1
                 PROVE  Blocked(y, y.lanes[order[m]], lim)
      BY DEF Done
    <3>1. x.active = {} /\ Blocked(y, y.lanes[t], lim) /\ y.cost = x.cost
      BY <2>3
    <3>2. CASE order[m] = t
      BY <3>1, <3>2
    <3>3. CASE order[m] # t
      <4>1. m \in 1..n
        BY <3>3 DEF t
      <4>2. Blocked(x, x.lanes[order[m]], lim)
        <5>1. Done(x, n)
          BY <1>10 DEF x
        <5> QED BY <3>1, <4>1, <5>1 DEF Done
      <4>3. y.lanes[order[m]] = x.lanes[order[m]]
        BY <1>0, <2>1, <2>3, <3>3, <4>1
      <4> QED BY <3>1, <4>2, <4>3 DEF Blocked
    <3> QED BY <3>2, <3>3
  <2> QED BY <2>1, <2>3, <2>4 DEF y
<1> HIDE DEF S, N
<1>11. N \in S
  BY <1>0, <1>9, <1>10, Induction
<1>12. round[N] \in V /\ Done(round[N], N)
  BY <1>11 DEF S
<1>13. ASSUME round[N].active = {}, NEW t \in ToSet(order)
       PROVE  Blocked(round[N], round[N].lanes[t], lim)
  BY <1>0, <1>12, <1>13 DEF Done, ToSet, N
<1> QED BY <1>7, <1>12, <1>13 DEF V, N

\* Nobody who could be is left to be taken.
Rested(x, lim) ==
    /\ x.queue.count > 0 => Choice(x.queue, lim - x.cost) = {}
    /\ x.queue.count = 0 /\ x.active = {} =>
          \A t \in Tenant : x.lanes[t].count > 0 => Choice(x.lanes[t], lim) = {}

LanesIn(b, order) == \A t \in Tenant : b.lanes[t].count > 0 => t \in ToSet(order)

LEMMA OnwardLanes ==
    ASSUME NEW b, Good(b), NEW x, NEW lim, Onward(b, x, lim), NEW order, LanesIn(b, order)
    PROVE  LanesIn(x, order)
<1>1. \A t \in Tenant : b.lanes[t].count \in Nat /\ (b.lanes[t].count = 0 => x.lanes[t].count = 0)
  BY RightFacts DEF Onward
<1> QED BY <1>1 DEF LanesIn

LEMMA Dispatched ==
    ASSUME NEW b, Good(b), NEW order \in Seq(Tenant), LanesIn(b, order), NEW lim \in Int, lim > 0
    PROVE  Onward(b, Dispatch(b, order, lim), lim) /\ Rested(Dispatch(b, order, lim), lim)
<1> DEFINE s == QueueServed(b, lim)
           x == LanesServed(s, order, lim)
<1>1. Onward(b, s, lim) /\ Blocked(s, s.queue, lim) /\ Good(s)
  BY QueueLoop DEF Onward
<1>2. CASE s.queue.count # 0
  <2>1. Dispatch(b, order, lim) = s
    BY <1>2 DEF Dispatch
  <2> HIDE DEF s
  <2>2. s.cost \in Nat /\ \A free \in Int : free <= 0 => Choice(s.queue, free) = {}
    BY <1>1, RightFacts
  <2>3. Choice(s.queue, lim - s.cost) = {}
    BY <1>1, <1>2, <2>2 DEF Blocked
  <2> QED BY <1>1, <1>2, <2>1, <2>3 DEF Rested
<1>3. CASE s.queue.count = 0
  <2>1. Dispatch(b, order, lim) = x
    BY <1>3 DEF Dispatch
  <2>2. /\ Onward(s, x, lim) /\ x.queue = s.queue
        /\ x.active = {} => \A t \in ToSet(order) : Blocked(x, x.lanes[t], lim)
    BY <1>1, <1>3, LanesLoop
  <2> HIDE DEF s, x
  <2>3. Onward(b, x, lim) /\ Good(x)
    BY <1>1, <2>2, OnwardOn DEF Onward
  <2>4. LanesIn(x, order)
    BY <2>3, OnwardLanes
  <2>5. ASSUME x.active = {}, NEW t \in Tenant, x.lanes[t].count > 0
        PROVE  Choice(x.lanes[t], lim) = {}
    <3>1. x.cost = 0
      BY <2>3, <2>5, RightFacts
    <3>2. Blocked(x, x.lanes[t], lim)
      BY <2>2, <2>4, <2>5 DEF LanesIn
    <3>3. lim - x.cost = lim
      BY <3>1
    <3> QED BY <2>5, <3>2, <3>3 DEF Blocked
  <2>6. Rested(x, lim)
    BY <1>3, <2>2, <2>5 DEF Rested
  <2> QED BY <2>1, <2>3, <2>6
<1> QED BY <1>2, <1>3

-----------------------------------------------------------------------------
(* The inductive invariant: the books are right, the lanes are in their    *)
(* order, and nobody who fits is kept waiting.                             *)

AdmissionType ==
    /\ limit \in MinLimit..MaxLimit
    /\ adaptation \in [pressure : {"normal", "high", "critical"}, consumed : BOOLEAN,
                       freeze : BOOLEAN, completed : BOOLEAN]
    /\ shutDown \in BOOLEAN /\ virtualLanes \in LaneModes

LanesOrdered ==
    /\ laneOrder \in Seq(Tenant) /\ NoRepeats(laneOrder)
    /\ ToSet(laneOrder) = {t \in Tenant : lanes[t].count > 0}

Deserted(b) == b.queue.count = 0 /\ \A t \in Tenant : b.lanes[t].count = 0

AdmissionInv ==
    /\ Good(Books) /\ LanesOrdered /\ AdmissionType
    /\ Rested(Books, limit)
    /\ shutDown => Deserted(Books)

LEMMA RestedIsNoFittingHead == Rested(Books, limit) <=> NoFittingHead
BY DEF Rested, NoFittingHead, Books

\* The step formulas of AdmitsWithinLimit and ReservedFirst.
Within ==
    active' \ active # {} =>
          \/ activeCost' <= limit'
          \/ /\ active = {} /\ Cardinality(active') = 1
             /\ activeCost' <= MaxLimit /\ adaptation.pressure = "normal"
             /\ \A r \in Request : ~Queued(r)

InTurn ==
    \A t \in Tenant :
       LET h == Head(queue.bucket[t])
       IN  Reserved(t) /\ h.id \in InQueue(queue)' =>
             \A r \in active' \ active :
                 \E e \in Entries(queue) : e.id = r /\ e.at <= h.at

\* The queue p is q with some gone, and perhaps a newcomer.
Follows(q, p) ==
    /\ \A t \in Tenant : q.bucket[t] # <<>> /\ Head(q.bucket[t]).id \in InQueue(p) =>
          p.bucket[t] # <<>> /\ Head(p.bucket[t]) = Head(q.bucket[t])
    /\ \A e \in Entries(p) : e \in Entries(q) \/ e.skips < MaxSkips

\* The books b, with which an operation goes into its dispatch.
Entering(b, order) ==
    /\ Good(b) /\ order \in Seq(Tenant) /\ NoRepeats(order) /\ LanesIn(b, order)
    /\ b.active \subseteq active /\ Follows(queue, b.queue)

\* What an operation shows when it is over.
Fine ==
    Good(Books)' /\ LanesOrdered' /\ Rested(Books, limit)' /\ Within /\ InTurn

LEMMA KeptBooks ==
    ASSUME NEW x, Good(x), NEW order \in Seq(Tenant), NoRepeats(order), LanesIn(x, order),
           Keep(x, order), Rested(x, limit')
    PROVE  Good(Books)' /\ LanesOrdered' /\ Rested(Books, limit)'
<1> DEFINE c == [queue |-> Reranked(x.queue), lanes |-> x.lanes, active |-> x.active,
                 cost |-> x.cost, overdue |-> x.overdue]
<1>1. Books' = c
  BY DEF Books, Keep
<1>2. PICK S, L \in SUBSET Request : Right(x, S, L)
  BY DEF Good
<1>3. /\ x \in BookType /\ Holds(Reranked(x.queue), S) /\ Reranked(x.queue).count = x.queue.count
      /\ \A free : Choice(Reranked(x.queue), free) = Choice(x.queue, free)
  BY <1>2, Reranking DEF Right
<1>4. c.queue = Reranked(x.queue) /\ c.lanes = x.lanes /\ c.active = x.active /\ c.cost = x.cost
      /\ c.overdue = x.overdue
  OBVIOUS
<1>5. c \in BookType
  <2>1. Reranked(x.queue) \in QueueType
    BY <1>3 DEF Holds
  <2> QED BY <1>3, <2>1 DEF BookType
<1> HIDE DEF c
<1>6. Right(c, S, L)
  BY <1>2, <1>3, <1>4, <1>5 DEF Right
<1>7. Good(c)
  BY <1>6 DEF Good
<1>8. Rested(c, limit')
  BY <1>3, <1>4 DEF Rested
<1>9. LanesOrdered'
  <2> DEFINE M == {t \in Tenant : x.lanes[t].count > 0}
  <2>1. laneOrder' = Only(order, M) /\ lanes' = x.lanes
    BY DEF Keep
  <2>2. /\ Only(order, M) \in Seq(Tenant) /\ ToSet(Only(order, M)) = ToSet(order) \cap M
        /\ \A a, b : Precedes(Only(order, M), a, b) <=> Precedes(order, a, b) /\ a \in M /\ b \in M
    BY OnlyProperties
  <2>3. NoRepeats(Only(order, M))
    BY <2>2 DEF NoRepeats
  <2>4. ToSet(order) \cap M = M
    BY DEF LanesIn
  <2> HIDE DEF M
  <2>5. laneOrder' \in Seq(Tenant) /\ NoRepeats(laneOrder') /\ ToSet(laneOrder') = M
    BY <2>1, <2>2, <2>3, <2>4
  <2> QED BY <2>1, <2>5 DEF LanesOrdered, M
<1>10. Good(Books)' /\ Rested(Books, limit)'
  BY <1>1, <1>7, <1>8
<1> QED BY <1>9, <1>10

LEMMA KeptFine ==
    ASSUME NEW b, NEW order, Entering(b, order), NEW x, Onward(b, x, limit'),
           Rested(x, limit'), Keep(x, order)
    PROVE  Fine
<1>1. Good(x) /\ LanesIn(x, order)
  BY OnwardLanes DEF Entering, Onward
<1>2. Good(Books)' /\ LanesOrdered' /\ Rested(Books, limit)'
  BY <1>1, KeptBooks DEF Entering
<1>3. active' = x.active /\ activeCost' = x.cost /\ queue' = Reranked(x.queue)
  BY DEF Keep
<1>4. Within
  <2> SUFFICES ASSUME active' \ active # {} PROVE activeCost' <= limit'
    BY DEF Within
  <2>1. x.active # b.active
    BY <1>3 DEF Entering
  <2> QED BY <1>3, <2>1 DEF Onward
<1>5. InQueue(queue)' = InQueue(x.queue)
  <2>1. PICK S, L \in SUBSET Request : Right(x, S, L)
    BY <1>1 DEF Good
  <2>2. Holds(x.queue, S) /\ Holds(Reranked(x.queue), S)
    BY <2>1, Reranking DEF Right
  <2>3. InQueue(x.queue) = S /\ InQueue(Reranked(x.queue)) = S
    BY <2>2, HoldsFacts
  <2> QED BY <1>3, <2>3
<1>6. ASSUME NEW t \in Tenant, Reserved(t), Head(queue.bucket[t]).id \in InQueue(x.queue),
             NEW r \in active' \ active
      PROVE  \E e \in Entries(queue) : e.id = r /\ e.at <= Head(queue.bucket[t]).at
  <2> DEFINE h == Head(queue.bucket[t])
  <2>1. h.id \in InQueue(b.queue)
    BY <1>6 DEF Onward
  <2>2. b.queue.bucket[t] # <<>> /\ Head(b.queue.bucket[t]) = h
    BY <1>6, <2>1 DEF Entering, Follows, Reserved
  <2>3. ReservedIn(b, t)
    BY <1>6, <2>2 DEF Reserved, ReservedIn
  <2>4. r \in x.active \ b.active
    BY <1>3, <1>6 DEF Entering
  <2>5. BeforeHead(b, r, h)
    BY <1>6, <2>2, <2>3, <2>4 DEF Onward, Yields
  <2>6. PICK e \in Entries(b.queue) : e.id = r /\ e.at <= h.at /\ e.skips >= MaxSkips
    BY <2>5 DEF BeforeHead
  <2>7. e \in Entries(queue)
    <3>1. e.skips \in Nat /\ MaxSkips \in Nat
      <4>1. PICK S, L \in SUBSET Request : Right(b, S, L)
        BY DEF Entering, Good
      <4>2. e \in EntryType
        BY <4>1, StampsFinite DEF Right
      <4> QED BY <4>2, SkipsAssumption DEF EntryType
    <3> QED BY <2>6, <3>1 DEF Entering, Follows
  <2> QED BY <2>6, <2>7
<1>7. InTurn
  BY <1>5, <1>6 DEF InTurn
<1> QED BY <1>2, <1>4, <1>7 DEF Fine

-----------------------------------------------------------------------------
(* An operation and the dispatch at its end.                               *)

LEMMA Limits ==
    /\ MinLimit \in Nat /\ MaxLimit \in Nat /\ InitialLimit \in Nat /\ Step \in Nat
    /\ 1 <= MinLimit /\ MinLimit <= InitialLimit /\ InitialLimit <= MaxLimit
    /\ \A n \in 1..MaxLimit : Critical(n) \in 0..n /\ Decrease(n) \in 0..n
<1>1. \A n \in 1..MaxLimit : Critical(n) \in 0..n /\ Decrease(n) \in Critical(n)..n
  BY AdmissionAssumption
<1>2. \A n \in 1..MaxLimit : Critical(n) \in 0..n /\ Decrease(n) \in 0..n
  BY <1>1
<1> QED BY <1>2, AdmissionAssumption

LEMMA DesertedRests ==
    ASSUME NEW b, Deserted(b), NEW lim PROVE Rested(b, lim)
BY DEF Deserted, Rested

LEMMA DesertedKept ==
    ASSUME NEW b, Good(b), Deserted(b), NEW order, Keep(b, order) PROVE Deserted(Books)'
<1>1. Reranked(b.queue).count = b.queue.count
  BY Reranking DEF Good, Right
<1>2. Books'.queue.count = b.queue.count /\ Books'.lanes = b.lanes
  BY <1>1 DEF Books, Keep
<1> QED BY <1>2 DEF Deserted

LEMMA DispatchedFine ==
    ASSUME NEW b, NEW order, Entering(b, order), limit' \in Int, limit' > 0,
           Keep(Dispatch(b, order, limit'), order)
    PROVE  Fine
<1>1. /\ Onward(b, Dispatch(b, order, limit'), limit')
      /\ Rested(Dispatch(b, order, limit'), limit')
  BY Dispatched DEF Entering
<1> QED BY <1>1, KeptFine

LEMMA KeepDispatchedFine ==
    ASSUME NEW b, NEW order, Entering(b, order), limit' \in Int, limit' > 0,
           shutDown => Deserted(b), KeepDispatched(b, order, limit')
    PROVE  Fine /\ (shutDown => Deserted(Books)')
<1>1. CASE ~shutDown
  <2>1. Keep(Dispatch(b, order, limit'), order)
    BY <1>1 DEF KeepDispatched
  <2> QED BY <1>1, <2>1, DispatchedFine
<1>2. CASE shutDown
  <2>1. Keep(b, order) /\ Deserted(b)
    BY <1>2 DEF KeepDispatched
  <2>2. Onward(b, b, limit') /\ Rested(b, limit')
    BY <2>1, OnwardStays, DesertedRests DEF Entering
  <2>3. Fine
    BY <2>1, <2>2, KeptFine
  <2>4. Deserted(Books)'
    BY <2>1, DesertedKept DEF Entering
  <2> QED BY <2>3, <2>4
<1> QED BY <1>1, <1>2

LEMMA KeepEnteredFine ==
    ASSUME NEW b, NEW order, Entering(b, order), limit \in Int, limit > 0, limit' = limit,
           KeepEntered(b, order)
    PROVE  Fine
<1> DEFINE x == Dispatch(b, order, limit)
           y == Dispatch(x, order, limit)
<1>1. Onward(b, x, limit)
  BY Dispatched DEF Entering
<1> HIDE DEF x
<1>2. Good(x) /\ LanesIn(x, order)
  BY <1>1, OnwardLanes DEF Entering, Onward
<1>3. Onward(x, y, limit) /\ Rested(y, limit)
  BY <1>2, Dispatched DEF Entering
<1>4. Keep(y, order)
  BY DEF KeepEntered, x
<1> HIDE DEF y
<1>5. Onward(b, y, limit)
  BY <1>1, <1>3, OnwardOn
<1> QED BY <1>3, <1>4, <1>5, KeptFine

\* The fields of the books are the variables.
LEMMA BooksAre ==
    /\ Books.queue = queue /\ Books.lanes = lanes /\ Books.active = active
    /\ Books.cost = activeCost /\ Books.overdue = overdue
BY DEF Books

LEMMA QueuedIs ==
    ASSUME NEW S \in SUBSET Request, NEW L \in SUBSET Request, Right(Books, S, L)
    PROVE  /\ \A r \in Request : Queued(r) <=> r \in S \cup L
           /\ Holds(queue, S) /\ InQueue(queue) = S
           /\ \A t \in Tenant : Holds(lanes[t], Of(L, t)) /\ InQueue(lanes[t]) = Of(L, t)
           /\ Books \in BookType /\ lanes \in [Tenant -> QueueType]
           /\ active \in SUBSET Request /\ activeCost = TotalCost(active)
           /\ overdue \subseteq S \cup L /\ Apart(active, S, L)
           /\ (Deserted(Books) <=> S = {} /\ L = {})
<1>1. /\ Holds(queue, S)
      /\ \A t \in Tenant : Holds(lanes[t], Of(L, t)) /\ Of(L, t) \in SUBSET Request
      /\ overdue \subseteq S \cup L /\ Apart(active, S, L) /\ activeCost = TotalCost(active)
  BY BooksAre DEF Right, Of
<1>2. Books \in BookType /\ lanes \in [Tenant -> QueueType] /\ active \in SUBSET Request
  BY BooksAre DEF Right, BookType
<1>3. InQueue(queue) = S /\ (queue.count = 0 <=> S = {})
  BY <1>1, HoldsFacts
<1>4. \A t \in Tenant : InQueue(lanes[t]) = Of(L, t) /\ (lanes[t].count = 0 <=> Of(L, t) = {})
  BY <1>1, HoldsFacts
<1>5. ASSUME NEW r \in Request PROVE Queued(r) <=> r \in S \cup L
  <2>1. TenantOf[r] \in Tenant
    BY Weights
  <2>2. r \in L <=> r \in InQueue(lanes[TenantOf[r]])
    BY <1>4, <2>1 DEF Of
  <2> QED BY <1>3, <2>2 DEF Queued, InQueue
<1>6. L = {} <=> \A t \in Tenant : Of(L, t) = {}
  BY Weights DEF Of
<1>7. Deserted(Books) <=> S = {} /\ L = {}
  BY <1>3, <1>4, <1>6, BooksAre DEF Deserted
<1> QED BY <1>1, <1>2, <1>3, <1>4, <1>5, <1>7

LEMMA FollowsItself == \A q : Follows(q, q)
BY DEF Follows

LEMMA OverdueWait ==
    ASSUME Good(Books)
    PROVE  overdue \subseteq InQueue(queue) \cup UNION {InQueue(lanes[t]) : t \in Tenant}
<1>1. PICK S, L \in SUBSET Request : Right(Books, S, L)
  BY DEF Good
<1>2. /\ InQueue(queue) = S /\ \A t \in Tenant : InQueue(lanes[t]) = Of(L, t)
      /\ overdue \subseteq S \cup L
  BY <1>1, QueuedIs
<1>3. \A l \in L : \E t \in Tenant : l \in InQueue(lanes[t])
  <2>1. \A l \in L : TenantOf[l] \in Tenant /\ l \in Of(L, TenantOf[l])
    BY Weights DEF Of
  <2> QED BY <1>2, <2>1
<1> QED BY <1>2, <1>3

\* Where nothing about the queues and the leases changes.
LEMMA NothingMoves ==
    ASSUME AdmissionInv, NEW over, over = overdue', over \subseteq InQueue(queue) \cup
              UNION {InQueue(lanes[t]) : t \in Tenant},
           UNCHANGED <<queue, lanes, laneOrder, active, activeCost, limit>>
    PROVE  Fine /\ (shutDown => Deserted(Books)')
<1>1. PICK S, L \in SUBSET Request : Right(Books, S, L)
  BY DEF AdmissionInv, Good
<1>2. /\ Holds(queue, S) /\ InQueue(queue) = S
      /\ \A t \in Tenant : Holds(lanes[t], Of(L, t)) /\ InQueue(lanes[t]) = Of(L, t)
      /\ Books \in BookType /\ activeCost = TotalCost(active) /\ Apart(active, S, L)
      /\ lanes \in [Tenant -> QueueType] /\ active \in SUBSET Request
  BY <1>1, QueuedIs
<1>3. over \subseteq S \cup L
  <2>1. ASSUME NEW r \in over PROVE r \in S \cup L
    <3>1. r \in S \/ \E t \in Tenant : r \in InQueue(lanes[t])
      BY <1>2
    <3>2. \A t \in Tenant : Of(L, t) \subseteq L
      BY DEF Of
    <3> QED BY <1>2, <3>1, <3>2
  <2> QED BY <2>1
<1> DEFINE c == [queue |-> queue, lanes |-> lanes, active |-> active, cost |-> activeCost,
                 overdue |-> over]
<1>4. Books' = c
  BY DEF Books
<1>5. c.queue = queue /\ c.lanes = lanes /\ c.active = active /\ c.cost = activeCost
      /\ c.overdue = over
  OBVIOUS
<1>6. c \in BookType
  <2>1. queue \in QueueType /\ activeCost \in Int
    BY <1>2, BooksAre DEF Holds, BookType
  <2> QED BY <1>2, <1>3, <2>1 DEF BookType
<1> HIDE DEF c
<1>7. Good(c)
  <2>1. Right(c, S, L)
    BY <1>2, <1>3, <1>5, <1>6 DEF Right
  <2> QED BY <2>1 DEF Good
<1>8. Rested(c, limit) /\ (shutDown => Deserted(c))
  BY <1>5, BooksAre DEF AdmissionInv, Rested, Deserted
<1>9. Good(Books)' /\ Rested(Books, limit)' /\ (shutDown => Deserted(Books)')
  BY <1>4, <1>7, <1>8
<1>10. LanesOrdered'
  BY DEF AdmissionInv, LanesOrdered
<1>11. Within /\ InTurn
  BY DEF Within, InTurn
<1> QED BY <1>9, <1>10, <1>11 DEF Fine

-----------------------------------------------------------------------------
(* The operations, one by one.                                             *)

LEMMA RejectedOrOverdue ==
    ASSUME AdmissionInv, NEW r \in Request, AcquireRejected(r) \/ Overdue(r)
    PROVE  Fine /\ (shutDown => Deserted(Books)') /\ limit' = limit /\ adaptation' = adaptation
           /\ shutDown' = shutDown /\ virtualLanes' = virtualLanes
<1>1. /\ UNCHANGED <<queue, lanes, laneOrder, active, activeCost, limit>>
      /\ adaptation' = adaptation /\ shutDown' = shutDown /\ virtualLanes' = virtualLanes
      /\ overdue' = overdue \/ (Queued(r) /\ overdue' = overdue \cup {r})
  BY DEF AcquireRejected, Overdue, admissionVars, queueVars
<1>2. overdue' \subseteq InQueue(queue) \cup UNION {InQueue(lanes[t]) : t \in Tenant}
  <2>1. PICK S, L \in SUBSET Request : Right(Books, S, L)
    BY DEF AdmissionInv, Good
  <2>2. overdue' \subseteq S \cup L
    <3>1. overdue \subseteq S \cup L /\ (Queued(r) <=> r \in S \cup L)
      BY <2>1, QueuedIs
    <3> QED BY <1>1, <3>1
  <2>3. InQueue(queue) = S /\ \A t \in Tenant : InQueue(lanes[t]) = Of(L, t)
    BY <2>1, QueuedIs
  <2>4. \A l \in L : TenantOf[l] \in Tenant /\ l \in Of(L, TenantOf[l])
    BY Weights DEF Of
  <2>5. \A l \in L : \E t \in Tenant : l \in InQueue(lanes[t])
    BY <2>3, <2>4
  <2> QED BY <2>2, <2>3, <2>5
<1> QED BY <1>1, <1>2, NothingMoves

LEMMA AcquiredNow ==
    ASSUME AdmissionInv, NEW r \in Request, AcquireNow(r)
    PROVE  Fine /\ shutDown = FALSE /\ shutDown' = FALSE /\ limit' = limit
           /\ adaptation' = adaptation /\ virtualLanes' = virtualLanes
<1>1. PICK S, L \in SUBSET Request : Right(Books, S, L)
  BY DEF AdmissionInv, Good
<1>2. /\ Holds(queue, S) /\ InQueue(queue) = S
      /\ \A t \in Tenant : Holds(lanes[t], Of(L, t))
      /\ lanes \in [Tenant -> QueueType] /\ active \in SUBSET Request
      /\ activeCost = TotalCost(active) /\ Apart(active, S, L) /\ overdue \subseteq S \cup L
      /\ \A p \in Request : Queued(p) <=> p \in S \cup L
  BY <1>1, QueuedIs
<1>3. /\ ~shutDown /\ r \notin active /\ r \notin S /\ r \notin L
      /\ active' = active \cup {r} /\ activeCost' = activeCost + CostOf[r]
      /\ UNCHANGED <<queue, lanes, laneOrder, overdue, limit, adaptation, shutDown, virtualLanes>>
      /\ Admits(r)
  BY <1>2 DEF AcquireNow, Idle, queueVars
<1>4. queue.count = 0 /\ S = {}
  <2>1. queue.count = 0
    BY <1>3 DEF Admits, AdmitsSolo
  <2> QED BY <1>2, <2>1, HoldsFacts
<1> DEFINE A == active \cup {r}
           c == [queue |-> queue, lanes |-> lanes, active |-> A, cost |-> activeCost + CostOf[r],
                 overdue |-> overdue]
<1>5. Books' = c
  BY <1>3 DEF Books
<1>6. c.queue = queue /\ c.lanes = lanes /\ c.active = A /\ c.cost = activeCost + CostOf[r]
      /\ c.overdue = overdue /\ A # {} /\ A \in SUBSET Request /\ Apart(A, S, L)
  BY <1>2, <1>3 DEF Apart
<1>7. activeCost + CostOf[r] = TotalCost(A) /\ TotalCost(A) \in Nat
  <2>1. TotalCost(active \cup {r}) = TotalCost(active) + CostOf[r]
    BY <1>2, <1>3, Weighed
  <2>2. TotalCost(A) \in Nat
    <3> HIDE DEF A
    <3> QED BY <1>6, Weighed
  <2> QED BY <1>2, <2>1, <2>2
<1>8. c \in BookType
  <2>1. queue \in QueueType
    BY <1>2 DEF Holds
  <2> HIDE DEF A
  <2> QED BY <1>2, <1>6, <1>7, <2>1 DEF BookType
<1> HIDE DEF c, A
<1>9. Right(c, S, L)
  BY <1>2, <1>6, <1>7, <1>8 DEF Right
<1>10. Good(c)
  BY <1>9 DEF Good
<1>11. Rested(c, limit)
  BY <1>4, <1>6 DEF Rested
<1>12. Good(Books)' /\ Rested(Books, limit)'
  BY <1>3, <1>5, <1>10, <1>11
<1>13. LanesOrdered'
  BY <1>3 DEF AdmissionInv, LanesOrdered
<1>14. Within
  <2>1. CASE CostOf[r] > limit
    <3>1. AdmitsSolo(r)
      BY <1>3, <2>1 DEF Admits
    <3>2. active = {} /\ CostOf[r] <= MaxLimit /\ adaptation.pressure = "normal" /\ laneOrder = <<>>
      BY <3>1 DEF AdmitsSolo
    <3>3. activeCost = 0
      BY <1>2, <3>2, WeighsNothing
    <3>4. activeCost' <= MaxLimit
      <4>1. CostOf[r] \in Nat
        BY Weights
      <4> QED BY <1>3, <3>2, <3>3, <4>1
    <3>5. Cardinality(active') = 1
      <4>1. active' = {r}
        BY <1>3, <3>2
      <4> QED BY <4>1, FS_Singleton
    <3>6. \A p \in Request : ~Queued(p)
      <4>1. {t \in Tenant : lanes[t].count > 0} = {}
        BY <3>2, NothingQueued DEF AdmissionInv, LanesOrdered
      <4>2. \A t \in Tenant : Of(L, t) \in SUBSET Request
        BY DEF Of
      <4>3. \A t \in Tenant : lanes[t].count \in Nat /\ (lanes[t].count = 0 <=> Of(L, t) = {})
        BY <1>2, <4>2, HoldsFacts
      <4>4. \A t \in Tenant : Of(L, t) = {}
        BY <4>1, <4>3
      <4>5. L = {}
        BY <4>4, Weights DEF Of
      <4> QED BY <1>2, <1>4, <4>5
    <3> QED BY <3>2, <3>4, <3>5, <3>6 DEF Within
  <2>2. CASE ~(CostOf[r] > limit)
    <3>1. activeCost + CostOf[r] <= limit
      BY <1>3, <2>2 DEF Admits
    <3> QED BY <1>3, <3>1 DEF Within
  <2> QED BY <2>1, <2>2
<1>15. InTurn
  <2>1. \A t \in Tenant : Head(queue.bucket[t]).id \notin InQueue(queue)
    BY <1>2, <1>4
  <2> QED BY <1>3, <2>1 DEF InTurn
<1> QED BY <1>3, <1>12, <1>13, <1>14, <1>15 DEF Fine, AdmissionInv, AdmissionType

\* A request that is not queued enters the shared queue.
LEMMA AcquiredQueued ==
    ASSUME AdmissionInv, NEW r \in Request, AcquireQueued(r)
    PROVE  Fine /\ shutDown = FALSE /\ shutDown' = FALSE /\ limit' = limit
           /\ adaptation' = adaptation /\ virtualLanes' = virtualLanes
<1>1. PICK S, L \in SUBSET Request : Right(Books, S, L)
  BY DEF AdmissionInv, Good
<1>2. /\ Holds(queue, S) /\ InQueue(queue) = S
      /\ \A t \in Tenant : Holds(lanes[t], Of(L, t))
      /\ Books \in BookType /\ Apart(active, S, L) /\ overdue \subseteq S \cup L
      /\ activeCost = TotalCost(active)
      /\ \A p \in Request : Queued(p) <=> p \in S \cup L
  BY <1>1, QueuedIs
<1>3. /\ ~shutDown /\ r \notin active /\ r \notin S /\ r \notin L
      /\ UNCHANGED <<limit, adaptation, shutDown, virtualLanes>>
  BY <1>2 DEF AcquireQueued, Idle
<1>4. PICK stamp \in NextStamps(queue) :
         KeepEntered([Books EXCEPT !.queue = Enqueue(@, TenantOf[r], EntryOf(r, stamp))], laneOrder)
  BY DEF AcquireQueued
<1> DEFINE e == EntryOf(r, stamp)
           q == Enqueue(queue, TenantOf[r], e)
           b == [Books EXCEPT !.queue = Enqueue(@, TenantOf[r], e)]
<1>5. e \in EntryType /\ e.id = r /\ e.cost = CostOf[r] /\ e.skips < MaxSkips
  <2>1. stamp \in Nat
    BY <1>2, StampsNatural
  <2>2. CostOf[r] \in Nat /\ 0 \in 0..MaxSkips /\ 0 < MaxSkips
    BY Weights, SkipsAssumption
  <2> QED BY <2>1, <2>2 DEF EntryOf, EntryType
<1> HIDE DEF e
<1>6. Holds(q, S \cup {r}) /\ Joined(q, queue, e)
  BY <1>2, <1>3, <1>5, EnqueueHolds
<1>7. b = [Books EXCEPT !.queue = q]
  BY BooksAre
<1> HIDE DEF q, b
<1>8. b \in BookType /\ b.queue = q /\ b.lanes = lanes /\ b.active = active
      /\ b.cost = activeCost /\ b.overdue = overdue
  <2>1. q \in QueueType
    BY <1>6 DEF Holds
  <2> QED BY <1>2, <1>7, <2>1, BooksAre DEF BookType
<1>9. Good(b)
  <2>1. Apart(active, S \cup {r}, L) /\ overdue \subseteq (S \cup {r}) \cup L
    BY <1>2, <1>3 DEF Apart
  <2>2. Right(b, S \cup {r}, L)
    BY <1>2, <1>6, <1>8, <2>1 DEF Right
  <2> QED BY <2>2 DEF Good
<1>10. Follows(queue, b.queue)
  BY <1>5, <1>6, <1>8 DEF Follows, Joined
<1>11. Entering(b, laneOrder)
  BY <1>8, <1>9, <1>10 DEF Entering, AdmissionInv, LanesOrdered, LanesIn
<1>12. KeepEntered(b, laneOrder)
  BY <1>4 DEF b, e
<1>13. limit \in Int /\ limit > 0
  BY Limits DEF AdmissionInv, AdmissionType
<1>14. Fine
  BY <1>3, <1>11, <1>12, <1>13, KeepEnteredFine
<1> QED BY <1>3, <1>14 DEF AdmissionInv, AdmissionType

\* Fewer wait in the lanes of c than in those of b, and nothing else differs.
Fewer(c, b) ==
    /\ c.queue = b.queue /\ c.active = b.active /\ c.cost = b.cost
    /\ \A t \in Tenant : c.lanes[t] = b.lanes[t] \/ c.lanes[t].count = 0

LeftIn(L, gone) == {r \in L : TenantOf[r] \notin gone}

\* Lanes are deleted, with whoever waits in them.
LEMMA DeletedRight ==
    ASSUME NEW S \in SUBSET Request, NEW L \in SUBSET Request, NEW b, Right(b, S, L), NEW gone
    PROVE  /\ LeftIn(L, gone) \in SUBSET L /\ Right(Deleted(b, gone), S, LeftIn(L, gone))
           /\ Fewer(Deleted(b, gone), b)
<1> DEFINE M == [t \in Tenant |-> IF t \in gone THEN EmptyQueue ELSE b.lanes[t]]
           O == b.overdue \ {e.id : e \in UNION {Entries(b.lanes[t]) : t \in gone}}
           c == Deleted(b, gone)
           left == {r \in L : TenantOf[r] \notin gone}
<1>1. b \in BookType /\ Apart(b.active, S, L) /\ b.overdue \subseteq S \cup L
      /\ \A t \in Tenant : Holds(b.lanes[t], Of(L, t)) /\ Of(L, t) \in SUBSET Request
  BY DEF Right, Of
<1>2. \A t \in Tenant : M[t] = IF t \in gone THEN EmptyQueue ELSE b.lanes[t]
  OBVIOUS
<1>3. M \in [Tenant -> QueueType]
  <2>1. EmptyQueue \in QueueType /\ \A t \in Tenant : b.lanes[t] \in QueueType
    BY <1>1, HoldsNobody DEF Holds
  <2>2. M = [t \in Tenant |-> M[t]]
    OBVIOUS
  <2> HIDE DEF M
  <2> QED BY <1>2, <2>1, <2>2
<1>4. c = [b EXCEPT !.lanes = M, !.overdue = O]
  BY DEF Deleted
<1> HIDE DEF M, O, c
<1>5. c \in BookType /\ c.queue = b.queue /\ c.active = b.active /\ c.cost = b.cost
      /\ c.lanes = M /\ c.overdue = O
  <2>1. O \in SUBSET Request
    BY <1>1 DEF O, BookType
  <2> QED BY <1>1, <1>3, <1>4, <2>1 DEF BookType
<1>6. ASSUME NEW t \in Tenant PROVE Holds(M[t], Of(left, t))
  <2>1. CASE t \in gone
    <3>1. Of(left, t) = {}
      BY <2>1 DEF Of
    <3> QED BY <1>2, <2>1, <3>1, HoldsNobody
  <2>2. CASE t \notin gone
    <3>1. Of(left, t) = Of(L, t)
      BY <2>2 DEF Of
    <3> QED BY <1>1, <1>2, <2>2, <3>1
  <2> QED BY <2>1, <2>2
<1>7. O \subseteq S \cup left
  <2> SUFFICES ASSUME NEW r \in O, r \notin S, TenantOf[r] \in gone PROVE FALSE
    BY <1>1 DEF O
  <2>1. r \in L /\ r \in Request
    BY <1>1 DEF O
  <2>2. TenantOf[r] \in Tenant /\ r \in Of(L, TenantOf[r])
    BY <2>1, Weights DEF Of
  <2>3. InQueue(b.lanes[TenantOf[r]]) = Of(L, TenantOf[r])
    BY <1>1, <2>2, HoldsFacts
  <2>4. PICK e \in Entries(b.lanes[TenantOf[r]]) : e.id = r
    BY <2>2, <2>3 DEF InQueue
  <2> QED BY <2>4 DEF O
<1>8. Apart(c.active, S, left) /\ left \subseteq L
  BY <1>1, <1>5 DEF Apart
<1>9. Right(c, S, left)
  BY <1>5, <1>6, <1>7, <1>8 DEF Right
<1>10. \A t \in Tenant : c.lanes[t] = b.lanes[t] \/ c.lanes[t].count = 0
  BY <1>2, <1>5 DEF EmptyQueue
<1>11. Fewer(c, b)
  BY <1>5, <1>10 DEF Fewer
<1> QED BY <1>8, <1>9, <1>11 DEF c, LeftIn

\* Fewer wait in lanes than now, and nothing else has changed.
Thinned(b) ==
    /\ Good(b) /\ b.queue = queue /\ b.active = active /\ b.cost = activeCost
    /\ \A t \in Tenant : b.lanes[t] = lanes[t] \/ b.lanes[t].count = 0

LEMMA DeletedThinned ==
    ASSUME AdmissionInv, NEW gone
    PROVE  Thinned(Deleted(Books, gone))
<1>1. PICK S, L \in SUBSET Request : Right(Books, S, L)
  BY DEF AdmissionInv, Good
<1> DEFINE b == Deleted(Books, gone)
<1>2. LeftIn(L, gone) \in SUBSET Request /\ Right(b, S, LeftIn(L, gone)) /\ Fewer(b, Books)
  BY <1>1, DeletedRight
<1> HIDE DEF b
<1>3. Good(b)
  BY <1>2 DEF Good
<1> QED BY <1>2, <1>3, BooksAre DEF Thinned, Fewer, b

LEMMA ThinnedEnters ==
    ASSUME AdmissionInv, NEW b, Thinned(b), NEW order \in Seq(Tenant), NoRepeats(order),
           \A t \in Tenant : b.lanes[t].count > 0 => t \in ToSet(order)
    PROVE  /\ Entering(b, order) /\ Rested(b, limit) /\ (shutDown => Deserted(b))
           /\ Onward(b, b, limit)
<1>1. Entering(b, order)
  BY FollowsItself DEF Entering, Thinned, LanesIn
<1>2. Rested(b, limit)
  <2>1. /\ b.queue = queue /\ b.active = active /\ b.cost = activeCost
        /\ \A t \in Tenant : b.lanes[t] = lanes[t] \/ b.lanes[t].count = 0
    BY DEF Thinned
  <2>2. /\ queue.count > 0 => Choice(queue, limit - activeCost) = {}
        /\ queue.count = 0 /\ active = {} =>
              \A t \in Tenant : lanes[t].count > 0 => Choice(lanes[t], limit) = {}
    BY BooksAre DEF AdmissionInv, Rested
  <2>3. ASSUME queue.count = 0, active = {}, NEW t \in Tenant, b.lanes[t].count > 0
        PROVE  Choice(b.lanes[t], limit) = {}
    <3>1. b.lanes[t] = lanes[t]
      BY <2>1, <2>3
    <3> QED BY <2>2, <2>3, <3>1
  <2> QED BY <2>1, <2>2, <2>3 DEF Rested
<1>3. shutDown => Deserted(b)
  BY BooksAre DEF AdmissionInv, Deserted, Thinned
<1> QED BY <1>1, <1>2, <1>3, OnwardStays DEF Thinned

\* A request enters the lane of its tenant.
Entrant(b, r) == [b EXCEPT !.lanes[TenantOf[r]] = Enqueue(@, TenantOf[r], EntryOf(r, 0))]

Widened(c, b, t) ==
    /\ c.queue = b.queue /\ c.active = b.active
    /\ \A u \in Tenant : c.lanes[u].count > 0 => u = t \/ b.lanes[u].count > 0

LEMMA LaneJoined ==
    ASSUME NEW S \in SUBSET Request, NEW L \in SUBSET Request, NEW b, Right(b, S, L),
           NEW r \in Request, r \notin b.active, r \notin S, r \notin L
    PROVE  Right(Entrant(b, r), S, L \cup {r}) /\ Widened(Entrant(b, r), b, TenantOf[r])
<1> DEFINE t == TenantOf[r]
           e == EntryOf(r, 0)
           q == Enqueue(b.lanes[t], t, e)
           M == [b.lanes EXCEPT ![t] = q]
           c == Entrant(b, r)
<1>1. /\ t \in Tenant /\ b \in BookType /\ Apart(b.active, S, L) /\ b.overdue \subseteq S \cup L
      /\ \A u \in Tenant : Holds(b.lanes[u], Of(L, u)) /\ Of(L, u) \in SUBSET Request
  BY Weights DEF Right, Of
<1>2. e \in EntryType /\ e.id = r /\ e.cost = CostOf[r]
  <2>1. CostOf[r] \in Nat /\ 0 \in 0..MaxSkips
    BY Weights, SkipsAssumption
  <2> QED BY <2>1 DEF EntryOf, EntryType
<1>3. c = [b EXCEPT !.lanes = M]
  BY DEF Entrant
<1> HIDE DEF e, c
<1>4. Holds(q, Of(L, t) \cup {r})
  <2>1. r \notin Of(L, t)
    BY DEF Of
  <2>2. Holds(Enqueue(b.lanes[t], TenantOf[r], e), Of(L, t) \cup {r})
    BY <1>1, <1>2, <2>1, EnqueueHolds
  <2> QED BY <2>2
<1> HIDE DEF q
<1>5. M \in [Tenant -> QueueType] /\ M[t] = q /\ \A u \in Tenant \ {t} : M[u] = b.lanes[u]
  <2>1. q \in QueueType
    BY <1>4 DEF Holds
  <2> QED BY <1>1, <2>1 DEF BookType
<1> HIDE DEF M
<1>6. c \in BookType /\ c.queue = b.queue /\ c.active = b.active /\ c.cost = b.cost
      /\ c.overdue = b.overdue /\ c.lanes = M
  BY <1>1, <1>3, <1>5 DEF BookType
<1>7. \A u \in Tenant : Holds(c.lanes[u], Of(L \cup {r}, u))
  <2>1. Of(L \cup {r}, t) = Of(L, t) \cup {r}
        /\ \A u \in Tenant \ {t} : Of(L \cup {r}, u) = Of(L, u)
    BY DEF Of
  <2> QED BY <1>1, <1>4, <1>5, <1>6, <2>1
<1>8. Apart(c.active, S, L \cup {r}) /\ c.overdue \subseteq S \cup (L \cup {r})
  BY <1>1, <1>6 DEF Apart
<1>9. Right(c, S, L \cup {r})
  BY <1>6, <1>7, <1>8 DEF Right
<1>10. Widened(c, b, t)
  BY <1>5, <1>6 DEF Widened
<1> QED BY <1>9, <1>10 DEF c

LEMMA AcquiredInLane ==
    ASSUME AdmissionInv, NEW r \in Request, AcquireInLane(r)
    PROVE  Fine /\ shutDown = FALSE /\ shutDown' = FALSE /\ limit' = limit
           /\ adaptation' = adaptation /\ virtualLanes' = virtualLanes
<1> DEFINE t == TenantOf[r]
           order == IF lanes[t].count = 0 THEN Append(laneOrder, t) ELSE laneOrder
<1>1. PICK S, L \in SUBSET Request : Right(Books, S, L)
  BY DEF AdmissionInv, Good
<1>2. /\ ~shutDown /\ r \notin active /\ r \notin S /\ r \notin L /\ t \in Tenant
      /\ UNCHANGED <<limit, adaptation, shutDown, virtualLanes>>
  BY <1>1, QueuedIs, Weights DEF AcquireInLane, Idle
<1>3. PICK gone \in Evictable(t) :
         LET b == Deleted(Books, gone)
         IN  IF CanAccept(lanes[t], CostOf[r], Caps)
             THEN KeepEntered([b EXCEPT !.lanes[t] = Enqueue(@, t, EntryOf(r, 0))], order)
             ELSE Keep(b, order)
  BY Zenon DEF AcquireInLane
<1> DEFINE b == Deleted(Books, gone)
           left == LeftIn(L, gone)
<1>4. /\ laneOrder \in Seq(Tenant) /\ NoRepeats(laneOrder)
      /\ ToSet(laneOrder) = {u \in Tenant : lanes[u].count > 0}
      /\ \A u \in Tenant : lanes[u].count \in Nat
  BY RightFacts, BooksAre DEF AdmissionInv, LanesOrdered
<1>5. /\ order \in Seq(Tenant) /\ NoRepeats(order) /\ t \in ToSet(order)
      /\ ToSet(laneOrder) \subseteq ToSet(order)
  <2> HIDE DEF t
  <2>1. CASE lanes[t].count = 0
    <3>1. t \notin ToSet(laneOrder) /\ order = Append(laneOrder, t)
      BY <1>4, <2>1
    <3>2. /\ order \in Seq(Tenant) /\ ToSet(order) = ToSet(laneOrder) \cup {t}
          /\ \A a, c : Precedes(order, a, c)
                          <=> Precedes(laneOrder, a, c) \/ (a \in ToSet(laneOrder) /\ c = t)
      BY <1>2, <1>4, <3>1, AppendQueue
    <3> HIDE DEF order
    <3> QED BY <1>4, <3>1, <3>2 DEF NoRepeats
  <2>2. CASE lanes[t].count # 0
    BY <1>2, <1>4, <2>2
  <2> QED BY <2>1, <2>2
<1> HIDE DEF order
<1>6. Right(b, S, left) /\ left \subseteq L
  BY <1>1, DeletedRight
<1>7. Thinned(b)
  BY DeletedThinned
<1> HIDE DEF b
<1>8. \A u \in Tenant : b.lanes[u].count > 0 => u \in ToSet(order)
  BY <1>4, <1>5, <1>7 DEF Thinned
<1>9. limit \in Int /\ limit > 0
  BY Limits DEF AdmissionInv, AdmissionType
<1>10. CASE CanAccept(lanes[t], CostOf[r], Caps)
  <2> DEFINE c == Entrant(b, r)
  <2>1. KeepEntered(c, order)
    BY <1>3, <1>10 DEF b, Entrant
  <2>2. Right(c, S, left \cup {r}) /\ Widened(c, b, t)
    <3>1. r \notin left /\ r \notin b.active /\ left \in SUBSET Request
      BY <1>2, <1>6, <1>7 DEF Thinned
    <3> HIDE DEF left
    <3> QED BY <1>2, <1>6, <3>1, LaneJoined
  <2> HIDE DEF c
  <2>3. Good(c)
    <3>1. left \cup {r} \in SUBSET Request
      BY <1>6
    <3> HIDE DEF left
    <3> QED BY <2>2, <3>1 DEF Good
  <2>4. Entering(c, order)
    BY <1>5, <1>7, <1>8, <2>2, <2>3, FollowsItself DEF Entering, LanesIn, Thinned, Widened
  <2>5. Fine
    BY <1>2, <1>9, <2>1, <2>4, KeepEnteredFine
  <2> QED BY <1>2, <2>5 DEF AdmissionInv, AdmissionType
<1>11. CASE ~CanAccept(lanes[t], CostOf[r], Caps)
  <2>1. Keep(b, order)
    BY <1>3, <1>11 DEF b
  <2>2. Entering(b, order) /\ Rested(b, limit) /\ Onward(b, b, limit)
    BY <1>5, <1>7, <1>8, ThinnedEnters
  <2>3. Fine
    BY <1>2, <2>1, <2>2, KeptFine
  <2> QED BY <1>2, <2>3 DEF AdmissionInv, AdmissionType
<1> QED BY <1>10, <1>11

\* A request leaves its queue without being admitted.
Withdrawn(b, r) ==
    [b EXCEPT !.queue = RemoveId(@, TenantOf[r], r),
              !.lanes[TenantOf[r]] = RemoveId(@, TenantOf[r], r),
              !.overdue = @ \ {r}]

Shrunk(c, b, r) ==
    /\ c.active = b.active /\ c.queue = RemoveId(b.queue, TenantOf[r], r)
    /\ \A u \in Tenant : b.lanes[u].count = 0 => c.lanes[u].count = 0

LEMMA WithdrawnRight ==
    ASSUME NEW S \in SUBSET Request, NEW L \in SUBSET Request, NEW b, Right(b, S, L),
           NEW r \in Request
    PROVE  Right(Withdrawn(b, r), S \ {r}, L \ {r}) /\ Shrunk(Withdrawn(b, r), b, r)
<1> DEFINE t == TenantOf[r]
           q == RemoveId(b.queue, t, r)
           l == RemoveId(b.lanes[t], t, r)
           M == [b.lanes EXCEPT ![t] = l]
           c == Withdrawn(b, r)
<1>1. /\ t \in Tenant /\ b \in BookType /\ Apart(b.active, S, L) /\ b.overdue \subseteq S \cup L
      /\ Holds(b.queue, S) /\ b.cost = TotalCost(b.active)
      /\ \A u \in Tenant : Holds(b.lanes[u], Of(L, u)) /\ Of(L, u) \in SUBSET Request
  BY Weights DEF Right, Of
<1>2. Holds(q, S \ {r})
  <2>1. Holds(q, S \ (Of(S, t) \cap {r}))
    BY <1>1, RemoveHolds
  <2>2. S \ (Of(S, t) \cap {r}) = S \ {r}
    BY DEF Of
  <2> HIDE DEF q
  <2> QED BY <2>1, <2>2
<1>3. Holds(l, Of(L \ {r}, t))
  <2>1. Holds(l, Of(L, t) \ (Of(Of(L, t), t) \cap {r}))
    BY <1>1, RemoveHolds
  <2>2. Of(L, t) \ (Of(Of(L, t), t) \cap {r}) = Of(L \ {r}, t)
    BY DEF Of
  <2> HIDE DEF l
  <2> QED BY <2>1, <2>2
<1>4. c = [b EXCEPT !.queue = q, !.lanes = M, !.overdue = b.overdue \ {r}]
  BY DEF Withdrawn
<1> HIDE DEF c, q, l
<1>5. M \in [Tenant -> QueueType] /\ M[t] = l /\ \A u \in Tenant \ {t} : M[u] = b.lanes[u]
  <2>1. l \in QueueType
    BY <1>3 DEF Holds
  <2> QED BY <1>1, <2>1 DEF BookType
<1> HIDE DEF M
<1>6. c \in BookType /\ c.queue = q /\ c.active = b.active /\ c.cost = b.cost
      /\ c.overdue = b.overdue \ {r} /\ c.lanes = M
  <2>1. q \in QueueType /\ b.overdue \ {r} \in SUBSET Request
    BY <1>1, <1>2 DEF Holds
  <2> QED BY <1>1, <1>4, <1>5, <2>1 DEF BookType
<1>7. \A u \in Tenant : Holds(c.lanes[u], Of(L \ {r}, u))
  <2>1. \A u \in Tenant \ {t} : Of(L \ {r}, u) = Of(L, u)
    BY DEF Of
  <2> QED BY <1>1, <1>3, <1>5, <1>6, <2>1
<1>8. Apart(c.active, S \ {r}, L \ {r}) /\ c.overdue \subseteq (S \ {r}) \cup (L \ {r})
  BY <1>1, <1>6 DEF Apart
<1>9. Right(c, S \ {r}, L \ {r})
  BY <1>1, <1>2, <1>6, <1>7, <1>8 DEF Right
<1>10. ASSUME NEW u \in Tenant, b.lanes[u].count = 0 PROVE c.lanes[u].count = 0
  <2>1. CASE u = t
    <3>1. Of(L, t) = {}
      BY <1>1, <1>10, <2>1, HoldsFacts
    <3>2. Of(L \ {r}, t) = {} /\ {} \in SUBSET Request
      BY <3>1 DEF Of
    <3>3. l.count = 0
      BY <1>3, <3>2, HoldsFacts
    <3> QED BY <1>5, <1>6, <2>1, <3>3
  <2>2. CASE u # t
    BY <1>5, <1>6, <1>10, <2>2
  <2> QED BY <2>1, <2>2
<1>11. Shrunk(c, b, r)
  BY <1>6, <1>10 DEF Shrunk, q
<1> QED BY <1>9, <1>11 DEF c

LEMMA Expired ==
    ASSUME AdmissionInv, NEW r \in Request, ExpireEntry(r)
    PROVE  Fine /\ (shutDown => Deserted(Books)') /\ limit' = limit /\ adaptation' = adaptation
           /\ shutDown' = shutDown /\ virtualLanes' = virtualLanes
<1> DEFINE b == Withdrawn(Books, r)
<1>1. PICK S, L \in SUBSET Request : Right(Books, S, L)
  BY DEF AdmissionInv, Good
<1>2. /\ Holds(queue, S) /\ InQueue(queue) = S
      /\ (Queued(r) <=> r \in S \cup L) /\ (Deserted(Books) <=> S = {} /\ L = {})
  BY <1>1, QueuedIs
<1>3. /\ Queued(r) /\ KeepDispatched(b, laneOrder, limit)
      /\ UNCHANGED <<limit, adaptation, shutDown, virtualLanes>>
  BY DEF ExpireEntry, Withdrawn
<1>4. Right(b, S \ {r}, L \ {r}) /\ Shrunk(b, Books, r)
  BY <1>1, WithdrawnRight
<1> HIDE DEF b
<1>5. /\ b.active = active /\ b.queue = RemoveId(queue, TenantOf[r], r)
       /\ \A u \in Tenant : lanes[u].count = 0 => b.lanes[u].count = 0
  BY <1>4, BooksAre DEF Shrunk
<1>6. Good(b) /\ Holds(b.queue, S \ {r}) /\ \A u \in Tenant : b.lanes[u].count \in Nat
  <2>1. Good(b)
    BY <1>4 DEF Good
  <2> QED BY <1>4, <2>1, RightFacts DEF Right
<1>7. Follows(queue, b.queue)
  <2>1. Keeps(b.queue, queue, r)
    <3>1. Keeps(RemoveId(queue, TenantOf[r], r), queue, r)
      BY <1>2, Weights, RemoveHolds
    <3> QED BY <1>5, <3>1
  <2>2. InQueue(b.queue) = S \ {r}
    BY <1>6, HoldsFacts
  <2> QED BY <2>1, <2>2 DEF Follows, Keeps
<1>8. LanesIn(b, laneOrder)
  <2>1. \A u \in Tenant : lanes[u].count \in Nat
    BY RightFacts, BooksAre DEF AdmissionInv
  <2>2. \A u \in Tenant : b.lanes[u].count > 0 => lanes[u].count > 0
    BY <1>5, <2>1
  <2> QED BY <2>2 DEF LanesIn, AdmissionInv, LanesOrdered
<1>9. Entering(b, laneOrder)
  BY <1>6, <1>7, <1>8, <1>5 DEF Entering, AdmissionInv, LanesOrdered
<1>10. ~shutDown
  BY <1>2, <1>3 DEF AdmissionInv
<1>11. limit' \in Int /\ limit' > 0 /\ KeepDispatched(b, laneOrder, limit')
  BY <1>3, Limits DEF AdmissionInv, AdmissionType
<1>12. Fine
  BY <1>9, <1>10, <1>11, KeepDispatchedFine
<1> QED BY <1>3, <1>10, <1>12

LEMMA Released ==
    ASSUME AdmissionInv, NEW r \in Request, NEW failed \in BOOLEAN, ReleaseLease(r, failed)
    PROVE  Fine /\ (shutDown => Deserted(Books)') /\ limit' = limit
           /\ adaptation' = [adaptation EXCEPT !.completed = TRUE, !.freeze = @ \/ failed]
           /\ shutDown' = shutDown /\ virtualLanes' = virtualLanes
<1> DEFINE b == [Books EXCEPT !.active = @ \ {r}, !.cost = @ - CostOf[r]]
<1>1. PICK S, L \in SUBSET Request : Right(Books, S, L)
  BY DEF AdmissionInv, Good
<1>2. /\ r \in active /\ KeepDispatched(b, laneOrder, limit)
      /\ UNCHANGED <<limit, shutDown, virtualLanes>>
      /\ adaptation' = [adaptation EXCEPT !.completed = TRUE, !.freeze = @ \/ failed]
  BY DEF ReleaseLease
<1>3. /\ Books \in BookType /\ active \in SUBSET Request /\ activeCost = TotalCost(active)
      /\ overdue \subseteq S \cup L /\ Apart(active, S, L)
      /\ Holds(queue, S) /\ \A t \in Tenant : Holds(lanes[t], Of(L, t))
  BY <1>1, QueuedIs
<1>4. /\ TotalCost(active \ {r}) = activeCost - CostOf[r] /\ TotalCost(active \ {r}) \in Nat
      /\ active \ {r} \in SUBSET Request
  BY <1>2, <1>3, WeighedLess, Weighed
<1> DEFINE A == active \ {r}
           w == TotalCost(A)
<1>5. b = [queue |-> queue, lanes |-> lanes, active |-> A, cost |-> w, overdue |-> overdue]
  <2>1. b = [Books EXCEPT !.active = active \ {r}, !.cost = TotalCost(active \ {r})]
    BY <1>4, BooksAre
  <2> HIDE DEF b
  <2> QED BY <2>1 DEF Books
<1>6. A \in SUBSET Request /\ w \in Nat
  BY <1>4
<1> HIDE DEF b, w, A
<1>7. b \in BookType /\ b.queue = queue /\ b.lanes = lanes /\ b.active = A /\ b.cost = w
      /\ b.overdue = overdue
  <2>1. queue \in QueueType /\ lanes \in [Tenant -> QueueType] /\ overdue \in SUBSET Request
    BY <1>3, BooksAre DEF BookType
  <2> QED BY <1>5, <1>6, <2>1 DEF BookType
<1>8. Good(b)
  <2>1. Apart(b.active, S, L)
    BY <1>3, <1>7 DEF Apart, A
  <2>2. Right(b, S, L)
    BY <1>3, <1>7, <2>1 DEF Right, w
  <2> QED BY <2>2 DEF Good
<1>9. Entering(b, laneOrder)
  BY <1>7, <1>8, FollowsItself DEF Entering, A, AdmissionInv, LanesOrdered, LanesIn
<1>10. shutDown => Deserted(b)
  BY <1>7, BooksAre DEF AdmissionInv, Deserted
<1>11. limit' \in Int /\ limit' > 0 /\ KeepDispatched(b, laneOrder, limit')
  BY <1>2, Limits DEF AdmissionInv, AdmissionType
<1> QED BY <1>2, <1>9, <1>10, <1>11, KeepDispatchedFine

LEMMA ClampedWithin ==
    ASSUME NEW n \in Int PROVE Clamped(n) \in MinLimit..MaxLimit
BY Limits DEF Clamped

LEMMA NextWithin ==
    ASSUME AdmissionType, NEW steep, NEW load
    PROVE  NextLimit(steep, load) \in MinLimit..MaxLimit
<1> DEFINE a == adaptation
           n == IF a.pressure = "critical" THEN IF a.consumed THEN limit ELSE Critical(limit)
                ELSE IF a.pressure = "high" \/ (a.completed /\ steep) THEN Decrease(limit)
                ELSE IF ~a.freeze /\ load = "high" /\ a.completed THEN limit + Step
                ELSE limit
           m == IF load = "low" THEN Recovered(n) ELSE n
<1>1. limit \in 1..MaxLimit /\ limit \in Int
  BY Limits DEF AdmissionType
<1>2. Critical(limit) \in Int /\ Decrease(limit) \in Int /\ limit + Step \in Int
  BY <1>1, Limits
<1>3. n \in Int
  BY <1>1, <1>2
<1>4. NextLimit(steep, load) = Clamped(m)
  BY DEF NextLimit
<1> HIDE DEF n
<1>5. Recovered(n) \in Int
  BY <1>3, Limits DEF Recovered
<1>6. m \in Int
  BY <1>3, <1>5
<1> QED BY <1>4, <1>6, ClampedWithin

LEMMA Observed ==
    ASSUME AdmissionInv, NEW p \in {"high", "critical"}, ObservePressure(p)
    PROVE  Fine /\ (shutDown => Deserted(Books)') /\ AdmissionType'
<1> DEFINE falls == p = "critical" /\ ~adaptation.consumed
           lower == IF Critical(limit) < MinLimit THEN MinLimit ELSE Critical(limit)
<1>1. /\ adaptation' = [adaptation EXCEPT
                !.pressure = IF Severity(p) > Severity(@) THEN p ELSE @,
                !.consumed = @ \/ falls]
      /\ limit' = IF falls THEN lower ELSE limit
      /\ IF falls THEN KeepDispatched(Books, laneOrder, lower)
         ELSE UNCHANGED <<queueVars, active, activeCost>>
      /\ UNCHANGED <<shutDown, virtualLanes>>
  BY DEF ObservePressure
<1>2. lower \in MinLimit..MaxLimit
  <2>1. limit \in 1..MaxLimit
    BY Limits DEF AdmissionInv, AdmissionType
  <2>2. Critical(limit) \in 0..limit
    BY <2>1, Limits
  <2> QED BY <2>1, <2>2, Limits
<1> HIDE DEF lower
<1>3. limit' \in MinLimit..MaxLimit /\ limit' \in Int /\ limit' > 0
  BY <1>1, <1>2, Limits DEF AdmissionInv, AdmissionType
<1>4. AdmissionType'
  <2>1. adaptation' \in [pressure : {"normal", "high", "critical"}, consumed : BOOLEAN,
                         freeze : BOOLEAN, completed : BOOLEAN]
    BY <1>1 DEF AdmissionInv, AdmissionType
  <2> HIDE DEF falls
  <2> QED BY <1>1, <1>3, <2>1 DEF AdmissionInv, AdmissionType
<1>5. CASE falls
  <2>1. KeepDispatched(Books, laneOrder, limit')
    BY <1>1, <1>5
  <2>2. Entering(Books, laneOrder)
    BY FollowsItself, BooksAre DEF Entering, AdmissionInv, LanesOrdered, LanesIn
  <2>3. shutDown => Deserted(Books)
    BY DEF AdmissionInv
  <2> QED BY <1>3, <1>4, <2>1, <2>2, <2>3, KeepDispatchedFine
<1>6. CASE ~falls
  <2>1. UNCHANGED <<queue, lanes, laneOrder, active, activeCost, limit>> /\ overdue' = overdue
    BY <1>1, <1>6 DEF queueVars
  <2>2. overdue \subseteq InQueue(queue) \cup UNION {InQueue(lanes[t]) : t \in Tenant}
    BY OverdueWait DEF AdmissionInv
  <2> QED BY <1>4, <2>1, <2>2, NothingMoves
<1> QED BY <1>5, <1>6

LEMMA Ticked ==
    ASSUME AdmissionInv, NEW steep, NEW load, NEW gone, Tick(steep, load, gone)
    PROVE  Fine /\ (shutDown => Deserted(Books)') /\ AdmissionType'
<1> DEFINE b == Deleted(Books, gone)
           order == Only(laneOrder, Tenant \ gone)
<1>1. /\ ~shutDown /\ limit' = NextLimit(steep, load) /\ adaptation' = QuietWindow
      /\ KeepDispatched(b, order, limit') /\ UNCHANGED <<shutDown, virtualLanes>>
  BY DEF Tick
<1>2. limit' \in MinLimit..MaxLimit /\ limit' \in Int /\ limit' > 0
  BY <1>1, NextWithin, Limits DEF AdmissionInv
<1>3. AdmissionType'
  BY <1>1, <1>2 DEF AdmissionInv, AdmissionType, QuietWindow
<1>4. laneOrder \in Seq(Tenant) /\ NoRepeats(laneOrder)
      /\ ToSet(laneOrder) = {t \in Tenant : lanes[t].count > 0}
  BY DEF AdmissionInv, LanesOrdered
<1>5. /\ order \in Seq(Tenant) /\ ToSet(order) = ToSet(laneOrder) \ gone
      /\ NoRepeats(order)
  <2>1. /\ order \in Seq(Tenant) /\ ToSet(order) = ToSet(laneOrder) \cap (Tenant \ gone)
        /\ \A a, c : Precedes(order, a, c)
                        <=> Precedes(laneOrder, a, c) /\ a \in Tenant \ gone /\ c \in Tenant \ gone
    BY <1>4, OnlyProperties
  <2> HIDE DEF order
  <2>2. NoRepeats(order)
    BY <1>4, <2>1 DEF NoRepeats
  <2> QED BY <1>4, <2>1, <2>2
<1> HIDE DEF order
<1>6. Thinned(b)
  BY DeletedThinned
<1>7. \A t \in Tenant : b.lanes[t].count > 0 => t \in ToSet(order)
  <2>1. \A t \in Tenant : t \in gone => b.lanes[t].count = 0
    BY BooksAre DEF Deleted, EmptyQueue
  <2> HIDE DEF b
  <2> QED BY <1>4, <1>5, <1>6, <2>1 DEF Thinned
<1> HIDE DEF b
<1>8. Entering(b, order)
  BY <1>5, <1>6, <1>7, ThinnedEnters
<1> QED BY <1>1, <1>2, <1>3, <1>8, KeepDispatchedFine

LEMMA Evicted ==
    ASSUME AdmissionInv, NEW gone, EvictIdleLanes(gone)
    PROVE  Fine /\ (shutDown => Deserted(Books)') /\ limit' = limit /\ adaptation' = adaptation
           /\ shutDown' = shutDown /\ virtualLanes' = virtualLanes
<1> DEFINE b == Deleted(Books, gone)
<1>1. Keep(b, laneOrder) /\ UNCHANGED <<limit, adaptation, shutDown, virtualLanes>>
  BY DEF EvictIdleLanes
<1>2. laneOrder \in Seq(Tenant) /\ NoRepeats(laneOrder)
      /\ ToSet(laneOrder) = {t \in Tenant : lanes[t].count > 0}
  BY DEF AdmissionInv, LanesOrdered
<1>3. Thinned(b)
  BY DeletedThinned
<1> HIDE DEF b
<1>4. \A t \in Tenant : b.lanes[t].count > 0 => t \in ToSet(laneOrder)
  BY <1>2, <1>3 DEF Thinned
<1>5. Entering(b, laneOrder) /\ Rested(b, limit) /\ (shutDown => Deserted(b))
      /\ Onward(b, b, limit)
  BY <1>2, <1>3, <1>4, ThinnedEnters
<1>6. Fine
  BY <1>1, <1>5, KeptFine
<1>7. shutDown => Deserted(Books)'
  BY <1>1, <1>5, DesertedKept DEF Entering
<1> QED BY <1>1, <1>6, <1>7

LEMMA ShutDown ==
    ASSUME AdmissionInv, Shutdown
    PROVE  Fine /\ Deserted(Books)' /\ limit' = limit /\ adaptation' = adaptation
           /\ shutDown' = TRUE /\ virtualLanes' = virtualLanes
<1> DEFINE M == [t \in Tenant |-> EmptyQueue]
           b == [Books EXCEPT !.queue = EmptyQueue, !.overdue = {}, !.lanes = M]
<1>1. /\ Keep(b, <<>>) /\ shutDown' = TRUE
      /\ UNCHANGED <<limit, adaptation, virtualLanes>>
  BY DEF Shutdown
<1>2. PICK S, L \in SUBSET Request : Right(Books, S, L)
  BY DEF AdmissionInv, Good
<1>3. Books \in BookType /\ active \in SUBSET Request /\ activeCost = TotalCost(active)
  BY <1>2, QueuedIs
<1>4. Holds(EmptyQueue, {}) /\ EmptyQueue \in QueueType /\ EmptyQueue.count = 0
      /\ M \in [Tenant -> QueueType] /\ \A t \in Tenant : M[t] = EmptyQueue
  BY HoldsNobody DEF Holds, EmptyQueue
<1> HIDE DEF M
<1>5. b \in BookType /\ b.queue = EmptyQueue /\ b.lanes = M /\ b.active = active
      /\ b.cost = activeCost /\ b.overdue = {}
  BY <1>3, <1>4, BooksAre DEF BookType
<1> HIDE DEF b
<1>6. Good(b)
  <2>1. Apart(b.active, {}, {}) /\ \A t \in Tenant : Of({}, t) = {}
    BY DEF Apart, Of
  <2>2. Right(b, {}, {})
    BY <1>3, <1>4, <1>5, <2>1 DEF Right
  <2>3. {} \in SUBSET Request
    OBVIOUS
  <2> QED BY <2>2, <2>3 DEF Good
<1>7. Deserted(b)
  BY <1>4, <1>5 DEF Deserted
<1>8. Follows(queue, b.queue)
  <2>1. Entries(EmptyQueue) = {}
    BY NoEntries
  <2> QED BY <1>5, <2>1 DEF Follows, InQueue
<1>9. <<>> \in Seq(Tenant) /\ NoRepeats(<<>>)
  BY NothingQueued, Zenon DEF NoRepeats
<1>10. LanesIn(b, <<>>)
  BY <1>4, <1>5 DEF LanesIn
<1>11. Entering(b, <<>>)
  BY <1>5, <1>6, <1>8, <1>9, <1>10 DEF Entering
<1>12. Onward(b, b, limit') /\ Rested(b, limit')
  BY <1>6, <1>7, OnwardStays, DesertedRests
<1>13. Fine
  BY <1>1, <1>11, <1>12, KeptFine
<1>14. Deserted(Books)'
  BY <1>1, <1>6, <1>7, DesertedKept
<1> QED BY <1>1, <1>13, <1>14

-----------------------------------------------------------------------------
(* The theorems.                                                           *)

LEMMA InitAdmission == Init => AdmissionInv
<1> SUFFICES ASSUME Init PROVE AdmissionInv
  OBVIOUS
<1>1. /\ queue = EmptyQueue /\ lanes = [t \in Tenant |-> EmptyQueue] /\ laneOrder = <<>>
      /\ active = {} /\ activeCost = 0 /\ overdue = {}
  BY DEF Init
<1>2. Holds(EmptyQueue, {}) /\ EmptyQueue \in QueueType /\ EmptyQueue.count = 0
  BY HoldsNobody DEF Holds, EmptyQueue
<1>3. \A t \in Tenant : lanes[t] = EmptyQueue
  BY <1>1
<1>4. Books \in BookType
  <2>1. lanes \in [Tenant -> QueueType]
    BY <1>1, <1>2
  <2> QED BY <1>1, <1>2, <2>1 DEF Books, BookType
<1>5. Good(Books)
  <2>1. Apart(Books.active, {}, {}) /\ \A t \in Tenant : Of({}, t) = {}
    BY DEF Apart, Of
  <2>2. Right(Books, {}, {})
    BY <1>1, <1>2, <1>3, <1>4, <2>1, WeighsNothing, BooksAre DEF Right
  <2>3. {} \in SUBSET Request
    OBVIOUS
  <2> QED BY <2>2, <2>3 DEF Good
<1>6. Deserted(Books)
  BY <1>1, <1>2, <1>3, BooksAre DEF Deserted
<1>7. Rested(Books, limit)
  BY <1>6, DesertedRests
<1>8. LanesOrdered
  <2>1. <<>> \in Seq(Tenant) /\ ToSet(<<>>) = {} /\ NoRepeats(<<>>)
    BY NothingQueued, Zenon DEF NoRepeats
  <2>2. {t \in Tenant : lanes[t].count > 0} = {}
    BY <1>2, <1>3
  <2> QED BY <1>1, <2>1, <2>2 DEF LanesOrdered
<1>9. AdmissionType
  <2>1. limit \in MinLimit..MaxLimit
    BY Limits DEF Init
  <2>2. adaptation \in [pressure : {"normal", "high", "critical"}, consumed : BOOLEAN,
                        freeze : BOOLEAN, completed : BOOLEAN]
    BY DEF Init, QuietWindow
  <2>3. shutDown = FALSE /\ virtualLanes \in LaneModes
    BY DEF Init
  <2> QED BY <2>1, <2>2, <2>3 DEF AdmissionType
<1> QED BY <1>5, <1>6, <1>7, <1>8, <1>9 DEF AdmissionInv

LEMMA NextAdmission ==
    ASSUME AdmissionInv, [Next]_admissionVars
    PROVE  AdmissionInv' /\ Within /\ InTurn
<1>1. SUFFICES Fine /\ (shutDown' => Deserted(Books)') /\ AdmissionType'
  BY <1>1 DEF Fine, AdmissionInv
<1>2. AdmissionType /\ (shutDown => Deserted(Books))
  BY DEF AdmissionInv
<1>3. ASSUME NEW r \in Request, Acquire(r)
      PROVE  Fine /\ (shutDown' => Deserted(Books)') /\ AdmissionType'
  <2>1. CASE AcquireNow(r)
    BY <1>2, <2>1, AcquiredNow DEF AdmissionType
  <2>2. CASE AcquireRejected(r)
    BY <1>2, <2>2, RejectedOrOverdue DEF AdmissionType
  <2>3. CASE AcquireQueued(r)
    BY <1>2, <2>3, AcquiredQueued DEF AdmissionType
  <2>4. CASE AcquireInLane(r)
    BY <1>2, <2>4, AcquiredInLane DEF AdmissionType
  <2> QED BY <1>3, <2>1, <2>2, <2>3, <2>4 DEF Acquire
<1>4. ASSUME NEW r \in Request, Overdue(r)
      PROVE  Fine /\ (shutDown' => Deserted(Books)') /\ AdmissionType'
  BY <1>2, <1>4, RejectedOrOverdue DEF AdmissionType
<1>5. ASSUME NEW r \in Request, ExpireEntry(r)
      PROVE  Fine /\ (shutDown' => Deserted(Books)') /\ AdmissionType'
  BY <1>2, <1>5, Expired DEF AdmissionType
<1>6. ASSUME NEW r \in Request, Ends(r)
      PROVE  Fine /\ (shutDown' => Deserted(Books)') /\ AdmissionType'
  <2>1. PICK failed \in BOOLEAN : ReleaseLease(r, failed)
    BY <1>6 DEF Ends
  <2>2. /\ Fine /\ (shutDown => Deserted(Books)') /\ limit' = limit
        /\ adaptation' = [adaptation EXCEPT !.completed = TRUE, !.freeze = @ \/ failed]
        /\ shutDown' = shutDown /\ virtualLanes' = virtualLanes
    BY <2>1, Released
  <2>3. adaptation' \in [pressure : {"normal", "high", "critical"}, consumed : BOOLEAN,
                         freeze : BOOLEAN, completed : BOOLEAN]
    BY <1>2, <2>2 DEF AdmissionType
  <2> QED BY <1>2, <2>2, <2>3 DEF AdmissionType
<1>7. ASSUME NEW p \in {"high", "critical"}, ObservePressure(p)
      PROVE  Fine /\ (shutDown' => Deserted(Books)') /\ AdmissionType'
  BY <1>7, Observed DEF ObservePressure
<1>8. ASSUME Ticks
      PROVE  Fine /\ (shutDown' => Deserted(Books)') /\ AdmissionType'
  BY <1>8, Ticked DEF Ticks, Tick
<1>9. ASSUME NEW gone \in SUBSET Range(laneOrder), EvictIdleLanes(gone)
      PROVE  Fine /\ (shutDown' => Deserted(Books)') /\ AdmissionType'
  BY <1>2, <1>9, Evicted DEF AdmissionType
<1>10. ASSUME Shutdown
       PROVE  Fine /\ (shutDown' => Deserted(Books)') /\ AdmissionType'
  BY <1>2, <1>10, ShutDown DEF AdmissionType
<1>11. ASSUME UNCHANGED admissionVars
       PROVE  Fine /\ (shutDown' => Deserted(Books)') /\ AdmissionType'
  <2>1. /\ UNCHANGED <<queue, lanes, laneOrder, active, activeCost, limit>> /\ overdue' = overdue
        /\ UNCHANGED <<adaptation, shutDown, virtualLanes>>
    BY <1>11 DEF admissionVars, queueVars
  <2>2. overdue \subseteq InQueue(queue) \cup UNION {InQueue(lanes[t]) : t \in Tenant}
    BY OverdueWait DEF AdmissionInv
  <2>3. Fine /\ (shutDown => Deserted(Books)')
    BY <2>1, <2>2, NothingMoves
  <2> QED BY <1>2, <2>1, <2>3 DEF AdmissionType
<1> QED BY <1>3, <1>4, <1>5, <1>6, <1>7, <1>8, <1>9, <1>10, <1>11 DEF Next

LEMMA InvBooksAgree == AdmissionInv => BooksAgree
<1> SUFFICES ASSUME AdmissionInv PROVE BooksAgree
  OBVIOUS
<1>1. PICK S, L \in SUBSET Request : Right(Books, S, L)
  BY DEF AdmissionInv, Good
<1>2. /\ \A r \in Request : Queued(r) <=> r \in S \cup L
      /\ Holds(queue, S) /\ InQueue(queue) = S
      /\ \A t \in Tenant : Holds(lanes[t], Of(L, t)) /\ InQueue(lanes[t]) = Of(L, t)
      /\ active \in SUBSET Request /\ activeCost = TotalCost(active)
      /\ overdue \subseteq S \cup L /\ Apart(active, S, L)
  BY <1>1, QueuedIs
<1>3. Tidy(queue) /\ \A t \in Tenant : Tidy(lanes[t])
  <2>1. \A t \in Tenant : Of(L, t) \in SUBSET Request
    BY DEF Of
  <2> QED BY <1>2, <2>1, HoldsFacts
<1>4. laneOrder \in Seq(Tenant) /\ IsInjective(laneOrder)
      /\ Range(laneOrder) = {t \in Tenant : lanes[t].count > 0}
  BY InjectiveQueue DEF AdmissionInv, LanesOrdered
<1>5. activeCost \in Nat
  BY <1>2, Weighed
<1>6. ASSUME NEW q \in {queue} \cup {lanes[t] : t \in Tenant}
      PROVE  q.order \in Seq(Tenant) /\ q.cursor \in Nat
             /\ \A t \in Tenant : q.bucket[t] \in Seq(EntryType)
  <2>1. q \in QueueType
    BY <1>2, <1>6 DEF Holds
  <2> QED BY <2>1 DEF QueueType
<1>7. TypeOK
  BY <1>2, <1>4, <1>5, <1>6 DEF TypeOK, AdmissionInv, AdmissionType
<1>8. ASSUME NEW r \in Request
      PROVE  /\ ~(r \in active /\ Queued(r))
             /\ ~(r \in InQueue(queue) /\ r \in InQueue(lanes[TenantOf[r]]))
             /\ r \in overdue => Queued(r)
  <2>1. InQueue(lanes[TenantOf[r]]) \subseteq L
    BY <1>2, Weights DEF Of
  <2> QED BY <1>2, <2>1 DEF Apart
<1> QED BY <1>2, <1>3, <1>4, <1>7, <1>8 DEF BooksAgree

\* In every behaviour of dispatch, acquire, releaseLease, expireEntry, tick, observePressure,
\* deleteLane and shutdown the invariant holds that the other theorems rest on.
THEOREM AdaptiveInvariant == Spec => []AdmissionInv
<1>1. AdmissionInv /\ [Next]_admissionVars => AdmissionInv'
  BY NextAdmission
<1> QED BY InitAdmission, <1>1, PTL DEF Spec

\* The books always agree: the counters of the active weight and of each queue are the sums over
\* the requests there, which the controller never computes but adds to and takes from, the
\* rotations name each tenant with a bucket once with the cursor inside, the lanes are those
\* that have entries, and a request is active, in the queue or in its lane, in one of them.
THEOREM BooksAlwaysAgree == Spec => []BooksAgree
BY AdaptiveInvariant, InvBooksAgree, PTL

\* Whatever has changed the free capacity or the queues, no operation ends before dispatch has
\* taken all that fits: no wakeup is lost.
THEOREM NeverAFittingHead == Spec => []NoFittingHead
<1>1. AdmissionInv => NoFittingHead
  BY RestedIsNoFittingHead DEF AdmissionInv
<1> QED BY AdaptiveInvariant, <1>1, PTL

\* admit never takes the active weight over the limit, but for the one request over it that
\* shouldAdmitSolo lets run alone.
THEOREM StaysWithinLimit == Spec => AdmitsWithinLimit
<1>1. AdmissionInv /\ [Next]_admissionVars => [Within]_admissionVars
  BY NextAdmission
<1>2. Spec => [][Within]_admissionVars
  BY AdaptiveInvariant, <1>1, PTL DEF Spec
<1> QED BY <1>2 DEF AdmitsWithinLimit, Within

\* While a head that was passed over MaxSkips times waits, whatever operation runs, dequeue lets
\* nobody go ahead of it who came later.
THEOREM ReservedGoesFirst == Spec => ReservedFirst
<1>1. AdmissionInv /\ [Next]_admissionVars => [InTurn]_admissionVars
  BY NextAdmission
<1>2. Spec => [][InTurn]_admissionVars
  BY AdaptiveInvariant, <1>1, PTL DEF Spec
<1> QED BY <1>2 DEF ReservedFirst, InTurn
=============================================================================
