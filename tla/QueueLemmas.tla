---------------------------- MODULE QueueLemmas ----------------------------
(***************************************************************************)
(* Lemmas about queues: what Only leaves, and how many are left.  The      *)
(* induction theorems of the library take an operator as a parameter; the  *)
(* same principle is used here for sets of numbers (Induction), and        *)
(* follows from the order of the numbers being well founded.               *)
(***************************************************************************)
EXTENDS Queues, SequencesExt, SequenceTheorems, FunctionTheorems, FiniteSetTheorems,
        WellFoundedInduction, TLAPS

Below == {p \in Nat \X Nat : p[1] < p[2]}

LEMMA BelowWellFounded == IsWellFoundedOn(Below, Nat)
BY NatLessThanWellFounded DEF OpToRel, Below

\* A set of numbers with a first one, that has with each its successor, is all
\* of them up to N.
LEMMA Induction ==
    ASSUME NEW N \in Nat, NEW S, 0 \in S, \A n \in 0..N - 1 : n \in S => n + 1 \in S
    PROVE  0..N \subseteq S
<1> DEFINE T == (0..N) \ S
<1>1. SUFFICES ASSUME T # {} PROVE FALSE
  OBVIOUS
<1>2. T \subseteq Nat
  OBVIOUS
<1>3. PICK x \in T : \A y \in T : <<y, x>> \notin Below
  BY <1>1, <1>2, BelowWellFounded, WFMin
<1>4. x \in 1..N /\ x - 1 \in 0..N - 1 /\ (x - 1) + 1 = x
  OBVIOUS
<1>5. x - 1 \notin S
  BY <1>4
<1>6. x - 1 \in T
  BY <1>4, <1>5
<1>7. <<x - 1, x>> \in Below
  BY <1>4 DEF Below
<1> QED BY <1>3, <1>6, <1>7

\* f starts at c and goes from each value to the next as D says.
Iterates(f, N, c, D) == f[0] = c /\ \A n \in 1..N : f[n] = D[<<f[n - 1], n>>]

\* A function can be defined by its first value and a step from each to the next.
LEMMA Recursion ==
    ASSUME NEW N \in Nat, NEW V, NEW c \in V, NEW D \in [V \X (1..N) -> V]
    PROVE  \E f \in [0..N -> V] : Iterates(f, N, c, D)
<1> DEFINE IsUpTo(m, f) == Iterates(f, m, c, D)
           S == {m \in 0..N : \E f \in [0..m -> V] : IsUpTo(m, f)}
<1> USE DEF Iterates
<1>1. 0 \in S
  <2> DEFINE f == [n \in 0..0 |-> c]
  <2>1. f \in [0..0 -> V] /\ IsUpTo(0, f)
    OBVIOUS
  <2> HIDE DEF f
  <2> QED BY <2>1
<1>2. ASSUME NEW m \in 0..N - 1, m \in S PROVE m + 1 \in S
  <2>1. PICK f \in [0..m -> V] : IsUpTo(m, f)
    BY <1>2
  <2> DEFINE h == [n \in 0..m + 1 |-> IF n = m + 1 THEN D[<<f[m], m + 1>>] ELSE f[n]]
  <2>2. D[<<f[m], m + 1>>] \in V
    BY <2>1
  <2>3. h \in [0..m + 1 -> V]
    BY <2>1, <2>2
  <2>4. h[0] = c
    BY <2>1
  <2>5. ASSUME NEW n \in 1..m + 1 PROVE h[n] = D[<<h[n - 1], n>>]
    <3>1. CASE n = m + 1
      <4>1. h[n] = D[<<f[m], m + 1>>] /\ h[n - 1] = f[m]
        BY <3>1
      <4> QED BY <3>1, <4>1
    <3>2. CASE n \in 1..m
      <4>1. h[n] = f[n] /\ h[n - 1] = f[n - 1]
        BY <3>2
      <4> QED BY <2>1, <3>2, <4>1
    <3> QED BY <3>1, <3>2
  <2> HIDE DEF h
  <2>6. IsUpTo(m + 1, h)
    BY <2>4, <2>5
  <2> QED BY <2>3, <2>6
<1> HIDE DEF S
<1>3. 0..N \subseteq S
  BY <1>1, <1>2, Induction
<1>4. N \in S
  BY <1>3
<1> HIDE DEF IsUpTo, Iterates
<1>5. \E f \in [0..N -> V] : IsUpTo(N, f)
  BY <1>4 DEF S
<1> QED BY <1>5 DEF IsUpTo

\* What holds of the empty sequence, and of a sequence with one more element if
\* of the sequence, holds of all sequences.
LEMMA SeqInduction ==
    ASSUME NEW T, NEW P, <<>> \in P,
           \A q \in Seq(T), x \in T : q \in P => Append(q, x) \in P
    PROVE  \A q \in Seq(T) : q \in P
<1> SUFFICES ASSUME NEW q \in Seq(T) PROVE q \in P
  OBVIOUS
<1> DEFINE S == {n \in 0..Len(q) : SubSeq(q, 1, n) \in P}
<1>1. Len(q) \in Nat /\ \A i \in 1..Len(q) : q[i] \in T
  BY LenProperties, ElementOfSeq
<1>2. 0 \in S
  <2>1. SubSeq(q, 1, 0) = <<>>
    BY SubSeqEmpty
  <2>2. SubSeq(q, 1, 0) \in P
    BY <2>1, Zenon
  <2>3. 0 \in 0..Len(q)
    BY <1>1
  <2> QED BY <2>2, <2>3, Zenon
<1>3. ASSUME NEW n \in 0..Len(q) - 1, n \in S PROVE n + 1 \in S
  <2>1. /\ SubSeq(q, 1, n) \in Seq(T)
        /\ SubSeq(q, 1, n + 1) = SubSeq(q, 1, (n + 1) - 1) \o <<q[n + 1]>>
    <3>1. SubSeq(q, 1, n) \in Seq(T)
      BY <1>1, SubSeqProperties
    <3>2. SubSeq(q, 1, n + 1) = SubSeq(q, 1, (n + 1) - 1) \o <<q[n + 1]>>
      BY <1>1, SubSeqRecursiveSecond
    <3> QED BY <3>1, <3>2
  <2>2. (n + 1) - 1 = n /\ q[n + 1] \in T /\ n + 1 \in 0..Len(q)
    BY <1>1
  <2>3. SubSeq(q, 1, n + 1) = Append(SubSeq(q, 1, n), q[n + 1])
    BY <2>1, <2>2, AppendIsConcat
  <2>4. SubSeq(q, 1, n) \in P
    BY <1>3
  <2> QED BY <2>1, <2>2, <2>3, <2>4
<1> HIDE DEF S
<1>4. 0..Len(q) \subseteq S
  BY <1>1, <1>2, <1>3, Induction
<1>5. SubSeq(q, 1, Len(q)) \in P
  BY <1>1, <1>4 DEF S
<1> QED BY <1>5, SubSeqFull

-----------------------------------------------------------------------------
(* What Only leaves.                                                       *)

\* One step of the recursion of Only.
With(s, x, S) == IF x \in S THEN Append(s, x) ELSE s

Leaves(f, q, S) == f[0] = <<>> /\ \A n \in 1..Len(q) : f[n] = With(f[n - 1], q[n], S)

LEMMA OnlySteps ==
    ASSUME NEW T, NEW q \in Seq(T), NEW S
    PROVE  \E f : Leaves(f, q, S) /\ Only(q, S) = f[Len(q)]
<1> DEFINE P(f) == f = [n \in 0..Len(q) |->
                         IF n = 0 THEN <<>>
                         ELSE IF q[n] \in S THEN Append(f[n - 1], q[n]) ELSE f[n - 1]]
           V == Seq(T)
           c == <<>>
           D == [p \in V \X (1..Len(q)) |-> With(p[1], q[p[2]], S)]
<1>1. Len(q) \in Nat /\ \A i \in 1..Len(q) : q[i] \in T
  BY LenProperties, ElementOfSeq
<1>2. D \in [V \X (1..Len(q)) -> V]
  BY <1>1, AppendProperties DEF With
<1>3. c \in V
  BY EmptySeq
<1>4. \A v \in V, n \in 1..Len(q) : D[<<v, n>>] = With(v, q[n], S)
  OBVIOUS
<1>5. PICK f \in [0..Len(q) -> V] :
         f[0] = c /\ \A n \in 1..Len(q) : f[n] = D[<<f[n - 1], n>>]
  <2> HIDE DEF P, D, V, c
  <2>1. \E f \in [0..Len(q) -> V] : Iterates(f, Len(q), c, D)
    BY <1>1, <1>2, <1>3, Recursion
  <2> QED BY <2>1 DEF Iterates
<1>6. P(f)
  <2>1. ASSUME NEW n \in 1..Len(q) PROVE f[n] = With(f[n - 1], q[n], S)
    <3>1. n - 1 \in 0..Len(q)
      BY <1>1
    <3>2. f[n - 1] \in V
      BY <1>5, <3>1
    <3> QED BY <1>4, <1>5, <3>2
  <2>2. ASSUME NEW n \in 0..Len(q)
        PROVE  f[n] = IF n = 0 THEN <<>>
                      ELSE IF q[n] \in S THEN Append(f[n - 1], q[n]) ELSE f[n - 1]
    <3>1. n = 0 \/ n \in 1..Len(q)
      BY <1>1
    <3> QED BY <1>5, <2>1, <3>1 DEF With
  <2>3. f = [n \in 0..Len(q) |-> f[n]]
    BY <1>5
  <2> HIDE DEF D, V
  <2> QED BY <2>2, <2>3, Zenon
<1> DEFINE g == CHOOSE f_1 : P(f_1)
<1>7. P(g)
  BY <1>6
<1>8. Only(q, S) = g[Len(q)]
  BY DEF Only
<1> HIDE DEF g
<1>9. Leaves(g, q, S)
  <2>1. 0 \in 0..Len(q) /\ \A n \in 1..Len(q) : n \in 0..Len(q) /\ n # 0
    BY <1>1
  <2>2. g[0] = <<>>
    BY <1>7, <2>1
  <2>3. ASSUME NEW n \in 1..Len(q) PROVE g[n] = With(g[n - 1], q[n], S)
    BY <1>7, <2>1 DEF With
  <2> QED BY <2>2, <2>3 DEF Leaves
<1> QED BY <1>8, <1>9

LEMMA OnlyEmpty == \A S : Only(<<>>, S) = <<>>
<1> SUFFICES ASSUME NEW S PROVE Only(<<>>, S) = <<>>
  OBVIOUS
<1>1. <<>> \in Seq({}) /\ Len(<<>>) = 0
  BY EmptySeq
<1> QED BY <1>1, OnlySteps DEF Leaves

LEMMA OnlyAppend ==
    ASSUME NEW T, NEW q \in Seq(T), NEW x \in T, NEW S
    PROVE  Only(Append(q, x), S) = IF x \in S THEN Append(Only(q, S), x) ELSE Only(q, S)
<1> DEFINE more == Append(q, x)
<1>1. /\ more \in Seq(T) /\ Len(q) \in Nat /\ Len(more) = Len(q) + 1
      /\ \A i \in 1..Len(q) : more[i] = q[i]
      /\ more[Len(q) + 1] = x
  BY AppendProperties, LenProperties
<1>2. PICK f : Leaves(f, q, S) /\ Only(q, S) = f[Len(q)]
  BY OnlySteps
<1>3. PICK h : Leaves(h, more, S) /\ Only(more, S) = h[Len(more)]
  BY <1>1, OnlySteps
<1> DEFINE Same == {n \in 0..Len(q) : f[n] = h[n]}
<1>4. 0 \in Same
  BY <1>1, <1>2, <1>3 DEF Leaves
<1>5. ASSUME NEW n \in 0..Len(q) - 1, n \in Same PROVE n + 1 \in Same
  <2>1. n + 1 \in 1..Len(q) /\ n + 1 \in 1..Len(more) /\ (n + 1) - 1 = n
    BY <1>1
  <2>2. f[n + 1] = With(f[n], q[n + 1], S)
    BY <1>2, <2>1 DEF Leaves
  <2>3. h[n + 1] = With(h[n], more[n + 1], S)
    BY <1>3, <2>1 DEF Leaves
  <2>4. more[n + 1] = q[n + 1]
    BY <1>1, <2>1
  <2> QED BY <1>5, <2>1, <2>2, <2>3, <2>4
<1> HIDE DEF Same, more
<1>6. f[Len(q)] = h[Len(q)]
  <2>1. 0..Len(q) \subseteq Same
    BY <1>1, <1>4, <1>5, Induction
  <2> QED BY <1>1, <2>1 DEF Same
<1>7. h[Len(more)] = With(h[Len(q)], x, S)
  <2>1. Len(more) \in 1..Len(more) /\ Len(more) - 1 = Len(q)
    BY <1>1
  <2>2. h[Len(more)] = With(h[Len(more) - 1], more[Len(more)], S)
    BY <1>3, <2>1 DEF Leaves
  <2> QED BY <1>1, <2>1, <2>2
<1> QED BY <1>2, <1>3, <1>6, <1>7 DEF With, more

-----------------------------------------------------------------------------
(* Who is in a queue, and in which order.                                  *)

NoRepeats(q) == \A a : ~Precedes(q, a, a)

LEMMA NothingQueued ==
    /\ \A T : <<>> \in Seq(T)
    /\ Len(<<>>) = 0 /\ ToSet(<<>>) = {}
    /\ \A a, b : ~Precedes(<<>>, a, b)
<1>1. \A T : <<>> \in Seq(T)
  BY EmptySeq
<1>2. Len(<<>>) = 0 /\ DOMAIN <<>> = {}
  BY EmptySeq
<1> QED BY <1>1, <1>2 DEF ToSet, Precedes

LEMMA AppendQueue ==
    ASSUME NEW T, NEW q \in Seq(T), NEW x \in T
    PROVE  /\ Append(q, x) \in Seq(T) /\ Len(Append(q, x)) = Len(q) + 1
           /\ ToSet(Append(q, x)) = ToSet(q) \cup {x}
           /\ \A a, b : Precedes(Append(q, x), a, b)
                           <=> Precedes(q, a, b) \/ (a \in ToSet(q) /\ b = x)
<1> DEFINE more == Append(q, x)
           N == Len(q)
<1>1. /\ more \in Seq(T) /\ N \in Nat /\ Len(more) = N + 1
      /\ DOMAIN q = 1..N /\ DOMAIN more = 1..N + 1
      /\ \A i \in 1..N : more[i] = q[i]
      /\ more[N + 1] = x
  BY AppendProperties, LenProperties
<1> HIDE DEF more, N
<1>2. ToSet(q) = {q[i] : i \in 1..N} /\ ToSet(more) = {more[i] : i \in 1..N + 1}
  BY <1>1 DEF ToSet
<1>3. ToSet(more) = ToSet(q) \cup {x}
  <2>1. \A i \in 1..N + 1 : i \in 1..N \/ i = N + 1
    BY <1>1
  <2>2. N + 1 \in 1..N + 1 /\ 1..N \subseteq 1..N + 1
    BY <1>1
  <2> QED BY <1>1, <1>2, <2>1, <2>2
<1>4. ASSUME NEW a, NEW b PROVE Precedes(more, a, b) <=> Precedes(q, a, b) \/ (a \in ToSet(q) /\ b = x)
  <2>1. ASSUME Precedes(more, a, b) PROVE Precedes(q, a, b) \/ (a \in ToSet(q) /\ b = x)
    <3>1. PICK i \in 1..N + 1, j \in 1..N + 1 : i < j /\ more[i] = a /\ more[j] = b
      BY <1>1, <2>1 DEF Precedes
    <3>2. i \in 1..N /\ q[i] = a /\ (j \in 1..N \/ j = N + 1)
      BY <1>1, <3>1
    <3>3. CASE j \in 1..N
      <4>1. q[j] = b
        BY <1>1, <3>1, <3>3
      <4> QED BY <1>1, <3>1, <3>2, <3>3, <4>1 DEF Precedes
    <3>4. CASE j = N + 1
      BY <1>1, <1>2, <3>1, <3>2, <3>4
    <3> QED BY <3>2, <3>3, <3>4
  <2>2. ASSUME Precedes(q, a, b) PROVE Precedes(more, a, b)
    <3>1. PICK i \in 1..N, j \in 1..N : i < j /\ q[i] = a /\ q[j] = b
      BY <1>1, <2>2 DEF Precedes
    <3>2. i \in 1..N + 1 /\ j \in 1..N + 1 /\ more[i] = a /\ more[j] = b
      BY <1>1, <3>1
    <3> QED BY <1>1, <3>1, <3>2 DEF Precedes
  <2>3. ASSUME a \in ToSet(q), b = x PROVE Precedes(more, a, b)
    <3>1. PICK i \in 1..N : q[i] = a
      BY <1>2, <2>3
    <3>2. i \in 1..N + 1 /\ N + 1 \in 1..N + 1 /\ i < N + 1 /\ more[i] = a
      BY <1>1, <3>1
    <3> QED BY <1>1, <2>3, <3>2 DEF Precedes
  <2> QED BY <2>1, <2>2, <2>3
<1> QED BY <1>1, <1>3, <1>4 DEF more, N

\* Only the members of S are left, all of them, and in their order.
LEMMA OnlyProperties ==
    ASSUME NEW T, NEW q \in Seq(T), NEW S
    PROVE  /\ Only(q, S) \in Seq(T)
           /\ ToSet(Only(q, S)) = ToSet(q) \cap S
           /\ \A a, b : Precedes(Only(q, S), a, b) <=> Precedes(q, a, b) /\ a \in S /\ b \in S
<1> DEFINE Right(s) ==
               /\ Only(s, S) \in Seq(T)
               /\ ToSet(Only(s, S)) = ToSet(s) \cap S
               /\ \A a, b : Precedes(Only(s, S), a, b) <=> Precedes(s, a, b) /\ a \in S /\ b \in S
           P == {s \in Seq(T) : Right(s)}
<1>1. <<>> \in P
  BY NothingQueued, OnlyEmpty
<1>2. ASSUME NEW s \in Seq(T), NEW x \in T, s \in P PROVE Append(s, x) \in P
  <2>1. Right(s)
    BY <1>2
  <2>2. /\ Append(s, x) \in Seq(T)
        /\ ToSet(Append(s, x)) = ToSet(s) \cup {x}
        /\ \A a, b : Precedes(Append(s, x), a, b)
                        <=> Precedes(s, a, b) \/ (a \in ToSet(s) /\ b = x)
    BY AppendQueue
  <2>3. CASE x \in S
    <3>1. Only(Append(s, x), S) = Append(Only(s, S), x)
      BY <2>3, OnlyAppend
    <3>2. /\ Append(Only(s, S), x) \in Seq(T)
          /\ ToSet(Append(Only(s, S), x)) = ToSet(Only(s, S)) \cup {x}
          /\ \A a, b : Precedes(Append(Only(s, S), x), a, b)
                          <=> Precedes(Only(s, S), a, b) \/ (a \in ToSet(Only(s, S)) /\ b = x)
      BY <2>1, AppendQueue
    <3> DEFINE more == Append(s, x)
               left == Append(Only(s, S), x)
    <3> HIDE DEF more, left
    <3>3. left \in Seq(T) /\ ToSet(left) = ToSet(more) \cap S
      BY <2>1, <2>2, <2>3, <3>2 DEF more, left
    <3>4. ASSUME NEW a, NEW b PROVE Precedes(left, a, b) <=> Precedes(more, a, b) /\ a \in S /\ b \in S
      <4>1. Precedes(left, a, b) <=> Precedes(Only(s, S), a, b) \/ (a \in ToSet(Only(s, S)) /\ b = x)
        BY <3>2 DEF left
      <4>2. Precedes(more, a, b) <=> Precedes(s, a, b) \/ (a \in ToSet(s) /\ b = x)
        BY <2>2 DEF more
      <4> QED BY <2>1, <2>3, <4>1, <4>2
    <3>5. Only(more, S) = left /\ more \in Seq(T)
      BY <2>2, <3>1 DEF more, left
    <3>6. Right(more)
      BY <3>3, <3>4, <3>5
    <3> QED BY <3>5, <3>6 DEF more
  <2>4. CASE x \notin S
    <3>1. Only(Append(s, x), S) = Only(s, S)
      BY <2>4, OnlyAppend
    <3> QED BY <2>1, <2>2, <2>4, <3>1
  <2> QED BY <2>3, <2>4
<1> HIDE DEF P
<1>3. q \in P
  BY <1>1, <1>2, SeqInduction
<1> QED BY <1>3 DEF P

\* A queue where nobody stands twice is as long as it has members.
LEMMA LenIsCardinality ==
    ASSUME NEW T, NEW q \in Seq(T)
    PROVE  /\ IsFiniteSet(ToSet(q))
           /\ Cardinality(ToSet(q)) <= Len(q)
           /\ Cardinality(ToSet(q)) = Len(q) <=> NoRepeats(q)
<1> DEFINE Right(s) ==
               /\ IsFiniteSet(ToSet(s))
               /\ Cardinality(ToSet(s)) <= Len(s)
               /\ Cardinality(ToSet(s)) = Len(s) <=> NoRepeats(s)
           P == {s \in Seq(T) : Right(s)}
<1>1. <<>> \in P
  <2>1. NoRepeats(<<>>) /\ <<>> \in Seq(T) /\ Len(<<>>) = 0 /\ ToSet(<<>>) = {}
    BY NothingQueued DEF NoRepeats
  <2>2. IsFiniteSet({}) /\ Cardinality({}) = 0
    BY FS_EmptySet
  <2>3. Right(<<>>)
    <3>1. Cardinality(ToSet(<<>>)) = Len(<<>>)
      BY <2>1, <2>2, Zenon
    <3>2. Cardinality(ToSet(<<>>)) <= Len(<<>>)
      BY <2>1, <3>1
    <3>3. IsFiniteSet(ToSet(<<>>))
      BY <2>1, <2>2, Zenon
    <3> QED BY <2>1, <3>1, <3>2, <3>3, Zenon
  <2> QED BY <2>1, <2>3
<1>2. ASSUME NEW s \in Seq(T), NEW x \in T, s \in P PROVE Append(s, x) \in P
  <2>1. Right(s) /\ Len(s) \in Nat
    BY <1>2, LenProperties
  <2>2. /\ Append(s, x) \in Seq(T) /\ Len(Append(s, x)) = Len(s) + 1
        /\ ToSet(Append(s, x)) = ToSet(s) \cup {x}
        /\ \A a, b : Precedes(Append(s, x), a, b)
                        <=> Precedes(s, a, b) \/ (a \in ToSet(s) /\ b = x)
    BY AppendQueue
  <2>3. NoRepeats(Append(s, x)) <=> NoRepeats(s) /\ x \notin ToSet(s)
    BY <2>2 DEF NoRepeats
  <2>4. /\ IsFiniteSet(ToSet(s) \cup {x})
        /\ Cardinality(ToSet(s) \cup {x}) =
              IF x \in ToSet(s) THEN Cardinality(ToSet(s)) ELSE Cardinality(ToSet(s)) + 1
        /\ Cardinality(ToSet(s)) \in Nat
    BY <2>1, FS_AddElement, FS_CardinalityType
  <2>5. Right(Append(s, x))
    <3> DEFINE more == Append(s, x)
    <3> HIDE DEF more
    <3>1. IsFiniteSet(ToSet(more)) /\ Cardinality(ToSet(more)) <= Len(more)
      BY <2>1, <2>2, <2>4 DEF more
    <3>2. Cardinality(ToSet(more)) = Len(more) <=> NoRepeats(more)
      BY <2>1, <2>2, <2>3, <2>4 DEF more
    <3> QED BY <3>1, <3>2 DEF more
  <2> QED BY <2>2, <2>5
<1> HIDE DEF P
<1>3. q \in P
  BY <1>1, <1>2, SeqInduction
<1> QED BY <1>3 DEF P

\* The first of a queue precedes everybody else in it.
LEMMA HeadPrecedes ==
    ASSUME NEW T, NEW q \in Seq(T)
    PROVE  /\ ToSet(q) \subseteq T
           /\ q = <<>> <=> ToSet(q) = {}
           /\ q # <<>> => /\ Head(q) \in ToSet(q)
                          /\ \A b \in ToSet(q) : b # Head(q) => Precedes(q, Head(q), b)
           /\ \A a, b : Precedes(q, a, b) => a \in ToSet(q) /\ b \in ToSet(q)
<1>1. /\ Len(q) \in Nat /\ DOMAIN q = 1..Len(q) /\ \A i \in 1..Len(q) : q[i] \in T
      /\ q = <<>> <=> Len(q) = 0
  BY LenProperties, ElementOfSeq, EmptySeq
<1>2. ToSet(q) = {q[i] : i \in 1..Len(q)}
  BY <1>1 DEF ToSet
<1>3. q # <<>> => 1 \in 1..Len(q) /\ Head(q) = q[1]
  BY <1>1
<1>4. \A a, b : Precedes(q, a, b) => a \in ToSet(q) /\ b \in ToSet(q)
  BY <1>1, <1>2 DEF Precedes
<1>5. ASSUME q # <<>>, NEW b \in ToSet(q), b # Head(q) PROVE Precedes(q, Head(q), b)
  <2>1. PICK j \in 1..Len(q) : q[j] = b
    BY <1>2
  <2>2. 1 < j
    BY <1>3, <1>5, <2>1
  <2> QED BY <1>1, <1>3, <1>5, <2>1, <2>2 DEF Precedes
<1> QED BY <1>1, <1>2, <1>3, <1>4, <1>5

LEMMA OnlyOnly ==
    ASSUME NEW T, NEW q \in Seq(T), NEW S, NEW U
    PROVE  Only(Only(q, S), U) = Only(q, S \cap U)
<1> DEFINE P == {s \in Seq(T) : Only(Only(s, S), U) = Only(s, S \cap U)}
<1>1. <<>> \in P
  BY NothingQueued, OnlyEmpty
<1>2. ASSUME NEW s \in Seq(T), NEW x \in T, s \in P PROVE Append(s, x) \in P
  <2>1. Only(s, S) \in Seq(T)
    BY OnlyProperties
  <2>2. Only(Append(s, x), S) = IF x \in S THEN Append(Only(s, S), x) ELSE Only(s, S)
    BY OnlyAppend
  <2>3. Only(Append(s, x), S \cap U)
           = IF x \in S \cap U THEN Append(Only(s, S \cap U), x) ELSE Only(s, S \cap U)
    BY OnlyAppend
  <2>4. Only(Append(Only(s, S), x), U)
           = IF x \in U THEN Append(Only(Only(s, S), U), x) ELSE Only(Only(s, S), U)
    BY <2>1, OnlyAppend
  <2>5. Append(s, x) \in Seq(T)
    BY AppendQueue
  <2>6. Only(Only(Append(s, x), S), U) = Only(Append(s, x), S \cap U)
    <3>1. Only(Only(s, S), U) = Only(s, S \cap U)
      BY <1>2
    <3>2. CASE x \in S
      <4>1. Only(Append(s, x), S) = Append(Only(s, S), x)
        BY <2>2, <3>2
      <4>2. x \in S \cap U <=> x \in U
        BY <3>2
      <4> QED BY <2>3, <2>4, <3>1, <4>1, <4>2, Zenon
    <3>3. CASE x \notin S
      BY <2>2, <2>3, <3>1, <3>3
    <3> QED BY <3>2, <3>3
  <2> QED BY <2>5, <2>6
<1> HIDE DEF P
<1>3. q \in P
  BY <1>1, <1>2, SeqInduction
<1> QED BY <1>3 DEF P

\* What is left depends on the members of the queue alone.
LEMMA OnlySame ==
    ASSUME NEW T, NEW q \in Seq(T), NEW S, NEW U, \A x \in ToSet(q) : x \in S <=> x \in U
    PROVE  Only(q, S) = Only(q, U)
<1> DEFINE P == {s \in Seq(T) : (\A x \in ToSet(s) : x \in S <=> x \in U) => Only(s, S) = Only(s, U)}
<1>1. <<>> \in P
  BY NothingQueued, OnlyEmpty
<1>2. ASSUME NEW s \in Seq(T), NEW x \in T, s \in P PROVE Append(s, x) \in P
  <2>1. Append(s, x) \in Seq(T) /\ ToSet(Append(s, x)) = ToSet(s) \cup {x}
    BY AppendQueue
  <2>2. Only(Append(s, x), S) = IF x \in S THEN Append(Only(s, S), x) ELSE Only(s, S)
    BY OnlyAppend
  <2>3. Only(Append(s, x), U) = IF x \in U THEN Append(Only(s, U), x) ELSE Only(s, U)
    BY OnlyAppend
  <2>4. ASSUME \A y \in ToSet(Append(s, x)) : y \in S <=> y \in U
        PROVE  Only(Append(s, x), S) = Only(Append(s, x), U)
    <3>1. (x \in S <=> x \in U) /\ \A y \in ToSet(s) : y \in S <=> y \in U
      BY <2>1, <2>4
    <3>2. Only(s, S) = Only(s, U)
      BY <1>2, <3>1
    <3> QED BY <2>2, <2>3, <3>1, <3>2, Zenon
  <2> QED BY <2>1, <2>4
<1> HIDE DEF P
<1>3. q \in P
  BY <1>1, <1>2, SeqInduction
<1> QED BY <1>3 DEF P

LEMMA OnlyAll ==
    ASSUME NEW T, NEW q \in Seq(T), NEW S, ToSet(q) \subseteq S
    PROVE  Only(q, S) = q
<1> DEFINE P == {s \in Seq(T) : ToSet(s) \subseteq S => Only(s, S) = s}
<1>1. <<>> \in P
  BY NothingQueued, OnlyEmpty
<1>2. ASSUME NEW s \in Seq(T), NEW x \in T, s \in P PROVE Append(s, x) \in P
  <2>1. Append(s, x) \in Seq(T) /\ ToSet(Append(s, x)) = ToSet(s) \cup {x}
    BY AppendQueue
  <2>2. Only(Append(s, x), S) = IF x \in S THEN Append(Only(s, S), x) ELSE Only(s, S)
    BY OnlyAppend
  <2> QED BY <1>2, <2>1, <2>2
<1> HIDE DEF P
<1>3. q \in P
  BY <1>1, <1>2, SeqInduction
<1> QED BY <1>3 DEF P

-----------------------------------------------------------------------------
(* An entry spliced out, the first one shifted off, repetitions.           *)

LEMMA WithoutProperties ==
    ASSUME NEW T, NEW q \in Seq(T), NEW x
    PROVE  /\ Without(q, x) \in Seq(T)
           /\ ToSet(Without(q, x)) = ToSet(q) \ {x}
           /\ \A a, b : Precedes(Without(q, x), a, b) <=> Precedes(q, a, b) /\ a # x /\ b # x
           /\ NoRepeats(q) => NoRepeats(Without(q, x))
<1> DEFINE others == ToSet(q) \ {x}
<1>1. Without(q, x) = Only(q, others)
  BY DEF Without, ToSet
<1>2. /\ Only(q, others) \in Seq(T)
      /\ ToSet(Only(q, others)) = ToSet(q) \cap others
      /\ \A a, b : Precedes(Only(q, others), a, b) <=> Precedes(q, a, b) /\ a \in others /\ b \in others
  BY OnlyProperties
<1>3. \A a, b : Precedes(q, a, b) => a \in ToSet(q) /\ b \in ToSet(q)
  BY HeadPrecedes
<1> QED BY <1>1, <1>2, <1>3 DEF NoRepeats

LEMMA TailProperties ==
    ASSUME NEW T, NEW q \in Seq(T), q # <<>>, NoRepeats(q)
    PROVE  /\ Tail(q) \in Seq(T)
           /\ ToSet(Tail(q)) = ToSet(q) \ {Head(q)}
           /\ NoRepeats(Tail(q))
<1> DEFINE N == Len(q)
           rest == Tail(q)
<1>1. /\ N \in Nat \ {0} /\ DOMAIN q = 1..N
      /\ rest \in Seq(T) /\ Len(rest) = N - 1 /\ \A i \in 1..N - 1 : rest[i] = q[i + 1]
      /\ Head(q) = q[1]
  BY HeadTailProperties, LenProperties, EmptySeq
<1>2. DOMAIN rest = 1..N - 1
  BY <1>1, LenProperties
<1> HIDE DEF N, rest
<1>3. ASSUME NEW i \in 2..N PROVE q[i] # q[1]
  <2>1. 1 \in DOMAIN q /\ i \in DOMAIN q /\ 1 < i
    BY <1>1
  <2>2. ~Precedes(q, q[1], q[1])
    BY DEF NoRepeats
  <2> QED BY <2>1, <2>2 DEF Precedes
<1>4. ASSUME NEW y \in ToSet(rest) PROVE y \in ToSet(q) \ {Head(q)}
  <2>1. PICK i \in 1..N - 1 : y = rest[i]
    BY <1>2 DEF ToSet
  <2>2. i + 1 \in 2..N /\ y = q[i + 1]
    BY <1>1, <2>1
  <2>3. i + 1 \in DOMAIN q
    BY <1>1, <2>2
  <2> QED BY <1>1, <1>3, <2>2, <2>3 DEF ToSet
<1>5. ASSUME NEW y \in ToSet(q) \ {Head(q)} PROVE y \in ToSet(rest)
  <2>1. PICK i \in 1..N : y = q[i]
    BY <1>1 DEF ToSet
  <2>2. i # 1 /\ i - 1 \in 1..N - 1 /\ (i - 1) + 1 = i
    BY <1>1, <1>5, <2>1
  <2>3. rest[i - 1] = y
    BY <1>1, <2>1, <2>2
  <2> QED BY <1>2, <2>2, <2>3 DEF ToSet
<1>6. NoRepeats(rest)
  <2>1. ASSUME NEW a, Precedes(rest, a, a) PROVE FALSE
    <3>1. PICK i \in DOMAIN rest, j \in DOMAIN rest : i < j /\ rest[i] = a /\ rest[j] = a
      BY <2>1 DEF Precedes
    <3>2. i + 1 \in DOMAIN q /\ j + 1 \in DOMAIN q /\ i + 1 < j + 1 /\ q[i + 1] = a /\ q[j + 1] = a
      BY <1>1, <1>2, <3>1
    <3>3. Precedes(q, a, a)
      BY <3>2 DEF Precedes
    <3> QED BY <3>3 DEF NoRepeats
  <2> QED BY <2>1, Zenon DEF NoRepeats
<1> QED BY <1>1, <1>4, <1>5, <1>6 DEF rest

LEMMA InjectiveQueue ==
    ASSUME NEW T, NEW q \in Seq(T)
    PROVE  /\ IsInjective(q) <=> NoRepeats(q)
           /\ Range(q) = ToSet(q)
<1>1. DOMAIN q = 1..Len(q) /\ Len(q) \in Nat
  BY LenProperties
<1>2. ASSUME IsInjective(q) PROVE NoRepeats(q)
  BY <1>1, <1>2 DEF IsInjective, NoRepeats, Precedes
<1>3. ASSUME NoRepeats(q), NEW i \in DOMAIN q, NEW j \in DOMAIN q, q[i] = q[j] PROVE i = j
  <2>1. ~(i < j) /\ ~(j < i)
    BY <1>3 DEF NoRepeats, Precedes
  <2> QED BY <1>1, <2>1
<1> QED BY <1>2, <1>3 DEF IsInjective, Range, ToSet

-----------------------------------------------------------------------------
(* Amounts, counted unit by unit.                                          *)

LEMMA UnitsOf ==
    ASSUME NEW r, NEW k \in Nat
    PROVE  IsFiniteSet({r} \X (1..k)) /\ Cardinality({r} \X (1..k)) = k
<1>1. IsFiniteSet({r}) /\ Cardinality({r}) = 1
  BY FS_Singleton
<1>2. IsFiniteSet(1..k) /\ Cardinality(1..k) = k
  <2>1. 1 \in Int /\ k \in Int /\ (IF 1 > k THEN 0 ELSE k - 1 + 1) = k
    OBVIOUS
  <2> QED BY <2>1, FS_Interval
<1>3. /\ IsFiniteSet({r} \X (1..k))
      /\ Cardinality({r} \X (1..k)) = Cardinality({r}) * Cardinality(1..k)
  BY <1>1, <1>2, FS_Product
<1>4. 1 * k = k
  OBVIOUS
<1> QED BY <1>1, <1>2, <1>3, <1>4

LEMMA UnitsFinite ==
    ASSUME NEW T, NEW amount \in [T -> Nat], NEW R \in SUBSET T, IsFiniteSet(R)
    PROVE  IsFiniteSet(UNION {{r} \X (1..amount[r]) : r \in R})
<1> DEFINE f == [r \in R |-> {r} \X (1..amount[r])]
           S == {{r} \X (1..amount[r]) : r \in R}
<1>1. f \in Surjection(R, S)
  BY DEF Surjection
<1>2. IsFiniteSet(S)
  <2> HIDE DEF f, S
  <2> QED BY <1>1, FS_Surjection DEF ExistsSurjection
<1>3. ASSUME NEW U \in S PROVE IsFiniteSet(U)
  <2>1. PICK r \in R : U = {r} \X (1..amount[r])
    BY <1>3
  <2>2. amount[r] \in Nat
    OBVIOUS
  <2> QED BY <2>1, <2>2, UnitsOf
<1> HIDE DEF S
<1>4. IsFiniteSet(UNION S)
  BY <1>2, <1>3, FS_UNION
<1> QED BY <1>4 DEF S

\* One more is counted.
LEMMA UnitsAdded ==
    ASSUME NEW T, NEW amount \in [T -> Nat], NEW R \in SUBSET T, IsFiniteSet(R),
           NEW x \in T \ R
    PROVE  LET Units(S) == UNION {{r} \X (1..amount[r]) : r \in S}
           IN  /\ Cardinality(Units(R)) \in Nat
               /\ Cardinality(Units(R \cup {x})) = Cardinality(Units(R)) + amount[x]
<1> DEFINE Units(S) == UNION {{r} \X (1..amount[r]) : r \in S}
           Own == {x} \X (1..amount[x])
<1>1. Units(R \cup {x}) = Units(R) \cup Own
  OBVIOUS
<1>2. Units(R) \cap Own = {}
  OBVIOUS
<1>3. IsFiniteSet(Units(R)) /\ Cardinality(Units(R)) \in Nat
  <2>1. IsFiniteSet(Units(R))
    BY UnitsFinite
  <2> QED BY <2>1, FS_CardinalityType
<1>4. amount[x] \in Nat /\ IsFiniteSet(Own) /\ Cardinality(Own) = amount[x]
  BY UnitsOf
<1> HIDE DEF Units, Own
<1>5. Cardinality(Units(R) \cup Own)
        = Cardinality(Units(R)) + Cardinality(Own) - Cardinality(Units(R) \cap Own)
  BY <1>3, <1>4, FS_Union
<1>6. Cardinality({}) = 0
  BY FS_EmptySet
<1>7. Cardinality(Units(R)) + amount[x] - 0 = Cardinality(Units(R)) + amount[x]
  BY <1>3, <1>4
<1>8. /\ Cardinality(Units(R)) \in Nat
      /\ Cardinality(Units(R \cup {x})) = Cardinality(Units(R)) + amount[x]
  BY <1>1, <1>2, <1>3, <1>4, <1>5, <1>6, <1>7
<1> QED BY <1>8 DEF Units
=============================================================================
