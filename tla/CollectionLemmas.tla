-------------------------- MODULE CollectionLemmas --------------------------
(***************************************************************************)
(* What the proofs need of numbers and sequences: smallest and largest     *)
(* elements of bounded sets of natural numbers (Min and Max of             *)
(* FiniteSetsExt), induction and recursion up to a number, and with them   *)
(* the concatenation of a sequence of sequences (FlattenSeq of             *)
(* SequencesExt): its type, its elements, their order, and what one more   *)
(* sequence appends to it; and so what it means to filter and to sort.     *)
(***************************************************************************)
EXTENDS Lists, SequenceTheorems, FiniteSetTheorems, TLAPS

-----------------------------------------------------------------------------
(* Extrema.                                                                *)

\* The naturals are well ordered, for a set rather than for a predicate.
LEMMA LeastElement ==
    ASSUME NEW S, S \subseteq Nat, S # {}
    PROVE  \E m \in S : \A x \in S : m <= x
<1>1. IsWellFoundedOn(OpToRel(<, Nat), Nat)
  BY NatLessThanWellFounded
<1>2. PICK m \in S : \A x \in S : ~ (<<x, m>> \in OpToRel(<, Nat))
  BY <1>1, WFMin
<1>3. \A x \in S : ~ (x < m)
  BY <1>2 DEF OpToRel
<1> QED
  BY <1>3

\* A non-empty set of naturals has a smallest element, which Min picks.
LEMMA MinIsSmallest ==
    ASSUME NEW S, S \subseteq Nat, S # {}
    PROVE  Min(S) \in S /\ \A x \in S : Min(S) <= x
BY LeastElement DEF Min

\* A non-empty set of naturals with an upper bound has a largest element,
\* which Max picks: it is the one least far from the bound.
LEMMA MaxIsLargest ==
    ASSUME NEW n \in Nat, NEW S, S \subseteq 0..n, S # {}
    PROVE  Max(S) \in S /\ \A x \in S : x <= Max(S)
<1> DEFINE Distance == {k \in 0..n : n - k \in S}
<1>1. Distance \subseteq Nat /\ Distance # {}
  <2>1. PICK s \in S : s \in 0..n
    OBVIOUS
  <2>2. n - s \in 0..n /\ n - (n - s) = s
    BY <2>1
  <2>3. n - s \in Distance
    BY <2>1, <2>2
  <2> QED
    BY <2>3
<1>2. PICK d \in Distance : \A k \in Distance : d <= k
  <2> HIDE DEF Distance
  <2> QED
    BY <1>1, LeastElement
<1>3. n - d \in S
  OBVIOUS
<1>4. \A x \in S : n - d >= x
  <2>1. TAKE x \in S
  <2>2. x \in 0..n /\ n - x \in 0..n /\ n - (n - x) = x
    OBVIOUS
  <2>3. d <= n - x
    BY <1>2, <2>2
  <2> QED
    BY <2>2, <2>3
<1>5. S \subseteq Int
  OBVIOUS
<1>6. \E m \in S : \A x \in S : m >= x
  BY <1>3, <1>4
<1>7. Max(S) \in S /\ \A x \in S : Max(S) >= x
  BY <1>6 DEF Max
<1> QED
  BY <1>5, <1>7

-----------------------------------------------------------------------------
(* Induction and recursion.                                                *)

\* Induction up to n, for a set rather than for a predicate.
LEMMA SetInduction ==
    ASSUME NEW n \in Nat, NEW S, 0 \in S, \A i \in 1..n : i - 1 \in S => i \in S
    PROVE  \A i \in 0..n : i \in S
<1> DEFINE Bad == (0..n) \ S
<1> SUFFICES ASSUME Bad # {} PROVE FALSE
  OBVIOUS
<1>1. PICK m \in Bad : \A x \in Bad : m <= x
  <2>1. Bad \subseteq Nat
    OBVIOUS
  <2> HIDE DEF Bad
  <2> QED
    BY <2>1, LeastElement
<1>2. m \in 1..n /\ m - 1 \in 0..n
  OBVIOUS
<1>3. m - 1 \in S
  BY <1>1, <1>2
<1> QED
  BY <1>1, <1>2, <1>3

\* Definition by recursion up to n: `step[i]` makes the i-th value of the one before.
IsUnfolding(f, n, first, step) ==
    f = [i \in 0..n |-> f[i]] /\ f[0] = first /\ \A i \in 1..n : f[i] = step[i][f[i-1]]

LEMMA UnfoldingExists ==
    ASSUME NEW n \in Nat, NEW first, NEW step
    PROVE  \E f : IsUnfolding(f, n, first, step)
<1> DEFINE Defined == {m \in 0..n : \E f : IsUnfolding(f, m, first, step)}
<1>1. 0 \in Defined
  <2>1. IsUnfolding([i \in 0..0 |-> first], 0, first, step)
    BY DEF IsUnfolding
  <2> QED
    BY <2>1
<1>2. ASSUME NEW m \in 1..n, m - 1 \in Defined PROVE m \in Defined
  <2>1. PICK g : IsUnfolding(g, m - 1, first, step)
    BY <1>2
  <2> DEFINE f == [i \in 0..m |-> IF i = m THEN step[m][g[m-1]] ELSE g[i]]
  <2>2. \A i \in 0..m-1 : f[i] = g[i]
    OBVIOUS
  <2>3. ASSUME NEW i \in 1..m PROVE f[i] = step[i][f[i-1]]
    <3>1. i - 1 \in 0..m-1 /\ f[i-1] = g[i-1]
      BY <2>2
    <3>2. CASE i = m
      BY <3>1, <3>2
    <3>3. CASE i # m
      <4>1. i \in 1..m-1
        BY <3>3
      <4>2. g[i] = step[i][g[i-1]]
        BY <2>1, <4>1 DEF IsUnfolding
      <4> QED
        BY <2>2, <3>1, <4>1, <4>2
    <3> QED
      BY <3>2, <3>3
  <2>4. f[0] = first
    BY <2>1, <2>2 DEF IsUnfolding
  <2>5. IsUnfolding(f, m, first, step)
    BY <2>3, <2>4 DEF IsUnfolding
  <2> QED
    BY <2>5
<1> HIDE DEF Defined
<1>3. n \in Defined
  BY <1>1, <1>2, SetInduction
<1> QED
  BY <1>3 DEF Defined

-----------------------------------------------------------------------------
(* Sequences of sequences.                                                 *)

\* The function FlattenSeq recurs by, as the choice it stands for.
Flattened(s) == CHOOSE f : f = [i \in 1..Len(s) |-> IF i = 1 THEN s[i] ELSE f[i-1] \o s[i]]

\* f[i] is the concatenation of the first i sequences of s.
IsFlattening(f, s, T) ==
    /\ f \in [0..Len(s) -> Seq(T)]
    /\ f[0] = <<>>
    /\ \A i \in 1..Len(s) : f[i] = f[i-1] \o s[i]
    /\ FlattenSeq(s) = f[Len(s)]

LEMMA FlatteningExists ==
    ASSUME NEW T, NEW s \in Seq(Seq(T))
    PROVE  \E f : IsFlattening(f, s, T)
<1> DEFINE n == Len(s)
           step == [i \in 1..n |-> [t \in Seq(T) |-> t \o s[i]]]
<1>1. n \in Nat /\ \A i \in 1..n : s[i] \in Seq(T)
  OBVIOUS
<1>2. PICK g : IsUnfolding(g, n, <<>>, step)
  BY <1>1, UnfoldingExists
<1>3. \A i \in 0..n : g[i] \in Seq(T)
  <2> DEFINE Typed == {i \in 0..n : g[i] \in Seq(T)}
  <2>1. 0 \in Typed
    <3>1. g[0] = <<>> /\ 0 \in 0..n
      BY <1>1, <1>2 DEF IsUnfolding
    <3> QED
      BY <3>1, EmptySeq
  <2>2. ASSUME NEW i \in 1..n, i - 1 \in Typed PROVE i \in Typed
    <3>1. g[i] = g[i-1] \o s[i] /\ g[i-1] \in Seq(T) /\ s[i] \in Seq(T)
      BY <1>1, <1>2, <2>2 DEF IsUnfolding
    <3>2. g[i] \in Seq(T)
      BY <3>1, ConcatProperties
    <3> QED
      BY <3>2
  <2> HIDE DEF Typed
  <2>3. \A i \in 0..n : i \in Typed
    BY <1>1, <2>1, <2>2, SetInduction
  <2> QED
    BY <2>3 DEF Typed
<1>4. \A i \in 1..n : g[i] = g[i-1] \o s[i]
  <2> TAKE i \in 1..n
  <2>1. i - 1 \in 0..n
    BY <1>1
  <2> QED
    BY <1>2, <1>3, <2>1 DEF IsUnfolding
<1>5. g[0] = <<>> /\ (n # 0 => g[1] = s[1])
  <2>1. g[0] = <<>>
    BY <1>2 DEF IsUnfolding
  <2>2. ASSUME n # 0 PROVE g[1] = s[1]
    <3>1. 1 \in 1..n /\ g[1] = g[0] \o s[1] /\ s[1] \in Seq(T)
      <4>1. 1 \in 1..n /\ 1 - 1 = 0
        BY <1>1, <2>2
      <4>2. g[1] = g[1-1] \o s[1] /\ s[1] \in Seq(T)
        BY <1>1, <1>4, <4>1
      <4> QED
        BY <4>1, <4>2
    <3>2. <<>> \o s[1] = s[1]
      BY <3>1, ConcatEmptySeq
    <3> QED
      BY <2>1, <3>1, <3>2
  <2> QED
    BY <2>1, <2>2
<1> HIDE DEF n, step
<1>6. CASE n = 0
  <2>1. FlattenSeq(s) = <<>>
    BY <1>6 DEF FlattenSeq, n
  <2>2. g \in [0..n -> Seq(T)]
    BY <1>2, <1>3 DEF IsUnfolding
  <2> QED
    BY <1>4, <1>5, <1>6, <2>1, <2>2 DEF IsFlattening, n
<1>7. CASE n # 0
  <2> DEFINE h == [i \in 1..n |-> g[i]]
             F == Flattened(s)
  <2>1. h = [i \in 1..n |-> IF i = 1 THEN s[i] ELSE h[i-1] \o s[i]]
    <3>1. ASSUME NEW i \in 1..n PROVE h[i] = IF i = 1 THEN s[i] ELSE h[i-1] \o s[i]
      <4>1. CASE i = 1
        BY <1>5, <1>7, <4>1
      <4>2. CASE i # 1
        <5>1. i - 1 \in 1..n
          BY <1>1, <4>2
        <5> QED
          BY <1>4, <4>2, <5>1
      <4> QED
        BY <4>1, <4>2
    <3> QED
      BY <3>1
  <2> HIDE DEF h
  <2>2. F = [i \in 1..n |-> IF i = 1 THEN s[i] ELSE F[i-1] \o s[i]]
    BY <2>1 DEF Flattened, n
  <2> HIDE DEF F
  <2> DEFINE Same == {i \in 0..n : i = 0 \/ F[i] = g[i]}
  <2>3. 0 \in Same
    BY <1>1
  <2>4. ASSUME NEW i \in 1..n, i - 1 \in Same PROVE i \in Same
    <3>1. F[i] = IF i = 1 THEN s[i] ELSE F[i-1] \o s[i]
      BY <2>2
    <3>2. CASE i = 1
      <4>1. g[i] = s[i]
        BY <1>5, <1>7, <3>2
      <4> QED
        BY <3>1, <3>2, <4>1
    <3>3. CASE i # 1
      <4>1. F[i-1] = g[i-1]
        BY <1>1, <2>4, <3>3 DEF Same
      <4>2. F[i] = g[i]
        BY <1>4, <3>1, <3>3, <4>1
      <4> QED
        BY <4>2 DEF Same
    <3> QED
      BY <3>2, <3>3
  <2> HIDE DEF Same
  <2>5. \A i \in 0..n : i \in Same
    BY <1>1, <2>3, <2>4, SetInduction
  <2>6. F[n] = g[n]
    BY <1>1, <1>7, <2>5 DEF Same
  <2>7. FlattenSeq(s) = F[n]
    BY <1>7 DEF FlattenSeq, F, Flattened, n
  <2>8. g \in [0..n -> Seq(T)]
    BY <1>2, <1>3 DEF IsUnfolding
  <2> QED
    BY <1>4, <1>5, <2>6, <2>7, <2>8 DEF IsFlattening, n
<1> QED
  BY <1>6, <1>7

LEMMA FlattenType ==
    ASSUME NEW T, NEW s \in Seq(Seq(T))
    PROVE  FlattenSeq(s) \in Seq(T)
<1>1. PICK f : IsFlattening(f, s, T)
  BY FlatteningExists
<1>2. Len(s) \in 0..Len(s)
  OBVIOUS
<1> QED
  BY <1>1, <1>2 DEF IsFlattening

LEMMA EmptyFlattened == FlattenSeq(<<>>) = <<>>
<1>1. <<>> \in Seq(Seq({})) /\ Len(<<>>) = 0
  OBVIOUS
<1>2. PICK f : IsFlattening(f, <<>>, {})
  BY <1>1, FlatteningExists
<1> QED
  BY <1>1, <1>2 DEF IsFlattening

\* One more sequence is appended to the concatenation of the others.
LEMMA FlattenAppend ==
    ASSUME NEW T, NEW s \in Seq(Seq(T)), NEW t \in Seq(T)
    PROVE  FlattenSeq(Append(s, t)) = FlattenSeq(s) \o t
<1> DEFINE n == Len(s)
           u == Append(s, t)
<1>1. /\ n \in Nat /\ u \in Seq(Seq(T)) /\ Len(u) = n + 1 /\ u[n+1] = t
      /\ \A i \in 1..n : u[i] = s[i]
  BY AppendProperties
<1> HIDE DEF u
<1>2. PICK f : IsFlattening(f, s, T)
  BY FlatteningExists
<1>3. PICK g : IsFlattening(g, u, T)
  BY <1>1, FlatteningExists
<1> DEFINE Same == {i \in 0..n : g[i] = f[i]}
<1>4. 0 \in Same
  BY <1>1, <1>2, <1>3 DEF IsFlattening
<1>5. ASSUME NEW i \in 1..n, i - 1 \in Same PROVE i \in Same
  <2>1. i \in 1..Len(u)
    BY <1>1
  <2>2. g[i] = g[i-1] \o u[i] /\ f[i] = f[i-1] \o s[i]
    BY <1>2, <1>3, <2>1 DEF IsFlattening
  <2>3. g[i-1] = f[i-1] /\ u[i] = s[i]
    BY <1>1, <1>5
  <2>4. g[i] = f[i]
    BY <2>2, <2>3
  <2> QED
    BY <1>1, <2>4
<1> HIDE DEF Same
<1>6. \A i \in 0..n : i \in Same
  BY <1>1, <1>4, <1>5, SetInduction
<1>7. g[n] = f[n]
  BY <1>1, <1>6 DEF Same
<1>8. n + 1 \in 1..Len(u) /\ (n + 1) - 1 = n
  BY <1>1
<1>9. g[n+1] = g[n] \o t
  BY <1>1, <1>3, <1>8 DEF IsFlattening
<1>10. FlattenSeq(u) = g[n+1] /\ FlattenSeq(s) = f[n]
  BY <1>1, <1>2, <1>3 DEF IsFlattening
<1> QED
  BY <1>7, <1>9, <1>10 DEF u

LEMMA ConcatElements ==
    ASSUME NEW T, NEW s \in Seq(T), NEW t \in Seq(T)
    PROVE  ToSet(s \o t) = ToSet(s) \cup ToSet(t)
<1>1. /\ s \o t \in Seq(T) /\ Len(s \o t) = Len(s) + Len(t)
      /\ \A i \in 1..Len(s) + Len(t) : (s \o t)[i] = IF i <= Len(s) THEN s[i] ELSE t[i - Len(s)]
  BY ConcatProperties
<1>2. Len(s) \in Nat /\ Len(t) \in Nat
  OBVIOUS
<1> DEFINE u == s \o t
<1>3. DOMAIN u = 1..Len(s) + Len(t) /\ DOMAIN s = 1..Len(s) /\ DOMAIN t = 1..Len(t)
  BY <1>1
<1> HIDE DEF u
<1>4. \A i \in DOMAIN s : i \in DOMAIN u /\ u[i] = s[i]
  BY <1>1, <1>2, <1>3 DEF u
<1>5. \A i \in DOMAIN t : i + Len(s) \in DOMAIN u /\ u[i + Len(s)] = t[i]
  BY <1>1, <1>2, <1>3 DEF u
<1>6. \A i \in DOMAIN u : (i \in DOMAIN s /\ u[i] = s[i]) \/ (i - Len(s) \in DOMAIN t /\ u[i] = t[i - Len(s)])
  BY <1>1, <1>2, <1>3 DEF u
<1>7. ToSet(s) \subseteq ToSet(u) /\ ToSet(t) \subseteq ToSet(u)
  BY <1>4, <1>5 DEF ToSet
<1>8. ToSet(u) \subseteq ToSet(s) \cup ToSet(t)
  BY <1>6 DEF ToSet
<1> QED
  BY <1>7, <1>8 DEF u

\* The elements of a concatenation are those of its parts.
LEMMA FlattenElements ==
    ASSUME NEW T, NEW s \in Seq(Seq(T))
    PROVE  ToSet(FlattenSeq(s)) = UNION {ToSet(s[i]) : i \in 1..Len(s)}
<1> DEFINE n == Len(s)
<1>1. n \in Nat /\ \A i \in 1..n : s[i] \in Seq(T)
  OBVIOUS
<1>2. PICK f : IsFlattening(f, s, T)
  BY FlatteningExists
<1> HIDE DEF n
<1> DEFINE Good == {i \in 0..n : ToSet(f[i]) = UNION {ToSet(s[k]) : k \in 1..i}}
<1>3. 0 \in Good
  <2>1. f[0] = <<>>
    BY <1>2 DEF IsFlattening
  <2>2. ToSet(f[0]) = {}
    BY <2>1 DEF ToSet
  <2> QED
    BY <1>1, <2>2
<1>4. ASSUME NEW i \in 1..n, i - 1 \in Good PROVE i \in Good
  <2>1. i - 1 \in 0..n
    BY <1>1
  <2>2. f[i] = f[i-1] \o s[i] /\ f[i-1] \in Seq(T) /\ s[i] \in Seq(T)
    BY <1>1, <1>2, <2>1 DEF IsFlattening, n
  <2>3. ToSet(f[i]) = ToSet(f[i-1]) \cup ToSet(s[i])
    BY <2>2, ConcatElements
  <2>4. 1..i = (1..i-1) \cup {i}
    BY <1>1
  <2> QED
    BY SMTT(30), <1>4, <2>3, <2>4
<1> HIDE DEF Good
<1>5. \A i \in 0..n : i \in Good
  BY <1>1, <1>3, <1>4, SetInduction
<1>6. n \in Good /\ FlattenSeq(s) = f[n]
  BY <1>1, <1>2, <1>5 DEF IsFlattening, n
<1> QED
  BY <1>6 DEF Good, n

\* Of two elements of s the earlier one is before the later one in R.
RespectsOrder(s, R) == \A k, l \in 1..Len(s) : k < l => <<s[k], s[l]>> \in R

LEMMA TailElements ==
    ASSUME NEW T, NEW s \in Seq(T), s # <<>>, NEW R
    PROVE  /\ Head(s) \in ToSet(s)
           /\ ToSet(s) = {Head(s)} \cup ToSet(Tail(s))
           /\ RespectsOrder(s, R) =>
                /\ RespectsOrder(Tail(s), R)
                /\ \A x \in ToSet(Tail(s)) : <<Head(s), x>> \in R
<1> DEFINE n == Len(s)
           t == Tail(s)
<1>1. /\ n \in Nat \ {0} /\ Head(s) = s[1] /\ t \in Seq(T) /\ Len(t) = n - 1
      /\ \A i \in 1..n-1 : t[i] = s[i+1]
  BY HeadTailProperties, EmptySeq
<1>2. DOMAIN s = 1..n /\ DOMAIN t = 1..n-1
  BY <1>1
<1> HIDE DEF n, t
<1>3. Head(s) \in ToSet(s)
  BY <1>1, <1>2 DEF ToSet
<1>4. ASSUME NEW x \in ToSet(s), x # Head(s) PROVE x \in ToSet(t)
  <2>1. PICK i \in 1..n : x = s[i]
    BY <1>2 DEF ToSet
  <2>2. i - 1 \in 1..n-1 /\ (i - 1) + 1 = i
    BY <1>1, <1>4, <2>1
  <2>3. x = t[i-1]
    BY <1>1, <2>1, <2>2
  <2> QED
    BY <1>2, <2>2, <2>3 DEF ToSet
<1>5. \A i \in 1..n-1 : i + 1 \in 1..n /\ 1 < i + 1 /\ 1 \in 1..n
  BY <1>1
<1>6. ToSet(t) \subseteq ToSet(s)
  BY <1>1, <1>2, <1>5 DEF ToSet
<1>7. ASSUME RespectsOrder(s, R)
      PROVE  RespectsOrder(t, R) /\ \A x \in ToSet(t) : <<Head(s), x>> \in R
  <2>1. \A k, l \in 1..n : k < l => <<s[k], s[l]>> \in R
    BY <1>7 DEF RespectsOrder, n
  <2>2. \A i \in 1..n-1 : <<s[1], t[i]>> \in R
    BY <1>1, <1>5, <2>1
  <2>3. \A x \in ToSet(t) : <<Head(s), x>> \in R
    BY <1>1, <1>2, <2>2 DEF ToSet
  <2>4. ASSUME NEW k \in 1..n-1, NEW l \in 1..n-1, k < l PROVE <<t[k], t[l]>> \in R
    <3>1. k + 1 < l + 1
      BY <1>1, <2>4
    <3> QED
      BY <1>1, <1>5, <2>1, <3>1
  <2> QED
    BY <1>1, <2>3, <2>4 DEF RespectsOrder
<1> QED
  BY <1>3, <1>4, <1>6, <1>7 DEF t

LEMMA AppendElements ==
    ASSUME NEW T, NEW s \in Seq(T), NEW e \in T
    PROVE  ToSet(Append(s, e)) = ToSet(s) \cup {e}
<1> DEFINE u == Append(s, e)
<1>1. /\ u \in Seq(T) /\ Len(u) = Len(s) + 1 /\ u[Len(s) + 1] = e /\ Len(s) \in Nat
      /\ \A i \in 1..Len(s) : u[i] = s[i]
  BY AppendProperties
<1>2. DOMAIN s = 1..Len(s) /\ DOMAIN u = 1..Len(s) + 1
  BY <1>1, LenProperties
<1> HIDE DEF u
<1>3. DOMAIN u = (DOMAIN s) \cup {Len(s) + 1}
  BY <1>1, <1>2
<1> QED
  BY <1>1, <1>2, <1>3 DEF ToSet, u

\* Sorted parts, of which each is before the next ones, have a sorted concatenation.
LEMMA FlattenSorted ==
    ASSUME NEW T, NEW s \in Seq(Seq(T)), NEW R,
           \A i \in 1..Len(s) : RespectsOrder(s[i], R),
           \A i, j \in 1..Len(s) : i < j =>
               \A x \in ToSet(s[i]), y \in ToSet(s[j]) : <<x, y>> \in R
    PROVE  RespectsOrder(FlattenSeq(s), R)
<1> DEFINE n == Len(s)
<1>1. n \in Nat /\ \A i \in 1..n : s[i] \in Seq(T)
  OBVIOUS
<1>2. PICK f : IsFlattening(f, s, T)
  BY FlatteningExists
<1> HIDE DEF n
<1> DEFINE Good == {i \in 0..n : /\ RespectsOrder(f[i], R)
                                 /\ ToSet(f[i]) \subseteq UNION {ToSet(s[k]) : k \in 1..i}}
<1>3. 0 \in Good
  <2>1. f[0] = <<>>
    BY <1>2 DEF IsFlattening
  <2>2. ToSet(f[0]) = {} /\ RespectsOrder(f[0], R)
    BY <2>1 DEF ToSet, RespectsOrder
  <2> QED
    BY <1>1, <2>2
<1>4. ASSUME NEW i \in 1..n, i - 1 \in Good PROVE i \in Good
  <2>1. i - 1 \in 0..n
    BY <1>1
  <2>2. f[i] = f[i-1] \o s[i] /\ f[i-1] \in Seq(T) /\ s[i] \in Seq(T)
    BY <1>1, <1>2, <2>1 DEF IsFlattening, n
  <2>3. ToSet(f[i]) = ToSet(f[i-1]) \cup ToSet(s[i])
    BY <2>2, ConcatElements
  <2>4. 1..i = (1..i-1) \cup {i}
    BY <1>1
  <2>5. ToSet(f[i]) \subseteq UNION {ToSet(s[k]) : k \in 1..i}
    BY <1>4, <2>3, <2>4
  <2> DEFINE a == f[i-1]
             b == s[i]
             m == Len(a)
  <2>6. m \in Nat /\ Len(b) \in Nat /\ Len(f[i]) = m + Len(b)
    BY <2>2, ConcatProperties
  <2>7. \A k \in 1..Len(f[i]) : f[i][k] = IF k <= m THEN a[k] ELSE b[k - m]
    BY <2>2, <2>6, ConcatProperties
  <2>8. RespectsOrder(a, R) /\ RespectsOrder(b, R)
    BY <1>1, <1>4 DEF n
  <2>9. \A k \in 1..m : a[k] \in ToSet(a)
    BY <2>2 DEF ToSet
  <2>10. \A k \in 1..Len(b) : b[k] \in ToSet(b)
    BY <2>2 DEF ToSet
  <2>11. \A x \in ToSet(a), y \in ToSet(b) : <<x, y>> \in R
    <3> SUFFICES ASSUME NEW x \in ToSet(a), NEW y \in ToSet(b) PROVE <<x, y>> \in R
      OBVIOUS
    <3>1. PICK k \in 1..i-1 : x \in ToSet(s[k])
      BY <1>4
    <3>2. k \in 1..n /\ k < i
      BY <1>1
    <3> QED
      BY <3>1, <3>2 DEF n
  <2> HIDE DEF a, b, m
  <2>12. ASSUME NEW k \in 1..Len(f[i]), NEW l \in 1..Len(f[i]), k < l
         PROVE  <<f[i][k], f[i][l]>> \in R
    <3>1. CASE l <= m
      <4>1. k \in 1..m /\ l \in 1..m
        BY <2>6, <2>12, <3>1
      <4>2. f[i][k] = a[k] /\ f[i][l] = a[l]
        BY <2>7, <4>1
      <4> QED
        BY <2>8, <2>12, <4>1, <4>2 DEF RespectsOrder, m
    <3>2. CASE k <= m /\ ~ (l <= m)
      <4>1. k \in 1..m /\ l - m \in 1..Len(b)
        BY <2>6, <3>2
      <4>2. f[i][k] = a[k] /\ f[i][l] = b[l-m]
        BY <2>7, <3>2
      <4> QED
        BY <2>9, <2>10, <2>11, <4>1, <4>2
    <3>3. CASE ~ (k <= m)
      <4>1. k - m \in 1..Len(b) /\ l - m \in 1..Len(b) /\ k - m < l - m /\ ~ (l <= m)
        BY <2>6, <2>12, <3>3
      <4>2. f[i][k] = b[k-m] /\ f[i][l] = b[l-m]
        BY <2>7, <3>3, <4>1
      <4> QED
        BY <2>8, <4>1, <4>2 DEF RespectsOrder
    <3> QED
      BY <2>6, <3>1, <3>2, <3>3
  <2> QED
    BY <2>5, <2>12 DEF RespectsOrder
<1> HIDE DEF Good
<1>5. \A i \in 0..n : i \in Good
  BY <1>1, <1>3, <1>4, SetInduction
<1>6. n \in Good /\ FlattenSeq(s) = f[n]
  BY <1>1, <1>2, <1>5 DEF IsFlattening, n
<1> QED
  BY <1>6 DEF Good

\* The numbers from a up to and without z.
Consecutive(a, z) == [i \in 1..z-a |-> a + i - 1]

LEMMA ConsecutiveType ==
    ASSUME NEW a \in Nat, NEW z \in Nat, a <= z
    PROVE  Consecutive(a, z) \in Seq(Nat) /\ Len(Consecutive(a, z)) = z - a
<1>1. z - a \in Nat /\ \A i \in 1..z-a : a + i - 1 \in Nat
  OBVIOUS
<1>2. Consecutive(a, z) \in [1..z-a -> Nat]
  BY <1>1 DEF Consecutive
<1> QED
  BY <1>1, <1>2, LenProperties

LEMMA ConsecutiveConcat ==
    ASSUME NEW a \in Nat, NEW b \in Nat, NEW c \in Nat, a <= b, b <= c
    PROVE  Consecutive(a, b) \o Consecutive(b, c) = Consecutive(a, c)
<1>1. PICK s \in Seq(Nat) : s = Consecutive(a, b) /\ Len(s) = b - a
  BY ConsecutiveType
<1>2. PICK t \in Seq(Nat) : t = Consecutive(b, c) /\ Len(t) = c - b
  BY ConsecutiveType
<1>3. PICK u \in Seq(Nat) : u = Consecutive(a, c) /\ Len(u) = c - a
  <2>1. a <= c
    OBVIOUS
  <2> QED
    BY <2>1, ConsecutiveType
<1>4. /\ s \o t \in Seq(Nat) /\ Len(s \o t) = (b - a) + (c - b)
      /\ \A i \in 1..c-a : (s \o t)[i] = IF i <= b - a THEN s[i] ELSE t[i - (b - a)]
  <2>1. /\ s \o t \in Seq(Nat) /\ Len(s \o t) = Len(s) + Len(t)
        /\ \A i \in 1..Len(s)+Len(t) : (s \o t)[i] = IF i <= Len(s) THEN s[i] ELSE t[i - Len(s)]
    BY ConcatProperties
  <2>2. Len(s) + Len(t) = c - a
    BY <1>1, <1>2
  <2> QED
    BY <1>1, <1>2, <2>1, <2>2
<1>5. ASSUME NEW i \in 1..c-a PROVE (s \o t)[i] = u[i]
  <2>1. u[i] = a + i - 1
    BY <1>3 DEF Consecutive
  <2>2. CASE i <= b - a
    <3>1. s[i] = a + i - 1
      BY <1>1, <2>2 DEF Consecutive
    <3> QED
      BY <1>4, <2>1, <2>2, <3>1
  <2>3. CASE ~ (i <= b - a)
    <3>1. i - (b - a) \in 1..c-b /\ b + (i - (b - a)) - 1 = a + i - 1
      BY <2>3
    <3>2. t[i - (b - a)] = b + (i - (b - a)) - 1
      BY <1>2, <3>1 DEF Consecutive
    <3> QED
      BY <1>4, <2>1, <2>3, <3>1, <3>2
  <2> QED
    BY <2>2, <2>3
<1>6. Len(s \o t) = Len(u)
  BY <1>3, <1>4
<1>7. s \o t = u
  BY <1>3, <1>4, <1>5, <1>6, SeqEqual
<1> QED
  BY <1>1, <1>2, <1>3, <1>7

\* Adjoining intervals make one.
LEMMA FlattenConsecutive ==
    ASSUME NEW n \in Nat, NEW cut \in [0..n -> Nat], \A i \in 1..n : cut[i-1] <= cut[i],
           NEW s, s = [i \in 1..n |-> Consecutive(cut[i-1], cut[i])]
    PROVE  FlattenSeq(s) = Consecutive(cut[0], cut[n]) /\ cut[0] <= cut[n]
<1>1. ASSUME NEW i \in 1..n
      PROVE  /\ i \in 0..n /\ i - 1 \in 0..n /\ cut[i-1] \in Nat /\ cut[i] \in Nat
             /\ s[i] = Consecutive(cut[i-1], cut[i])
  OBVIOUS
<1>2. \A i \in 1..n : s[i] \in Seq(Nat)
  BY <1>1, ConsecutiveType
<1>3. s \in Seq(Seq(Nat)) /\ Len(s) = n
  <2>1. s \in [1..n -> Seq(Nat)]
    BY <1>2
  <2> QED
    BY <2>1, LenProperties
<1>4. PICK f : IsFlattening(f, s, Nat)
  BY <1>3, FlatteningExists
<1> DEFINE Good == {i \in 0..n : f[i] = Consecutive(cut[0], cut[i]) /\ cut[0] <= cut[i]}
<1>5. 0 \in Good
  <2>1. cut[0] \in Nat
    OBVIOUS
  <2>2. Consecutive(cut[0], cut[0]) = <<>>
    <3>1. Consecutive(cut[0], cut[0]) \in Seq(Nat) /\ Len(Consecutive(cut[0], cut[0])) = 0
      <4> DEFINE c == cut[0]
      <4>1. c \in Nat /\ c <= c /\ c - c = 0
        BY <2>1
      <4> HIDE DEF c
      <4>2. Consecutive(c, c) \in Seq(Nat) /\ Len(Consecutive(c, c)) = 0
        BY <4>1, ConsecutiveType
      <4> QED
        BY <4>2 DEF c
    <3> QED
      BY <3>1, EmptySeq
  <2> QED
    BY <1>4, <2>1, <2>2 DEF IsFlattening
<1>6. ASSUME NEW i \in 1..n, i - 1 \in Good PROVE i \in Good
  <2>1. f[i] = f[i-1] \o s[i]
    BY <1>3, <1>4 DEF IsFlattening
  <2>2. f[i-1] = Consecutive(cut[0], cut[i-1]) /\ cut[0] <= cut[i-1] /\ cut[0] \in Nat
    BY <1>6
  <2>3. cut[i-1] <= cut[i] /\ cut[0] <= cut[i]
    BY <1>1, <2>2
  <2>4. f[i] = Consecutive(cut[0], cut[i])
    <3>1. PICK a \in Nat, b \in Nat, c \in Nat : a = cut[0] /\ b = cut[i-1] /\ c = cut[i]
      BY <1>1, <2>2
    <3>2. Consecutive(a, b) \o Consecutive(b, c) = Consecutive(a, c)
      BY ZenonT(60), <2>2, <2>3, <3>1, ConsecutiveConcat
    <3> QED
      BY <1>1, <2>1, <2>2, <3>1, <3>2
  <2> QED
    BY <1>1, <2>3, <2>4
<1> HIDE DEF Good
<1>7. \A i \in 0..n : i \in Good
  BY <1>5, <1>6, SetInduction
<1>8. n \in Good /\ FlattenSeq(s) = f[n]
  BY <1>3, <1>4, <1>7 DEF IsFlattening
<1> QED
  BY <1>8 DEF Good

-----------------------------------------------------------------------------
(* Lists that are filtered.                                                *)

\* The sequences of at most one element each, of which a filtered list consists.
Singles(list, S) == [i \in DOMAIN list |-> IF list[i] \in S THEN <<list[i]>> ELSE <<>>]

LEMMA SinglesType ==
    ASSUME NEW T, NEW list \in Seq(T), NEW S
    PROVE  /\ Singles(list, S) \in Seq(Seq(T)) /\ Len(Singles(list, S)) = Len(list)
           /\ DOMAIN list = 1..Len(list) /\ Len(list) \in Nat
           /\ \A i \in 1..Len(list) : /\ list[i] \in T
                                      /\ Singles(list, S)[i] = IF list[i] \in S THEN <<list[i]>> ELSE <<>>
<1>1. DOMAIN list = 1..Len(list) /\ Len(list) \in Nat /\ \A i \in 1..Len(list) : list[i] \in T
  OBVIOUS
<1>2. \A x \in T : <<x>> \in Seq(T)
  OBVIOUS
<1>3. Singles(list, S) \in [1..Len(list) -> Seq(T)]
  BY <1>1, <1>2 DEF Singles
<1>4. Singles(list, S) \in Seq(Seq(T)) /\ Len(Singles(list, S)) = Len(list)
  <2> DEFINE parts == Singles(list, S)
  <2> HIDE DEF parts
  <2>1. parts \in [1..Len(list) -> Seq(T)]
    BY <1>3 DEF parts
  <2>2. parts \in Seq(Seq(T)) /\ Len(parts) = Len(list)
    BY <1>1, <2>1, LenProperties
  <2> QED
    BY <2>2 DEF parts
<1> QED
  BY <1>1, <1>4 DEF Singles

LEMMA AmongProperties ==
    ASSUME NEW T, NEW list \in Seq(T), NEW S
    PROVE  /\ Among(list, S) \in Seq(T)
           /\ ToSet(Among(list, S)) = ToSet(list) \cap S
<1> DEFINE parts == Singles(list, S)
           n == Len(list)
<1>1. /\ parts \in Seq(Seq(T)) /\ Len(parts) = n /\ DOMAIN list = 1..n
      /\ \A i \in 1..n : parts[i] = IF list[i] \in S THEN <<list[i]>> ELSE <<>>
  BY SinglesType
<1>2. Among(list, S) = FlattenSeq(parts)
  BY DEF Among, Singles
<1> HIDE DEF parts, n
<1>3. Among(list, S) \in Seq(T)
  BY <1>1, <1>2, FlattenType
<1>4. ToSet(Among(list, S)) = UNION {ToSet(parts[i]) : i \in 1..n}
  BY <1>1, <1>2, FlattenElements
<1>5. \A i \in 1..n : ToSet(parts[i]) = {list[i]} \cap S
  <2> TAKE i \in 1..n
  <2>1. ToSet(<<list[i]>>) = {list[i]}
    BY DEF ToSet
  <2>2. ToSet(<<>>) = {}
    BY DEF ToSet
  <2> QED
    BY <1>1, <2>1, <2>2
<1>6. ToSet(list) = {list[i] : i \in 1..n}
  BY <1>1 DEF ToSet
<1>7. UNION {ToSet(parts[i]) : i \in 1..n} = ToSet(list) \cap S
  BY <1>5, <1>6
<1> QED
  BY <1>3, <1>4, <1>7

\* Filtering keeps the order.
LEMMA AmongSorted ==
    ASSUME NEW T, NEW list \in Seq(T), NEW S, NEW R, RespectsOrder(list, R)
    PROVE  RespectsOrder(Among(list, S), R)
<1> DEFINE parts == Singles(list, S)
           n == Len(list)
<1>1. /\ parts \in Seq(Seq(T)) /\ Len(parts) = n
      /\ \A i \in 1..n : parts[i] = IF list[i] \in S THEN <<list[i]>> ELSE <<>>
  BY SinglesType
<1>2. Among(list, S) = FlattenSeq(parts)
  BY DEF Among, Singles
<1> HIDE DEF parts
<1>3. \A i \in 1..n : RespectsOrder(parts[i], R) /\ ToSet(parts[i]) \subseteq {list[i]}
  <2> TAKE i \in 1..n
  <2>1. Len(<<list[i]>>) = 1 /\ RespectsOrder(<<list[i]>>, R) /\ ToSet(<<list[i]>>) = {list[i]}
    BY DEF RespectsOrder, ToSet
  <2>2. RespectsOrder(<<>>, R) /\ ToSet(<<>>) = {}
    BY DEF RespectsOrder, ToSet
  <2> QED
    BY <1>1, <2>1, <2>2
<1>4. ASSUME NEW i \in 1..n, NEW j \in 1..n, i < j, NEW x \in ToSet(parts[i]), NEW y \in ToSet(parts[j])
      PROVE  <<x, y>> \in R
  <2>1. x = list[i] /\ y = list[j]
    BY <1>3, <1>4
  <2> QED
    BY <1>4, <2>1 DEF RespectsOrder
<1> HIDE DEF n
<1>5. RespectsOrder(FlattenSeq(parts), R)
  BY <1>1, <1>3, <1>4, FlattenSorted
<1> QED
  BY <1>2, <1>5

\* An element that is appended to a list is appended to the filtered one, or left out.
LEMMA AmongAppend ==
    ASSUME NEW T, NEW list \in Seq(T), NEW S, NEW x \in T
    PROVE  Among(Append(list, x), S) = IF x \in S THEN Append(Among(list, S), x) ELSE Among(list, S)
<1> DEFINE parts == Singles(list, S)
           last == IF x \in S THEN <<x>> ELSE <<>>
           more == Append(list, x)
<1>1. /\ more \in Seq(T) /\ Len(more) = Len(list) + 1 /\ more[Len(list) + 1] = x
      /\ \A i \in 1..Len(list) : more[i] = list[i]
  BY AppendProperties
<1>2. /\ Singles(more, S) \in Seq(Seq(T)) /\ Len(Singles(more, S)) = Len(list) + 1
      /\ \A i \in 1..Len(list) + 1 : Singles(more, S)[i] = IF more[i] \in S THEN <<more[i]>> ELSE <<>>
  <2> HIDE DEF more
  <2> QED
    BY <1>1, SinglesType
<1>3. /\ parts \in Seq(Seq(T)) /\ Len(parts) = Len(list) /\ Len(list) \in Nat
      /\ \A i \in 1..Len(list) : parts[i] = IF list[i] \in S THEN <<list[i]>> ELSE <<>>
  BY SinglesType
<1>4. last \in Seq(T)
  OBVIOUS
<1> HIDE DEF parts, more, last
<1>5. /\ Append(parts, last) \in Seq(Seq(T)) /\ Len(Append(parts, last)) = Len(list) + 1
      /\ Append(parts, last)[Len(list) + 1] = last
      /\ \A i \in 1..Len(list) : Append(parts, last)[i] = parts[i]
  BY <1>3, <1>4, AppendProperties
<1>6. Singles(more, S)[Len(list) + 1] = last
  BY <1>1, <1>2, <1>3 DEF last
<1>7. ASSUME NEW i \in 1..Len(list) PROVE Singles(more, S)[i] = parts[i]
  <2>1. i \in 1..Len(list) + 1 /\ more[i] = list[i]
    BY <1>1, <1>3
  <2>2. Singles(more, S)[i] = IF more[i] \in S THEN <<more[i]>> ELSE <<>>
    BY <1>2, <2>1
  <2> QED
    BY <1>3, <2>1, <2>2
<1>8. \A i \in 1..Len(list) + 1 : Singles(more, S)[i] = Append(parts, last)[i]
  BY <1>3, <1>5, <1>6, <1>7
<1>9. Singles(more, S) = Append(parts, last)
  BY <1>2, <1>3, <1>5, <1>8, SeqEqual
<1>10. FlattenSeq(Append(parts, last)) = FlattenSeq(parts) \o last
  BY <1>3, <1>4, FlattenAppend
<1>11. Among(more, S) = FlattenSeq(Singles(more, S)) /\ Among(list, S) = FlattenSeq(parts)
  BY DEF Among, Singles, parts
<1>12. Among(list, S) \in Seq(T)
  BY AmongProperties
<1>13. Among(list, S) \o <<>> = Among(list, S) /\ Among(list, S) \o <<x>> = Append(Among(list, S), x)
  BY <1>12
<1> QED
  BY <1>9, <1>10, <1>11, <1>13 DEF last, more

\* The i-th element of a list, if it is not left out, comes in the filtered
\* list after as many as there are in the list up to it.
LEMMA AmongPlace ==
    ASSUME NEW T, NEW list \in Seq(T), NEW S, NEW i \in 1..Len(list), list[i] \in S
    PROVE  LET k == Len(Among(SubSeq(list, 1, i), S))
           IN  k \in 1..Len(Among(list, S)) /\ Among(list, S)[k] = list[i]
<1> DEFINE n == Len(list)
           upTo(m) == Among(SubSeq(list, 1, m), S)
           k == Len(upTo(i))
<1>1. n \in Nat /\ SubSeq(list, 1, n) = list
  OBVIOUS
<1>2. ASSUME NEW m \in 1..n
      PROVE  /\ upTo(m) \in Seq(T) /\ upTo(m-1) \in Seq(T)
             /\ upTo(m) = IF list[m] \in S THEN Append(upTo(m-1), list[m]) ELSE upTo(m-1)
  <2> DEFINE shorter == SubSeq(list, 1, m-1)
  <2>1. shorter \in Seq(T) /\ list[m] \in T /\ SubSeq(list, 1, m) \in Seq(T)
    OBVIOUS
  <2>2. SubSeq(list, 1, m) = Append(shorter, list[m])
    OBVIOUS
  <2> HIDE DEF shorter
  <2>3. Among(Append(shorter, list[m]), S) = IF list[m] \in S THEN Append(Among(shorter, S), list[m])
                                             ELSE Among(shorter, S)
    <3>1. PICK x \in T : x = list[m]
      BY <2>1
    <3>2. Among(Append(shorter, x), S) = IF x \in S THEN Append(Among(shorter, S), x)
                                         ELSE Among(shorter, S)
      BY <2>1, AmongAppend
    <3> QED
      BY <3>1, <3>2
  <2> QED
    BY <2>1, <2>2, <2>3, AmongProperties DEF shorter
<1> HIDE DEF n, upTo, k
<1> DEFINE Good == {m \in 0..n : m >= i => k \in 1..Len(upTo(m)) /\ upTo(m)[k] = list[i]}
<1>3. i \in 1..n /\ i \in Nat
  BY DEF n
<1>4. 0 \in Good
  BY <1>1, <1>3
<1>5. ASSUME NEW m \in 1..n, m - 1 \in Good PROVE m \in Good
  <2>1. m \in 0..n
    BY <1>1
  <2>2. PICK before \in Seq(T) : before = upTo(m-1)
    BY <1>2
  <2>3. /\ Append(before, list[m]) \in Seq(T) /\ Len(before) \in Nat
        /\ Len(Append(before, list[m])) = Len(before) + 1
        /\ Append(before, list[m])[Len(before) + 1] = list[m]
        /\ \A j \in 1..Len(before) : Append(before, list[m])[j] = before[j]
    <3>1. list[m] \in T
      BY DEF n
    <3> QED
      BY <3>1, AppendProperties
  <2>4. upTo(m) = IF list[m] \in S THEN Append(before, list[m]) ELSE before
    BY <1>2, <2>2
  <2>5. CASE m = i
    <3>1. upTo(m) = Append(before, list[m])
      BY <2>4, <2>5
    <3>2. k = Len(before) + 1
      BY <2>3, <2>5, <3>1 DEF k
    <3>3. Len(upTo(m)) = Len(before) + 1 /\ upTo(m)[Len(before) + 1] = list[m]
      BY <2>3, <3>1
    <3>4. k \in 1..Len(upTo(m)) /\ upTo(m)[k] = list[i]
      BY <2>3, <2>5, <3>2, <3>3
    <3> QED
      BY <2>1, <3>4
  <2>6. CASE m > i
    <3>1. k \in 1..Len(before) /\ before[k] = list[i]
      BY <1>3, <1>5, <2>2, <2>6
    <3>2. k \in 1..Len(upTo(m)) /\ upTo(m)[k] = list[i]
      <4>1. CASE list[m] \in S
        BY <2>3, <2>4, <3>1, <4>1
      <4>2. CASE list[m] \notin S
        BY <2>4, <3>1, <4>2
      <4> QED
        BY <4>1, <4>2
    <3> QED
      BY <2>1, <3>2
  <2>7. CASE ~ (m >= i)
    BY <2>1, <2>7
  <2> QED
    BY <1>3, <2>5, <2>6, <2>7
<1> HIDE DEF Good
<1>6. \A m \in 0..n : m \in Good
  BY <1>1, <1>4, <1>5, SetInduction
<1>7. n \in Good /\ n >= i
  BY <1>1, <1>3, <1>6
<1>8. upTo(n) = Among(list, S)
  BY <1>1 DEF upTo
<1> QED
  BY <1>7, <1>8 DEF Good, k, upTo

-----------------------------------------------------------------------------
(* Lists that are sorted.                                                  *)

\* A finite set of naturals has a largest element.
LEMMA FiniteHasLargest ==
    ASSUME NEW S, S \subseteq Nat, S # {}, IsFiniteSet(S)
    PROVE  \E m \in S : \A x \in S : m >= x
<1> DEFINE Good == {n \in 0..Cardinality(S) :
                      \A Q \in SUBSET S : Q # {} /\ Cardinality(Q) = n => \E m \in Q : \A x \in Q : m >= x}
<1>1. Cardinality(S) \in Nat /\ \A Q \in SUBSET S : IsFiniteSet(Q)
  BY FS_CardinalityType, FS_Subset
<1>2. 0 \in Good
  BY <1>1, FS_EmptySet
<1>3. ASSUME NEW n \in 1..Cardinality(S), n - 1 \in Good PROVE n \in Good
  <2> SUFFICES ASSUME NEW Q \in SUBSET S, Q # {}, Cardinality(Q) = n
               PROVE  \E m \in Q : \A x \in Q : m >= x
    BY <1>1
  <2>1. PICK q \in Q : TRUE
    OBVIOUS
  <2>2. Cardinality(Q \ {q}) = n - 1
    BY <1>1, FS_RemoveElement
  <2>3. CASE Q \ {q} = {}
    BY <2>3
  <2>4. CASE Q \ {q} # {}
    <3>1. PICK m \in Q \ {q} : \A x \in Q \ {q} : m >= x
      BY <1>3, <2>2, <2>4
    <3>2. m \in Nat /\ q \in Nat /\ \A x \in Q : x \in Nat
      OBVIOUS
    <3>3. CASE m >= q
      BY <3>1, <3>2, <3>3
    <3>4. CASE q >= m
      <4>1. \A x \in Q : q >= x
        BY <3>1, <3>2, <3>4
      <4> QED
        BY <4>1
    <3> QED
      BY <3>2, <3>3, <3>4
  <2> QED
    BY <2>3, <2>4
<1> HIDE DEF Good
<1>4. Cardinality(S) \in Good
  BY <1>1, <1>2, <1>3, SetInduction
<1> QED
  BY <1>4 DEF Good

\* What Ascending chooses from.
Enumerations(S) == {s \in [1..Cardinality(S) -> S] : IsAscending(s)}

\* By induction over the number of elements: the largest one comes last.
LEMMA EnumerationExists ==
    ASSUME NEW S, S \subseteq Nat, IsFiniteSet(S)
    PROVE  Enumerations(S) # {}
<1> DEFINE N == Cardinality(S)
           Good == {n \in 0..N : \A Q \in SUBSET S : Cardinality(Q) = n => Enumerations(Q) # {}}
<1>1. N \in Nat /\ \A Q \in SUBSET S : IsFiniteSet(Q)
  BY FS_CardinalityType, FS_Subset
<1>2. 0 \in Good
  <2> SUFFICES ASSUME NEW Q \in SUBSET S, Cardinality(Q) = 0 PROVE Enumerations(Q) # {}
    BY <1>1
  <2>1. <<>> \in [1..0 -> Q] /\ DOMAIN <<>> = {}
    OBVIOUS
  <2>2. <<>> \in Enumerations(Q)
    BY <2>1 DEF Enumerations, IsAscending
  <2> QED
    BY <2>2
<1>3. ASSUME NEW n \in 1..N, n - 1 \in Good PROVE n \in Good
  <2> SUFFICES ASSUME NEW Q \in SUBSET S, Cardinality(Q) = n PROVE Enumerations(Q) # {}
    BY <1>1
  <2>1. PICK top \in Q : \A x \in Q : x <= top
    <3>1. Q # {} /\ IsFiniteSet(Q)
      BY <1>1, FS_EmptySet
    <3>2. \E top \in Q : \A x \in Q : top >= x
      BY <3>1, FiniteHasLargest
    <3> QED
      BY <3>2
  <2> DEFINE rest == Q \ {top}
  <2>2. Cardinality(rest) = n - 1
    BY <1>1, FS_RemoveElement
  <2>3. PICK s \in [1..n-1 -> rest] : IsAscending(s)
    <3>1. Enumerations(rest) # {}
      BY <1>3, <2>2
    <3> QED
      BY <2>2, <3>1 DEF Enumerations
  <2> DEFINE t == [i \in 1..n |-> IF i = n THEN top ELSE s[i]]
  <2>4. t \in [1..n -> Q]
    <3>1. ASSUME NEW i \in 1..n, i # n PROVE s[i] \in Q
      <4>1. i \in 1..n-1
        BY <1>1, <3>1
      <4> QED
        BY <2>3, <4>1
    <3> QED
      BY <2>1, <3>1
  <2>5. ASSUME NEW i \in 1..n, NEW j \in 1..n, i < j PROVE t[i] < t[j]
    <3>1. i \in 1..n-1 /\ t[i] = s[i] /\ s[i] \in rest /\ s[i] \in Nat /\ top \in Nat
      <4>1. i \in 1..n-1 /\ i # n
        BY <1>1, <2>5
      <4>2. s[i] \in rest
        BY <2>3, <4>1
      <4> QED
        BY <2>1, <4>1, <4>2
    <3>2. CASE j = n
      <4>1. s[i] <= top /\ s[i] # top
        BY <2>1, <3>1
      <4> QED
        BY <3>1, <3>2, <4>1
    <3>3. CASE j # n
      <4>1. j \in 1..n-1 /\ t[j] = s[j]
        BY <1>1, <3>3
      <4>2. s[i] < s[j]
        BY <2>3, <2>5, <3>1, <4>1 DEF IsAscending
      <4> QED
        BY <3>1, <4>1, <4>2
    <3> QED
      BY <3>2, <3>3
  <2>6. IsAscending(t)
    BY <2>5 DEF IsAscending
  <2>7. t \in Enumerations(Q)
    <3> HIDE DEF t
    <3> QED
      BY <2>4, <2>6 DEF Enumerations
  <2> QED
    BY <2>7
<1> HIDE DEF Good
<1>4. N \in Good
  BY <1>1, <1>2, <1>3, SetInduction
<1> QED
  BY <1>4 DEF Good

LEMMA AscendingProperties ==
    ASSUME NEW S, S \subseteq Nat, IsFiniteSet(S)
    PROVE  /\ Ascending(S) \in Seq(S) /\ IsAscending(Ascending(S)) /\ ToSet(Ascending(S)) = S
           /\ Len(Ascending(S)) = Cardinality(S)
<1> DEFINE n == Cardinality(S)
           s == Ascending(S)
<1>1. s \in Enumerations(S)
  BY EnumerationExists DEF Ascending, Enumerations
<1>2. n \in Nat
  BY FS_CardinalityType
<1>3. s \in [1..n -> S] /\ IsAscending(s)
  BY <1>1 DEF Enumerations
<1> HIDE DEF n, s
<1>4. s \in Seq(S) /\ Len(s) = n /\ DOMAIN s = 1..n
  BY <1>2, <1>3, LenProperties
<1>5. \A i, j \in 1..n : s[i] = s[j] => i = j
  <2> SUFFICES ASSUME NEW i \in 1..n, NEW j \in 1..n, i < j PROVE s[i] # s[j]
    BY <1>2
  <2>1. s[i] < s[j] /\ s[i] \in Nat
    BY <1>3, <1>4 DEF IsAscending
  <2> QED
    BY <2>1
<1>6. s \in Injection(1..n, S)
  BY <1>3, <1>4, <1>5 DEF Injection, IsInjective
<1>7. Cardinality(1..n) = n
  BY <1>2, FS_Interval
<1>8. s \in Surjection(1..n, S)
  BY <1>6, <1>7, FS_Injection DEF n
<1>9. ToSet(s) = S
  BY <1>3, <1>4, <1>8 DEF Surjection, ToSet
<1> QED
  BY <1>3, <1>4, <1>9 DEF s, n
=============================================================================
