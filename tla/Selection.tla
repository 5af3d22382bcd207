----------------------------- MODULE Selection ------------------------------
(***************************************************************************)
(* What a sequence has at some of its indices, in its order: a list        *)
(* comprehension with a condition.  Unlike SelectSeq this is defined       *)
(* without recursion, by counting, so that it can be reasoned about.       *)
(***************************************************************************)
EXTENDS Integers, Sequences, FiniteSets, SequenceTheorems, FiniteSetTheorems, TLAPS

\* The members of D up to i.
UpTo(D, i) == {j \in D : j <= i}

\* The k-th member of D.
Nth(D, k) == CHOOSE i \in D : Cardinality(UpTo(D, i)) = k

\* s at the indices in D.
Select(s, D) == [k \in 1 .. Cardinality(D) |-> s[Nth(D, k)]]

-----------------------------------------------------------------------------
(* What is selected: the elements at the indices given, once each and in     *)
(* order.  Indices are told apart by how many come before them, so no       *)
(* induction is needed; counting a finite set is.                           *)

\* Sets of indices.
LEMMA IndexSetFinite ==
  ASSUME NEW n \in Nat, NEW D \in SUBSET (1 .. n)
  PROVE  /\ IsFiniteSet(D) /\ Cardinality(D) \in Nat
         /\ D \in SUBSET Nat /\ \A i \in D : i \in Nat /\ i \in 1 .. n
<1>1. IsFiniteSet(1 .. n)
  BY FS_Interval
<1>2. IsFiniteSet(D)
  BY <1>1, FS_Subset
<1> QED BY <1>2, FS_CardinalityType

\* An index counts for more than those before it, and for no more than all.
LEMMA RankGrows ==
  ASSUME NEW D \in SUBSET Nat, IsFiniteSet(D), NEW i \in D
  PROVE  /\ Cardinality(UpTo(D, i)) \in 1 .. Cardinality(D)
         /\ \A j \in D : j < i => Cardinality(UpTo(D, j)) < Cardinality(UpTo(D, i))
<1> \A j \in D : j \in Nat
  OBVIOUS
<1>1. \A j \in D : UpTo(D, j) \in SUBSET D /\ j \in UpTo(D, j)
  BY DEF UpTo
<1>2. \A j \in D : IsFiniteSet(UpTo(D, j)) /\ Cardinality(UpTo(D, j)) \in Nat
  BY <1>1, FS_Subset, FS_CardinalityType
<1>3. Cardinality(UpTo(D, i)) <= Cardinality(D) /\ Cardinality(D) \in Nat
  BY <1>1, FS_Subset, FS_CardinalityType
<1>4. Cardinality(UpTo(D, i)) # 0
  BY <1>1, <1>2, FS_EmptySet
<1>5. ASSUME NEW j \in D, j < i
      PROVE  Cardinality(UpTo(D, j)) < Cardinality(UpTo(D, i))
  <2> i \in Nat /\ j \in Nat
    OBVIOUS
  <2>1. UpTo(D, j) \subseteq UpTo(D, i) /\ i \notin UpTo(D, j)
    <3>1. ASSUME NEW k \in UpTo(D, j) PROVE k \in UpTo(D, i)
      <4>1. k \in D /\ k \in Nat /\ k <= j
        BY DEF UpTo
      <4> QED BY <1>5, <4>1 DEF UpTo
    <3>2. ~(i <= j)
      BY <1>5
    <3> QED BY <3>1, <3>2 DEF UpTo
  <2>2. UpTo(D, j) # UpTo(D, i)
    BY <2>1, <1>1
  <2>3. /\ Cardinality(UpTo(D, j)) <= Cardinality(UpTo(D, i))
        /\ Cardinality(UpTo(D, i)) # Cardinality(UpTo(D, j))
    BY <2>1, <2>2, <1>2, FS_Subset
  <2> QED BY <2>3, <1>2
<1> QED BY <1>2, <1>3, <1>4, <1>5

\* A sequence of indices in their order, with all of D, is what Nth counts.
LEMMA NthUnique ==
  ASSUME NEW D \in SUBSET Nat, NEW n \in Nat, NEW f \in [1 .. n -> D],
         \A k, l \in 1 .. n : k < l => f[k] < f[l],
         \A i \in D : \E k \in 1 .. n : f[k] = i
  PROVE  /\ IsFiniteSet(D) /\ Cardinality(D) = n
         /\ \A k \in 1 .. n : Nth(D, k) = f[k]
<1> /\ \A i \in D : i \in Nat
    /\ \A k \in 1 .. n : f[k] \in D
  OBVIOUS
<1>1. ASSUME NEW k \in 0 .. n
      PROVE  /\ IsFiniteSet({f[l] : l \in 1 .. k})
             /\ Cardinality({f[l] : l \in 1 .. k}) = k
  <2> DEFINE T == {f[l] : l \in 1 .. k}
             g == [l \in 1 .. k |-> f[l]]
  <2>1. g \in Bijection(1 .. k, T)
    <3>1. g \in [1 .. k -> T]
      OBVIOUS
    <3>2. \A a, b \in 1 .. k : g[a] = g[b] => a = b
      <4>1. ASSUME NEW a \in 1 .. k PROVE a \in 1 .. n /\ g[a] = f[a] /\ f[a] \in Nat
        <5>1. a \in 1 .. n
          OBVIOUS
        <5>2. f[a] \in D
          BY <5>1
        <5> QED BY <5>1, <5>2
      <4>2. ASSUME NEW a \in 1 .. k, NEW b \in 1 .. k, a < b PROVE g[a] # g[b]
        BY <4>1, <4>2
      <4>3. \A a, b \in 1 .. k : a = b \/ a < b \/ b < a
        OBVIOUS
      <4> QED BY <4>2, <4>3
    <3>3. \A t \in T : \E a \in 1 .. k : g[a] = t
      OBVIOUS
    <3> QED BY <3>1, <3>2, <3>3 DEF Bijection, Injection, Surjection, IsInjective
  <2>2. ExistsBijection(1 .. k, T)
    BY <2>1 DEF ExistsBijection
  <2> QED BY <2>2, FS_CountingElements, FS_NatBijection
<1>2. D = {f[l] : l \in 1 .. n}
  OBVIOUS
<1>3. IsFiniteSet(D) /\ Cardinality(D) = n
  <2>1. n \in 0 .. n
    OBVIOUS
  <2> QED BY <1>1, <1>2, <2>1
<1>4. ASSUME NEW k \in 1 .. n
      PROVE  Nth(D, k) = f[k]
  <2>1. UpTo(D, f[k]) = {f[l] : l \in 1 .. k}
    <3>1. ASSUME NEW l \in 1 .. n PROVE f[l] \in D /\ (f[l] <= f[k] <=> l <= k)
      <4>1. f[l] \in D /\ f[k] \in D
        OBVIOUS
      <4>2. f[l] \in Nat /\ f[k] \in Nat
        <5>1. \A i \in D : i \in Nat
          OBVIOUS
        <5> QED BY <4>1, <5>1
      <4>3. l < k \/ l = k \/ k < l
        OBVIOUS
      <4> QED BY <4>1, <4>2, <4>3
    <3>2. \A l \in 1 .. n : l <= k <=> l \in 1 .. k
      OBVIOUS
    <3>3. \A l \in 1 .. k : l \in 1 .. n
      OBVIOUS
    <3> QED BY <3>1, <3>2, <3>3, <1>2 DEF UpTo
  <2>2. Cardinality(UpTo(D, f[k])) = k /\ f[k] \in D
    <3>1. k \in 0 .. n
      OBVIOUS
    <3> QED BY <2>1, <1>1, <3>1
  <2>3. ASSUME NEW i \in D, Cardinality(UpTo(D, i)) = k
        PROVE  i = f[k]
    <3>1. i \in Nat /\ f[k] \in D /\ f[k] \in Nat
      OBVIOUS
    <3>2. \A a, b \in D : a < b => Cardinality(UpTo(D, a)) < Cardinality(UpTo(D, b))
      BY <1>3, RankGrows
    <3>3. ~(k < k)
      OBVIOUS
    <3>4. ~(i < f[k]) /\ ~(f[k] < i)
      BY <3>1, <3>2, <3>3, <2>2, <2>3
    <3> QED BY <3>1, <3>4
  <2> QED BY <2>2, <2>3 DEF Nth
<1> QED BY <1>3, <1>4

\* Nth runs through D in order.
LEMMA NthProperties ==
  ASSUME NEW D \in SUBSET Nat, IsFiniteSet(D)
  PROVE  /\ \A k \in 1 .. Cardinality(D) : Nth(D, k) \in D
         /\ \A k, l \in 1 .. Cardinality(D) : k < l => Nth(D, k) < Nth(D, l)
         /\ \A i \in D : \E k \in 1 .. Cardinality(D) : Nth(D, k) = i
<1> DEFINE c == Cardinality(D)
           rank == [i \in D |-> Cardinality(UpTo(D, i))]
<1>1. c \in Nat
  BY FS_CardinalityType
<1>2. rank \in [D -> 1 .. c]
  BY RankGrows
<1>3. \A i, j \in D : j < i => rank[j] < rank[i]
  BY RankGrows
<1>4. rank \in Injection(D, 1 .. c)
  <2>1. \A i, j \in D : rank[i] = rank[j] => i = j
    <3>1. \A i \in D : rank[i] \in Int /\ i \in Int
      BY <1>1, <1>2
    <3> HIDE DEF rank
    <3> QED BY <1>3, <3>1
  <2> HIDE DEF rank, c
  <2> QED BY <1>2, <2>1 DEF Injection, IsInjective
<1>5. rank \in Surjection(D, 1 .. c)
  <2>1. IsFiniteSet(1 .. c) /\ Cardinality(1 .. c) = c
    BY <1>1, FS_Interval
  <2> QED BY <1>4, <2>1, FS_Injection
<1>6. \A k \in 1 .. c : \E i \in D : rank[i] = k
  <2> HIDE DEF rank, c
  <2> QED BY <1>5 DEF Surjection
<1>7. ASSUME NEW k \in 1 .. c
      PROVE  Nth(D, k) \in D /\ rank[Nth(D, k)] = k
  <2>1. \E i \in D : Cardinality(UpTo(D, i)) = k
    BY <1>6
  <2>2. Nth(D, k) \in D /\ Cardinality(UpTo(D, Nth(D, k))) = k
    BY <2>1 DEF Nth
  <2> QED BY <2>2
<1>8. ASSUME NEW k \in 1 .. c, NEW l \in 1 .. c, k < l
      PROVE  Nth(D, k) < Nth(D, l)
  <2>1. /\ Nth(D, k) \in D /\ Nth(D, l) \in D
        /\ rank[Nth(D, k)] = k /\ rank[Nth(D, l)] = l
    BY <1>7
  <2>2. Nth(D, k) \in Int /\ Nth(D, l) \in Int
    <3>1. \A i \in D : i \in Int
      OBVIOUS
    <3> QED BY <2>1, <3>1
  <2> HIDE DEF rank, c
  <2> QED BY <1>3, <1>8, <2>1, <2>2
<1>9. ASSUME NEW i \in D
      PROVE  \E k \in 1 .. c : Nth(D, k) = i
  <2>1. rank[i] \in 1 .. c
    BY <1>2
  <2>2. Nth(D, rank[i]) \in D /\ rank[Nth(D, rank[i])] = rank[i]
    BY <1>7, <2>1
  <2> HIDE DEF rank, c
  <2>3. Nth(D, rank[i]) = i
    BY <1>4, <2>2 DEF Injection, IsInjective
  <2> QED BY <2>1, <2>3
<1> QED BY <1>7, <1>8, <1>9

\* A selection has the elements at its indices, and those of the sequence only.
LEMMA SelectProperties ==
  ASSUME NEW S, NEW s \in Seq(S), NEW D \in SUBSET (1 .. Len(s))
  PROVE  /\ Select(s, D) \in Seq(S)
         /\ Len(Select(s, D)) = Cardinality(D) /\ Cardinality(D) \in Nat
         /\ \A k \in 1 .. Cardinality(D) : Nth(D, k) \in D /\ Select(s, D)[k] = s[Nth(D, k)]
         /\ \A i \in D : \E k \in 1 .. Cardinality(D) : Select(s, D)[k] = s[i]
<1>1. Len(s) \in Nat /\ IsFiniteSet(D) /\ Cardinality(D) \in Nat /\ D \in SUBSET Nat
  BY IndexSetFinite
<1>2. /\ \A k \in 1 .. Cardinality(D) : Nth(D, k) \in D
      /\ \A i \in D : \E k \in 1 .. Cardinality(D) : Nth(D, k) = i
  BY <1>1, NthProperties
<1>3. \A k \in 1 .. Cardinality(D) : s[Nth(D, k)] \in S
  <2>1. \A i \in D : i \in 1 .. Len(s)
    OBVIOUS
  <2> QED BY <1>2, <2>1, ElementOfSeq
<1> QED BY <1>1, <1>2, <1>3 DEF Select

\* Two selections that go through the same elements in the same order are equal.
LEMMA SelectMatch ==
  ASSUME NEW S, NEW s \in Seq(S), NEW t \in Seq(S),
         NEW D \in SUBSET (1 .. Len(s)), NEW E \in SUBSET (1 .. Len(t)),
         NEW g \in [D -> E],
         \A i, j \in D : i < j => g[i] < g[j],
         \A j \in E : \E i \in D : g[i] = j,
         \A i \in D : s[i] = t[g[i]]
  PROVE  Select(s, D) = Select(t, E)
<1> DEFINE n == Cardinality(D)
           f == [k \in 1 .. n |-> g[Nth(D, k)]]
<1>1. IsFiniteSet(D) /\ n \in Nat /\ D \in SUBSET Nat /\ E \in SUBSET Nat
  <2>1. Len(s) \in Nat /\ Len(t) \in Nat
    BY LenProperties
  <2>2. IsFiniteSet(D) /\ n \in Nat /\ D \in SUBSET Nat
    BY <2>1, IndexSetFinite
  <2> QED BY <2>1, <2>2, IndexSetFinite
<1>2. /\ \A k \in 1 .. n : Nth(D, k) \in D
      /\ \A k, l \in 1 .. n : k < l => Nth(D, k) < Nth(D, l)
      /\ \A i \in D : \E k \in 1 .. n : Nth(D, k) = i
  BY <1>1, NthProperties
<1>3. f \in [1 .. n -> E]
  BY <1>2
<1> HIDE DEF n
<1>4. /\ \A k, l \in 1 .. n : k < l => f[k] < f[l]
      /\ \A j \in E : \E k \in 1 .. n : f[k] = j
  <2>1. \A k, l \in 1 .. n : k < l => g[Nth(D, k)] < g[Nth(D, l)]
    BY <1>2
  <2>2. ASSUME NEW j \in E PROVE \E k \in 1 .. n : f[k] = j
    <3>1. PICK i \in D : g[i] = j
      OBVIOUS
    <3>2. PICK k \in 1 .. n : Nth(D, k) = i
      BY <1>2
    <3> QED BY <3>1, <3>2
  <2> QED BY <2>1, <2>2
<1>5. Cardinality(E) = n /\ \A k \in 1 .. n : Nth(E, k) = f[k]
  <2> HIDE DEF f
  <2> QED BY ZenonT(60), <1>1, <1>3, <1>4, NthUnique
<1>6. ASSUME NEW k \in 1 .. n
      PROVE  s[Nth(D, k)] = t[Nth(E, k)]
  <2>1. Nth(D, k) \in D
    BY <1>2
  <2>2. Nth(E, k) = g[Nth(D, k)]
    BY <1>5
  <2> QED BY <2>1, <2>2
<1> QED BY <1>5, <1>6 DEF Select, n

LEMMA SelectNone == ASSUME NEW s PROVE Select(s, {}) = <<>>
  BY FS_EmptySet DEF Select

\* Everything is selected.
LEMMA SelectAll ==
  ASSUME NEW S, NEW s \in Seq(S)
  PROVE  Select(s, 1 .. Len(s)) = s
<1> DEFINE n == Len(s)
           f == [k \in 1 .. n |-> k]
<1>1. n \in Nat
  BY LenProperties
<1>2. Cardinality(1 .. n) = n /\ \A k \in 1 .. n : Nth(1 .. n, k) = f[k]
  <2> HIDE DEF n
  <2>1. 1 .. n \in SUBSET Nat /\ f \in [1 .. n -> 1 .. n]
    BY <1>1
  <2>2. /\ \A k, l \in 1 .. n : k < l => f[k] < f[l]
        /\ \A i \in 1 .. n : \E k \in 1 .. n : f[k] = i
    OBVIOUS
  <2> HIDE DEF f
  <2> QED BY <1>1, <2>1, <2>2, NthUnique
<1>3. s = [k \in 1 .. n |-> s[k]]
  BY LenProperties
<1> QED BY <1>2, <1>3 DEF Select

\* What the first part of a concatenation selects comes first.
LEMMA SelectConcat ==
  ASSUME NEW S, NEW s \in Seq(S), NEW t \in Seq(S),
         NEW D \in SUBSET (1 .. Len(s)), NEW E \in SUBSET (1 .. Len(t)),
         NEW F, \A i : i \in F <=> i \in D \/ \E j \in E : i = Len(s) + j
  PROVE  Select(s \o t, F) = Select(s, D) \o Select(t, E)
<1> DEFINE m == Cardinality(D)
           n == Cardinality(E)
           f == [k \in 1 .. m + n |-> IF k <= m THEN Nth(D, k) ELSE Len(s) + Nth(E, k - m)]
<1>0. Len(s) \in Nat /\ Len(t) \in Nat
  BY LenProperties
<1>1. /\ IsFiniteSet(D) /\ m \in Nat /\ D \in SUBSET Nat /\ Len(s) \in Nat
      /\ IsFiniteSet(E) /\ n \in Nat /\ E \in SUBSET Nat /\ Len(t) \in Nat
  <2>1. IsFiniteSet(D) /\ m \in Nat /\ D \in SUBSET Nat
    BY <1>0, IndexSetFinite
  <2> QED BY <1>0, <2>1, IndexSetFinite
<1>2. /\ \A k \in 1 .. m : Nth(D, k) \in D
      /\ \A k, l \in 1 .. m : k < l => Nth(D, k) < Nth(D, l)
      /\ \A i \in D : \E k \in 1 .. m : Nth(D, k) = i
  BY <1>1, NthProperties
<1>3. /\ \A k \in 1 .. n : Nth(E, k) \in E
      /\ \A k, l \in 1 .. n : k < l => Nth(E, k) < Nth(E, l)
      /\ \A i \in E : \E k \in 1 .. n : Nth(E, k) = i
  BY <1>1, NthProperties
<1> HIDE DEF m, n
<1>4. \A k \in 1 .. m + n : k > m => k - m \in 1 .. n
  BY <1>1
<1>5. f \in [1 .. m + n -> F]
  <2>1. \A k \in 1 .. m + n : k <= m => Nth(D, k) \in F
    BY <1>1, <1>2
  <2>2. \A k \in 1 .. m + n : ~(k <= m) => Len(s) + Nth(E, k - m) \in F
    <3>1. \A j \in E : Len(s) + j \in F
      OBVIOUS
    <3>2. \A k \in 1 .. m + n : ~(k <= m) => k > m
      BY <1>1
    <3> QED BY <1>3, <1>4, <3>1, <3>2
  <2> QED BY <2>1, <2>2
<1>6. ASSUME NEW k \in 1 .. m + n, NEW l \in 1 .. m + n, k < l
      PROVE  f[k] < f[l]
  <2>1. CASE l <= m
    BY <1>1, <1>2, <1>6, <2>1
  <2>2. CASE k <= m /\ l > m
    <3>1. Nth(D, k) \in D /\ Nth(E, l - m) \in E
      BY <1>1, <1>2, <1>3, <1>4, <2>2
    <3>2. Nth(D, k) \in 1 .. Len(s) /\ Nth(E, l - m) \in 1 .. Len(t)
      BY <3>1
    <3> QED BY <1>1, <2>2, <3>2
  <2>3. CASE k > m
    <3>1. k - m \in 1 .. n /\ l - m \in 1 .. n /\ k - m < l - m /\ l > m
      BY <1>1, <1>4, <1>6, <2>3
    <3>2. Nth(E, k - m) < Nth(E, l - m) /\ Nth(E, k - m) \in Nat /\ Nth(E, l - m) \in Nat
      BY <1>1, <1>3, <3>1
    <3> QED BY <1>1, <2>3, <3>1, <3>2
  <2> QED BY <1>1, <2>1, <2>2, <2>3
<1>7. ASSUME NEW i \in F
      PROVE  \E k \in 1 .. m + n : f[k] = i
  <2>1. CASE i \in D
    <3>1. PICK k \in 1 .. m : Nth(D, k) = i
      BY <1>2, <2>1
    <3> QED BY <1>1, <3>1
  <2>2. CASE \E j \in E : i = Len(s) + j
    <3>1. PICK j \in E : i = Len(s) + j
      BY <2>2
    <3>2. PICK l \in 1 .. n : Nth(E, l) = j
      BY <1>3
    <3>3. m + l \in 1 .. m + n /\ ~(m + l <= m) /\ (m + l) - m = l
      BY <1>1
    <3> QED BY <3>1, <3>2, <3>3
  <2> QED BY <2>1, <2>2
<1>8. F \in SUBSET Nat
  <2>1. \A j \in E : Len(s) + j \in Nat
    <3>1. \A j \in E : j \in Nat
      BY <1>1
    <3> QED BY <1>1, <3>1
  <2>2. \A j \in D : j \in Nat
    BY <1>1
  <2> QED BY <2>1, <2>2
<1>9. Cardinality(F) = m + n /\ \A k \in 1 .. m + n : Nth(F, k) = f[k]
  <2> HIDE DEF f
  <2>1. m + n \in Nat
    BY <1>1
  <2> QED BY <1>5, <1>6, <1>7, <1>8, <2>1, NthUnique
<1>10. /\ Select(s, D) \in Seq(S) /\ Len(Select(s, D)) = m
       /\ Select(t, E) \in Seq(S) /\ Len(Select(t, E)) = n
       /\ \A k \in 1 .. m : Select(s, D)[k] = s[Nth(D, k)]
       /\ \A k \in 1 .. n : Select(t, E)[k] = t[Nth(E, k)]
  BY SelectProperties DEF m, n
<1>11. Select(s \o t, F) = [k \in 1 .. m + n |-> (s \o t)[f[k]]]
  BY <1>9 DEF Select
<1>12. /\ s \o t \in Seq(S) /\ Len(s \o t) = Len(s) + Len(t)
       /\ \A i \in 1 .. Len(s) : (s \o t)[i] = s[i]
       /\ \A j \in 1 .. Len(t) : (s \o t)[Len(s) + j] = t[j]
  <2>1. \A i \in 1 .. Len(s) + Len(t) : (s \o t)[i] = IF i <= Len(s) THEN s[i] ELSE t[i - Len(s)]
    BY ConcatProperties
  <2>2. \A j \in 1 .. Len(t) : /\ Len(s) + j \in 1 .. Len(s) + Len(t)
                               /\ ~(Len(s) + j <= Len(s)) /\ (Len(s) + j) - Len(s) = j
    BY <1>0
  <2>3. \A i \in 1 .. Len(s) : i \in 1 .. Len(s) + Len(t) /\ i <= Len(s)
    BY <1>0
  <2>4. s \o t \in Seq(S) /\ Len(s \o t) = Len(s) + Len(t)
    BY ConcatProperties
  <2> QED BY <2>1, <2>2, <2>3, <2>4
<1> DEFINE u == Select(s, D)
           v == Select(t, E)
<1>13. /\ u \o v \in Seq(S) /\ Len(u \o v) = m + n
       /\ \A k \in 1 .. m + n : (u \o v)[k] = IF k <= m THEN u[k] ELSE v[k - m]
  <2> HIDE DEF u, v
  <2> QED BY <1>10, ConcatProperties DEF u, v
<1>14. Select(s \o t, F) \in Seq(S) /\ Len(Select(s \o t, F)) = m + n
  <2>1. F \in SUBSET (1 .. Len(s \o t))
    <3>1. \A j \in D : j \in 1 .. Len(s) + Len(t)
      BY <1>0
    <3>2. \A j \in E : Len(s) + j \in 1 .. Len(s) + Len(t)
      <4>1. \A j \in E : j \in 1 .. Len(t)
        OBVIOUS
      <4> QED BY <1>0, <4>1
    <3>3. \A i \in F : i \in D \/ \E j \in E : i = Len(s) + j
      OBVIOUS
    <3> QED BY <3>1, <3>2, <3>3, <1>12
  <2> DEFINE w == s \o t
  <2>2. w \in Seq(S) /\ F \in SUBSET (1 .. Len(w))
    BY <1>12, <2>1
  <2>3. Select(w, F) \in Seq(S) /\ Len(Select(w, F)) = Cardinality(F)
    <3> HIDE DEF w
    <3> QED BY <2>2, SelectProperties
  <2> QED BY <1>9, <2>3
<1>15. ASSUME NEW k \in 1 .. m + n
       PROVE  (s \o t)[f[k]] = (u \o v)[k]
  <2>1. CASE k <= m
    <3>1. k \in 1 .. m /\ f[k] = Nth(D, k) /\ Nth(D, k) \in 1 .. Len(s)
      <4>1. k \in 1 .. m
        BY <1>1, <2>1
      <4>2. Nth(D, k) \in D /\ \A i \in D : i \in 1 .. Len(s)
        BY <1>2, <4>1
      <4>3. Nth(D, k) \in 1 .. Len(s)
        BY <4>2
      <4> QED BY <2>1, <4>1, <4>3
    <3>2. (s \o t)[Nth(D, k)] = u[k]
      BY <1>10, <1>12, <3>1
    <3> HIDE DEF u, v, f
    <3> QED BY <1>13, <2>1, <3>1, <3>2
  <2>2. CASE k > m
    <3>1. /\ k - m \in 1 .. n /\ ~(k <= m) /\ f[k] = Len(s) + Nth(E, k - m)
      BY <1>1, <1>4, <2>2
    <3>2. Nth(E, k - m) \in 1 .. Len(t)
      BY <1>3, <3>1
    <3>3. (s \o t)[Len(s) + Nth(E, k - m)] = v[k - m]
      BY <1>10, <1>12, <3>1, <3>2
    <3> HIDE DEF u, v, f
    <3> QED BY <1>13, <3>1, <3>3
  <2>3. k <= m \/ k > m
    BY <1>1
  <2> HIDE DEF u, v, f
  <2> QED BY <2>1, <2>2, <2>3
<1>16. \A k \in 1 .. m + n : Select(s \o t, F)[k] = (u \o v)[k]
  BY <1>11, <1>15
<1> HIDE DEF u, v, f
<1>17. Select(s \o t, F) = u \o v
  BY <1>13, <1>14, <1>16, SeqEqual
<1> QED BY <1>17 DEF u, v

\* One more element is selected last, or not at all.
LEMMA SelectAppend ==
  ASSUME NEW S, NEW s \in Seq(S), NEW x \in S, NEW D \in SUBSET (1 .. Len(s))
  PROVE  /\ Select(Append(s, x), D) = Select(s, D)
         /\ Select(Append(s, x), D \cup {Len(s) + 1}) = Append(Select(s, D), x)
<1> DEFINE t == <<x>>
<1>1. t \in Seq(S) /\ Len(t) = 1 /\ Append(s, x) = s \o t
  OBVIOUS
<1>2. Select(s, D) \in Seq(S)
  BY SelectProperties
<1>3. Select(t, {}) = <<>> /\ Select(t, 1 .. Len(t)) = t
  BY <1>1, SelectNone, SelectAll
<1>4. 1 .. Len(t) = {1}
  BY <1>1
<1> HIDE DEF t
<1>5. Select(s \o t, D) = Select(s, D) \o Select(t, {})
  <2> DEFINE E == {}
  <2>1. /\ \A i : i \in D <=> i \in D \/ \E j \in E : i = Len(s) + j
        /\ E \in SUBSET (1 .. Len(t)) /\ t \in Seq(S)
    BY <1>1
  <2> HIDE DEF E
  <2>2. Select(s \o t, D) = Select(s, D) \o Select(t, E)
    BY SMTT(30), <2>1, SelectConcat
  <2> QED BY <2>2 DEF E
<1>6. Select(s \o t, D \cup {Len(s) + 1}) = Select(s, D) \o Select(t, 1 .. Len(t))
  <2> DEFINE E == 1 .. Len(t)
             F == D \cup {Len(s) + 1}
  <2>1. \A i : i \in F <=> i \in D \/ \E j \in E : i = Len(s) + j
    BY <1>4
  <2>2. E \in SUBSET (1 .. Len(t)) /\ t \in Seq(S)
    BY <1>1
  <2> HIDE DEF E, F
  <2>3. Select(s \o t, F) = Select(s, D) \o Select(t, E)
    BY ONLY <2>1, <2>2, s \in Seq(S), D \in SUBSET (1 .. Len(s)), SelectConcat
  <2> QED BY <2>3 DEF E, F
<1>7. Select(s, D) \o <<>> = Select(s, D)
  BY <1>2
<1>8. Select(s, D) \o t = Append(Select(s, D), x)
  BY <1>2 DEF t
<1> QED BY <1>1, <1>3, <1>5, <1>6, <1>7, <1>8

\* Selecting from what was selected is selecting once.
LEMMA SelectSelect ==
  ASSUME NEW S, NEW s \in Seq(S), NEW D \in SUBSET (1 .. Len(s)), NEW E \in SUBSET D
  PROVE  Select(Select(s, D), {k \in 1 .. Cardinality(D) : Nth(D, k) \in E}) = Select(s, E)
<1> DEFINE n == Cardinality(D)
           K == {k \in 1 .. n : Nth(D, k) \in E}
           g == [k \in K |-> Nth(D, k)]
<1>1. IsFiniteSet(D) /\ D \in SUBSET Nat /\ n \in Nat
  <2>1. Len(s) \in Nat
    OBVIOUS
  <2> QED
    BY <2>1, IndexSetFinite
<1>2. /\ Select(s, D) \in Seq(S) /\ Len(Select(s, D)) = n
      /\ \A k \in 1 .. n : Select(s, D)[k] = s[Nth(D, k)]
  BY SelectProperties
<1>3. /\ \A k, l \in 1 .. n : k < l => Nth(D, k) < Nth(D, l)
      /\ \A i \in D : \E k \in 1 .. n : Nth(D, k) = i
  BY <1>1, NthProperties
<1>4. K \in SUBSET (1 .. Len(Select(s, D))) /\ E \in SUBSET (1 .. Len(s))
  BY <1>2
<1>5. g \in [K -> E] /\ \A k \in K : g[k] = Nth(D, k) /\ k \in 1 .. n
  OBVIOUS
<1> HIDE DEF n, K, g
<1>6. \A k, l \in K : k < l => g[k] < g[l]
  BY <1>3, <1>5
<1>7. \A i \in E : \E k \in K : g[k] = i
  BY <1>3, <1>5 DEF K
<1>8. \A k \in K : Select(s, D)[k] = s[g[k]]
  BY <1>2, <1>5
<1>9. Select(Select(s, D), K) = Select(s, E)
  <2> DEFINE r == Select(s, D)
  <2>1. /\ r \in Seq(S) /\ K \in SUBSET (1 .. Len(r)) /\ E \in SUBSET (1 .. Len(s))
        /\ \A k \in K : r[k] = s[g[k]]
    BY <1>2, <1>4, <1>8
  <2> HIDE DEF r
  <2>2. Select(r, K) = Select(s, E)
    BY SMTT(30), <2>1, <1>5, <1>6, <1>7, SelectMatch
  <2> QED
    BY <2>2 DEF r
<1> QED
  BY <1>9 DEF K, n
=============================================================================
