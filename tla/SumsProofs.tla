----------------------------- MODULE SumsProofs -----------------------------
(***************************************************************************)
(* Facts the other proofs share. Of Sums: a sum over a finite set grows by *)
(* what is added to the set, and changes by what a summand does. Of finite *)
(* sets and sequences of numbers: a set is listed in ascending order, a    *)
(* set that is not empty has a least number, and what holds of 0 and of    *)
(* the next number holds up to a bound.                                    *)
(***************************************************************************)
EXTENDS Sums, Sequences, FiniteSetTheorems, SequenceTheorems, TLAPS

Some(s) == CHOOSE x \in s : TRUE
\* g sums f over the subsets of S, one element after the other.
Adds(g, f, S) ==
  g = [s \in SUBSET S |-> IF s = {} THEN 0 ELSE f[Some(s)] + g[s \ {Some(s)}]]

\* MapThenSumSet, in these words.
LEMMA SumIsChosen == ASSUME NEW f, NEW S PROVE SumOf(f, S) = (CHOOSE g : Adds(g, f, S))[S]
BY DEF SumOf, MapThenSumSet, MapThenFoldSet, Adds, Some

\* Of a set of subsets of a finite set, one has no other below it.
LEMMA LeastSubset ==
  ASSUME NEW S, IsFiniteSet(S), NEW T \in SUBSET SUBSET S, T # {}
  PROVE  \E s \in T : \A u \in T : u \subseteq s => u = s
<1> DEFINE R == StrictSubsetOrdering(S)
<1>1. IsWellFoundedOn(R, SUBSET S)
  BY FS_StrictSubsetOrderingWellFounded, FS_FiniteSubsetsOfFinite
<1> HIDE DEF R
<1>2. PICK s \in T : \A u \in T : ~(<<u, s>> \in R)
  BY <1>1, WFMin
<1>3. \A u \in T : u \subseteq s => u = s
  BY <1>2 DEF R, StrictSubsetOrdering
<1> QED
  BY <1>3

\* Two such functions agree on the sets they share, ...
LEMMA AddsOnce ==
  ASSUME NEW f, NEW g, NEW h, NEW u, NEW v, IsFiniteSet(u), Adds(g, f, u), Adds(h, f, v)
  PROVE  \A w \in SUBSET u : w \subseteq v => g[w] = h[w]
<1> DEFINE T == {w \in SUBSET u : w \subseteq v /\ g[w] # h[w]}
<1> SUFFICES ASSUME T # {} PROVE FALSE
  OBVIOUS
<1>0. T \in SUBSET SUBSET u
  OBVIOUS
<1>1. PICK w \in T : \A z \in T : z \subseteq w => z = w
  <2> HIDE DEF T
  <2> QED
    BY <1>0, LeastSubset
<1>2. w \in SUBSET u /\ w \in SUBSET v /\ g[w] # h[w]
  OBVIOUS
<1>3. /\ g[w] = IF w = {} THEN 0 ELSE f[Some(w)] + g[w \ {Some(w)}]
      /\ h[w] = IF w = {} THEN 0 ELSE f[Some(w)] + h[w \ {Some(w)}]
  BY <1>2 DEF Adds
<1>4. w # {}
  BY <1>2, <1>3
<1>5. Some(w) \in w
  BY <1>4 DEF Some
<1>6. g[w \ {Some(w)}] = h[w \ {Some(w)}]
  BY <1>1, <1>2, <1>5
<1> QED
  BY <1>2, <1>3, <1>4, <1>6

\* ... and there is one for every finite set, ...
LEMMA AddsExists == ASSUME NEW f, NEW S, IsFiniteSet(S) PROVE \E g : Adds(g, f, S)
<1> DEFINE Missing(u) == \A g : ~Adds(g, f, u)
           T == {u \in SUBSET S : Missing(u)}
<1> SUFFICES ASSUME T # {} PROVE FALSE
  OBVIOUS
<1>0. T \in SUBSET SUBSET S
  OBVIOUS
<1>1. PICK u \in T : \A z \in T : z \subseteq u => z = u
  <2> HIDE DEF T
  <2> QED
    BY <1>0, LeastSubset
<1> DEFINE On(v) == CHOOSE g : Adds(g, f, v)
           G == [v \in SUBSET u |-> IF v = {} THEN 0 ELSE f[Some(v)] + On(v \ {Some(v)})[v \ {Some(v)}]]
<1>2. \A v \in SUBSET u : v # u => Adds(On(v), f, v)
  BY <1>1
<1>3. u \in SUBSET S /\ Missing(u)
  OBVIOUS
<1> HIDE DEF On, Missing, T
<1>4. ASSUME NEW v \in SUBSET u, v # {} PROVE G[v] = f[Some(v)] + G[v \ {Some(v)}]
  <2> DEFINE w == v \ {Some(v)}
  <2>1. Some(v) \in v /\ w \in SUBSET u /\ w # u
    BY <1>4 DEF Some
  <2>2. G[v] = f[Some(v)] + On(w)[w]
    BY <1>4
  <2>3. On(w)[w] = G[w]
    <3>1. CASE w = {}
      <4>1. Adds(On(w), f, w)
        BY <1>2, <2>1
      <4>2. w \in SUBSET w
        OBVIOUS
      <4>3. On(w)[w] = IF w = {} THEN 0 ELSE f[Some(w)] + On(w)[w \ {Some(w)}]
        <5> HIDE DEF w
        <5> QED
          BY <4>1, <4>2 DEF Adds
      <4> HIDE DEF w
      <4> QED
        BY <2>1, <3>1, <4>3
    <3>2. CASE w # {}
      <4> DEFINE z == w \ {Some(w)}
      <4>1. Some(w) \in w /\ z \in SUBSET u /\ z # u /\ z \in SUBSET w /\ w \in SUBSET w
        BY <2>1, <3>2 DEF Some
      <4>2. Adds(On(w), f, w) /\ Adds(On(z), f, z)
        BY <1>2, <2>1, <4>1
      <4>3. IsFiniteSet(z)
        BY <1>3, <4>1, FS_Subset
      <4> HIDE DEF z
      <4>4. On(z)[z] = On(w)[z]
        BY <4>1, <4>2, <4>3, AddsOnce
      <4> HIDE DEF w
      <4>5. On(w)[w] = f[Some(w)] + On(w)[z]
        BY <3>2, <4>1, <4>2 DEF Adds, z
      <4>6. G[w] = f[Some(w)] + On(z)[z]
        BY <2>1, <3>2 DEF z
      <4> QED
        BY <4>4, <4>5, <4>6
    <3> QED
      BY <3>1, <3>2
  <2> QED
    BY <2>2, <2>3
<1>5. G[{}] = 0
  OBVIOUS
<1> DEFINE H == [v \in SUBSET u |-> IF v = {} THEN 0 ELSE f[Some(v)] + G[v \ {Some(v)}]]
<1>6. G = H
  <2>1. \A v \in SUBSET u : G[v] = H[v]
    <3> SUFFICES ASSUME NEW v \in SUBSET u PROVE G[v] = H[v]
      OBVIOUS
    <3>1. H[v] = IF v = {} THEN 0 ELSE f[Some(v)] + G[v \ {Some(v)}]
      <4> HIDE DEF G
      <4> QED
        OBVIOUS
    <3> HIDE DEF G, H
    <3> QED
      BY <1>4, <1>5, <3>1
  <2>2. DOMAIN G = SUBSET u /\ G = [v \in SUBSET u |-> G[v]]
    OBVIOUS
  <2>3. H = [v \in SUBSET u |-> H[v]]
    <3> HIDE DEF G
    <3> QED
      OBVIOUS
  <2> HIDE DEF G, H
  <2> QED
    BY <2>1, <2>2, <2>3
<1> HIDE DEF G
<1>7. Adds(G, f, u)
  BY <1>6 DEF Adds
<1> QED
  BY <1>3, <1>7 DEF Missing

\* ... so that the one chosen adds.
LEMMA SumAdds ==
  ASSUME NEW f, NEW S, IsFiniteSet(S)
  PROVE  Adds(CHOOSE g : Adds(g, f, S), f, S)
BY AddsExists

\* The sum of nothing.
LEMMA SumOfEmpty == \A f : SumOf(f, {}) = 0
<1> SUFFICES ASSUME NEW f PROVE SumOf(f, {}) = 0
  OBVIOUS
<1> DEFINE g == CHOOSE a : Adds(a, f, {})
<1>1. Adds(g, f, {})
  BY SumAdds, FS_EmptySet
<1>2. SumOf(f, {}) = g[{}]
  BY SumIsChosen
<1> HIDE DEF g
<1> QED
  BY <1>1, <1>2 DEF Adds

\* The element that a sum takes first.
LEMMA SumOfSome ==
  ASSUME NEW f, NEW S, IsFiniteSet(S), S # {}
  PROVE  Some(S) \in S /\ SumOf(f, S) = f[Some(S)] + SumOf(f, S \ {Some(S)})
<1> DEFINE R == S \ {Some(S)}
           g == CHOOSE a : Adds(a, f, S)
           h == CHOOSE a : Adds(a, f, R)
<1>1. Some(S) \in S
  BY DEF Some
<1>2. IsFiniteSet(R) /\ R \in SUBSET S /\ R \in SUBSET R
  BY FS_Subset
<1>3. Adds(g, f, S) /\ Adds(h, f, R)
  BY <1>2, SumAdds
<1>4. SumOf(f, S) = g[S] /\ SumOf(f, R) = h[R]
  BY SumIsChosen
<1> HIDE DEF g, h
<1>5. g[R] = h[R]
  <2> HIDE DEF R
  <2> QED
    BY <1>2, <1>3, AddsOnce
<1>6. g[S] = f[Some(S)] + g[R]
  BY <1>3 DEF Adds
<1> QED
  BY <1>1, <1>4, <1>5, <1>6

\* A sum of integers is one.
LEMMA SumOfInt ==
  ASSUME NEW f, NEW S, IsFiniteSet(S), \A x \in S : f[x] \in Int
  PROVE  SumOf(f, S) \in Int
<1> DEFINE T == {s \in SUBSET S : SumOf(f, s) \notin Int}
<1> SUFFICES ASSUME T # {} PROVE FALSE
  OBVIOUS
<1>0. T \in SUBSET SUBSET S
  OBVIOUS
<1>1. PICK s \in T : \A z \in T : z \subseteq s => z = s
  <2> HIDE DEF T
  <2> QED
    BY <1>0, LeastSubset
<1>2. s \in SUBSET S /\ SumOf(f, s) \notin Int /\ IsFiniteSet(s)
  BY FS_Subset
<1>3. s # {}
  BY <1>2, SumOfEmpty
<1>4. Some(s) \in s /\ SumOf(f, s) = f[Some(s)] + SumOf(f, s \ {Some(s)})
  BY <1>2, <1>3, SumOfSome
<1>5. SumOf(f, s \ {Some(s)}) \in Int
  BY <1>1, <1>2, <1>4
<1> QED
  BY <1>2, <1>4, <1>5

\* Any element can be taken from a sum.
LEMMA SumOfOne ==
  ASSUME NEW f, NEW S, IsFiniteSet(S), \A x \in S : f[x] \in Int
  PROVE  \A x \in S : SumOf(f, S) = f[x] + SumOf(f, S \ {x})
<1> DEFINE T == {s \in SUBSET S : \E x \in s : SumOf(f, s) # f[x] + SumOf(f, s \ {x})}
<1>0. T \in SUBSET SUBSET S
  OBVIOUS
<1>1. ASSUME T # {} PROVE FALSE
  <2>1. PICK s \in T : \A z \in T : z \subseteq s => z = s
    <3> HIDE DEF T
    <3> QED
      BY <1>0, <1>1, LeastSubset
  <2>2. s \in SUBSET S /\ IsFiniteSet(s)
    BY FS_Subset
  <2>3. PICK x \in s : SumOf(f, s) # f[x] + SumOf(f, s \ {x})
    OBVIOUS
  <2>4. \A z \in SUBSET S : z \subseteq s /\ z # s => \A y \in z : SumOf(f, z) = f[y] + SumOf(f, z \ {y})
    BY <2>1
  <2> HIDE DEF T
  <2> DEFINE y == Some(s)
             both == s \ {x, y}
  <2>5. y \in s /\ SumOf(f, s) = f[y] + SumOf(f, s \ {y})
    BY <2>2, SumOfSome
  <2> HIDE DEF y
  <2>6. y # x
    BY <2>3, <2>5
  <2>7. SumOf(f, s \ {y}) = f[x] + SumOf(f, both)
    <3>1. (s \ {y}) \ {x} = both
      OBVIOUS
    <3>2. s \ {y} \in SUBSET S /\ s \ {y} # s /\ x \in s \ {y}
      BY <2>2, <2>5, <2>6
    <3> QED
      BY <2>4, <3>1, <3>2
  <2>8. SumOf(f, s \ {x}) = f[y] + SumOf(f, both)
    <3>1. (s \ {x}) \ {y} = both
      OBVIOUS
    <3>2. s \ {x} \in SUBSET S /\ s \ {x} # s /\ y \in s \ {x}
      BY <2>2, <2>5, <2>6
    <3> QED
      BY <2>4, <3>1, <3>2
  <2>9. f[x] \in Int /\ f[y] \in Int /\ SumOf(f, both) \in Int
    <3>1. IsFiniteSet(both) /\ both \in SUBSET S
      BY <2>2, FS_Subset
    <3> HIDE DEF both
    <3> QED
      BY <2>2, <2>5, <3>1, SumOfInt
  <2> HIDE DEF both
  <2> QED
    BY <2>3, <2>5, <2>7, <2>8, <2>9
<1>2. S \notin T
  BY <1>1
<1> QED
  BY <1>2

\* A sum of one element more.
LEMMA SumOfMore ==
  ASSUME NEW f, NEW S, IsFiniteSet(S), NEW x, x \notin S, \A y \in S \cup {x} : f[y] \in Int
  PROVE  SumOf(f, S \cup {x}) = SumOf(f, S) + f[x]
<1>1. IsFiniteSet(S \cup {x}) /\ (S \cup {x}) \ {x} = S
  BY FS_AddElement
<1>2. SumOf(f, S \cup {x}) = f[x] + SumOf(f, S)
  BY <1>1, SumOfOne
<1>3. SumOf(f, S) \in Int /\ f[x] \in Int
  BY SumOfInt
<1> QED
  BY <1>2, <1>3

\* Functions that agree on a set have the same sum over it.
LEMMA SumOfSame ==
  ASSUME NEW f, NEW h, NEW S, IsFiniteSet(S), \A x \in S : f[x] = h[x]
  PROVE  SumOf(f, S) = SumOf(h, S)
<1> DEFINE T == {s \in SUBSET S : SumOf(f, s) # SumOf(h, s)}
<1> SUFFICES ASSUME T # {} PROVE FALSE
  OBVIOUS
<1>0. T \in SUBSET SUBSET S
  OBVIOUS
<1>1. PICK s \in T : \A z \in T : z \subseteq s => z = s
  <2> HIDE DEF T
  <2> QED
    BY <1>0, LeastSubset
<1>2. s \in SUBSET S /\ SumOf(f, s) # SumOf(h, s) /\ IsFiniteSet(s)
  BY FS_Subset
<1>3. s # {}
  BY <1>2, SumOfEmpty
<1>4. /\ Some(s) \in s /\ SumOf(f, s) = f[Some(s)] + SumOf(f, s \ {Some(s)})
      /\ SumOf(h, s) = h[Some(s)] + SumOf(h, s \ {Some(s)})
  BY <1>2, <1>3, SumOfSome
<1>5. SumOf(f, s \ {Some(s)}) = SumOf(h, s \ {Some(s)})
  BY <1>1, <1>2, <1>4
<1> QED
  BY <1>2, <1>4, <1>5

(* A sum changes by what one of its terms changes, of any finite set.      *)
THEOREM SumOfChanged ==
  ASSUME NEW f, NEW h, NEW S, IsFiniteSet(S), NEW x \in S, \A y \in S : f[y] \in Int /\ h[y] \in Int,
         \A y \in S \ {x} : h[y] = f[y]
  PROVE  SumOf(h, S) = SumOf(f, S) - f[x] + h[x]
<1>1. IsFiniteSet(S \ {x})
  BY FS_RemoveElement
<1>2. SumOf(f, S \ {x}) = SumOf(h, S \ {x}) /\ SumOf(f, S \ {x}) \in Int
  BY <1>1, SumOfSame, SumOfInt
<1>3. SumOf(f, S) = f[x] + SumOf(f, S \ {x}) /\ SumOf(h, S) = h[x] + SumOf(h, S \ {x})
  BY SumOfOne
<1>4. f[x] \in Int /\ h[x] \in Int
  OBVIOUS
<1> QED
  BY <1>2, <1>3, <1>4

-----------------------------------------------------------------------------
\* s lists the elements of S in ascending order, each of them once.
Ascends(s, S) == /\ s \in [1 .. Cardinality(S) -> S]
                 /\ \A i, j \in 1 .. Cardinality(S) : i < j => s[i] < s[j]

\* As many numbers of S are at most x.
UpTo(S, x) == {y \in S : y <= x}

\* Every finite set of numbers can be listed so: each by how many are before.
LEMMA AscendingExists ==
  ASSUME NEW S \in SUBSET Int, IsFiniteSet(S)
  PROVE  \E s : Ascends(s, S)
<1> DEFINE n == Cardinality(S)
           r == [x \in S |-> Cardinality(UpTo(S, x))]
<1>0. n \in Nat
  BY FS_CardinalityType
<1>1. ASSUME NEW x \in S PROVE r[x] \in 1 .. n
  <2>1. UpTo(S, x) \in SUBSET S /\ x \in UpTo(S, x)
    BY DEF UpTo
  <2>2. IsFiniteSet(UpTo(S, x)) /\ Cardinality(UpTo(S, x)) <= n
    BY <2>1, FS_Subset
  <2>3. Cardinality(UpTo(S, x)) \in Nat /\ Cardinality(UpTo(S, x)) # 0
    BY <2>1, <2>2, FS_CardinalityType, FS_EmptySet
  <2>4. r[x] = Cardinality(UpTo(S, x))
    OBVIOUS
  <2> QED
    BY <1>0, <2>2, <2>3, <2>4
<1>2. ASSUME NEW x \in S, NEW y \in S, x < y PROVE r[x] < r[y]
  <2>0. \A z \in S : z \in Int
    OBVIOUS
  <2>1. UpTo(S, y) \in SUBSET S /\ UpTo(S, x) \in SUBSET UpTo(S, y) /\ UpTo(S, x) # UpTo(S, y)
    <3>1. y \in UpTo(S, y) /\ y \notin UpTo(S, x)
      BY <1>2, <2>0 DEF UpTo
    <3>2. \A z \in UpTo(S, x) : z \in UpTo(S, y)
      BY <1>2, <2>0 DEF UpTo
    <3>3. UpTo(S, y) \in SUBSET S
      BY DEF UpTo
    <3> QED
      BY <3>1, <3>2, <3>3
  <2>2. IsFiniteSet(UpTo(S, y))
    BY <2>1, FS_Subset
  <2>3. Cardinality(UpTo(S, x)) <= Cardinality(UpTo(S, y)) /\ Cardinality(UpTo(S, x)) # Cardinality(UpTo(S, y))
    BY <2>1, <2>2, FS_Subset
  <2>4. r[x] = Cardinality(UpTo(S, x)) /\ r[y] = Cardinality(UpTo(S, y))
    OBVIOUS
  <2>5. r[x] \in Int /\ r[y] \in Int
    BY <1>0, <1>1
  <2> HIDE DEF r
  <2> QED
    BY <2>3, <2>4, <2>5
<1>3. r \in [S -> 1 .. n]
  BY <1>1
<1> HIDE DEF r
<1>4. r \in Injection(S, 1 .. n)
  <2>1. \A x, y \in S : r[x] = r[y] => x = y
    <3> SUFFICES ASSUME NEW x \in S, NEW y \in S, r[x] = r[y] PROVE x = y
      OBVIOUS
    <3>1. x \in Int /\ y \in Int /\ r[x] \in Int /\ r[y] \in Int
      BY <1>0, <1>1
    <3> QED
      BY <1>2, <3>1
  <2> QED
    BY <1>3, <2>1 DEF Injection, IsInjective
<1>5. IsFiniteSet(1 .. n) /\ Cardinality(1 .. n) = n
  BY <1>0, FS_Interval
<1>6. r \in Surjection(S, 1 .. n)
  BY <1>4, <1>5, FS_Injection
<1>7. \A i \in 1 .. n : \E x \in S : r[x] = i
  BY <1>6 DEF Surjection
<1> DEFINE s == [i \in 1 .. n |-> CHOOSE x \in S : r[x] = i]
<1>8. \A i \in 1 .. n : s[i] \in S /\ r[s[i]] = i
  BY <1>7
<1>9. s \in [1 .. n -> S]
  BY <1>7
<1> HIDE DEF s
<1>10. ASSUME NEW i \in 1 .. n, NEW j \in 1 .. n, i < j PROVE s[i] < s[j]
  <2>1. s[i] \in S /\ s[j] \in S /\ r[s[i]] = i /\ r[s[j]] = j /\ i \in Int /\ j \in Int
    BY <1>0, <1>8
  <2>2. s[i] \in Int /\ s[j] \in Int
    BY <2>1
  <2>3. ~(s[j] < s[i])
    <3>1. s[j] < s[i] => r[s[j]] < r[s[i]]
      BY <1>2, <2>1
    <3> QED
      BY <1>10, <2>1, <3>1
  <2>4. s[i] # s[j]
    BY <1>10, <2>1
  <2> QED
    BY <2>2, <2>3, <2>4
<1> QED
  BY <1>9, <1>10 DEF Ascends

\* What is listed so is the set: nothing is left out.
LEMMA AscendsAll ==
  ASSUME NEW S \in SUBSET Int, IsFiniteSet(S), NEW s, Ascends(s, S)
  PROVE  /\ Cardinality(S) \in Nat /\ s \in Seq(S) /\ Len(s) = Cardinality(S) /\ DOMAIN s = 1 .. Cardinality(S)
         /\ \A x \in S : \E i \in 1 .. Cardinality(S) : s[i] = x
         /\ \A i, j \in 1 .. Cardinality(S) : s[i] = s[j] => i = j
<1> DEFINE n == Cardinality(S)
<1>0. n \in Nat
  BY FS_CardinalityType
<1>1. s \in [1 .. n -> S]
  BY DEF Ascends
<1>2. s \in Seq(S) /\ Len(s) = n
  BY <1>0, <1>1, IsASeq
<1>3. \A i, j \in 1 .. n : s[i] = s[j] => i = j
  <2> SUFFICES ASSUME NEW i \in 1 .. n, NEW j \in 1 .. n, s[i] = s[j] PROVE i = j
    OBVIOUS
  <2>0. \A x \in S : x \in Int
    OBVIOUS
  <2>a. i \in Int /\ j \in Int
    BY <1>0
  <2>b. s[i] \in S
    BY <1>1
  <2>1. s[i] \in Int /\ i \in Int /\ j \in Int
    BY <2>0, <2>a, <2>b
  <2>2. ~(i < j) /\ ~(j < i)
    BY <2>1 DEF Ascends
  <2> QED
    BY <2>1, <2>2
<1>4. s \in Injection(1 .. n, S)
  BY <1>1, <1>3 DEF Injection, IsInjective
<1>5. Cardinality(1 .. n) = n
  BY <1>0, FS_Interval
<1>6. s \in Surjection(1 .. n, S)
  BY <1>4, <1>5, FS_Injection
<1> QED
  BY <1>0, <1>1, <1>2, <1>3, <1>6 DEF Surjection

\* Of a set of natural numbers, one is the least.
LEMMA LeastNumber ==
  ASSUME NEW T \in SUBSET Nat, T # {}
  PROVE  \E n \in T : \A m \in T : n <= m
<1>1. PICK x \in T : TRUE
  OBVIOUS
<1> DEFINE S == 0 .. x
           F == {UpTo(T, n) : n \in T \cap S}
<1>2. IsFiniteSet(S)
  <2>1. x \in Nat
    OBVIOUS
  <2>2. 0 \in Int /\ x \in Int
    BY <2>1
  <2>3. IsFiniteSet(0 .. x)
    BY <2>2, FS_Interval
  <2> QED
    BY <2>3
<1>3. F \in SUBSET SUBSET S /\ F # {}
  <2>1. ASSUME NEW n \in T \cap S PROVE UpTo(T, n) \in SUBSET S
    <3>1. n \in Nat /\ n <= x /\ x \in Nat
      OBVIOUS
    <3>2. \A y \in UpTo(T, n) : y \in Nat /\ y <= n
      BY DEF UpTo
    <3>3. \A y \in UpTo(T, n) : y \in S
      BY <3>1, <3>2
    <3> QED
      BY <3>3
  <2>2. x \in T \cap S
    OBVIOUS
  <2> HIDE DEF S
  <2> QED
    BY <2>1, <2>2
<1>4. PICK s \in F : \A u \in F : u \subseteq s => u = s
  <2> HIDE DEF F, S
  <2> QED
    BY <1>2, <1>3, LeastSubset
<1>5. PICK n \in T \cap S : s = UpTo(T, n)
  BY <1>4
<1>6. ASSUME NEW m \in T, m < n PROVE FALSE
  <2>0. m \in Nat /\ n \in Nat /\ n <= x /\ x \in Nat
    OBVIOUS
  <2>1. m \in S /\ n \in UpTo(T, n) /\ n \notin UpTo(T, m)
    BY <1>6, <2>0 DEF UpTo
  <2>2. UpTo(T, m) \subseteq UpTo(T, n)
    <3>1. \A y \in T : y <= m => y <= n
      BY <1>6, <2>0
    <3> QED
      BY <3>1 DEF UpTo
  <2>3. UpTo(T, m) \in F
    BY <2>1
  <2> HIDE DEF F
  <2> QED
    BY <1>4, <1>5, <2>1, <2>2, <2>3
<1>7. \A m \in T : n <= m
  BY <1>6
<1> QED
  BY <1>7

\* A set that holds 0, and the next number with each, holds them all.
LEMMA Induct ==
  ASSUME NEW N \in Nat, NEW S, 0 \in S, \A n \in 1 .. N : n - 1 \in S => n \in S
  PROVE  \A n \in 0 .. N : n \in S
<1> DEFINE T == {n \in 0 .. N : n \notin S}
<1> SUFFICES ASSUME T # {} PROVE FALSE
  OBVIOUS
<1>1. T \in SUBSET Nat
  OBVIOUS
<1>2. PICK n \in T : \A m \in T : n <= m
  <2> HIDE DEF T
  <2> QED
    BY <1>1, LeastNumber
<1>3. n \in 1 .. N /\ n \notin S /\ n - 1 \in 0 .. N
  OBVIOUS
<1>4. n - 1 \notin T
  BY <1>2, <1>3
<1> QED
  BY <1>3, <1>4
=============================================================================
