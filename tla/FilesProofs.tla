---------------------------- MODULE FilesProofs ----------------------------
(***************************************************************************)
(* Theorems about Records and about the components that MCFiles puts       *)
(* beside it, each about the specification of the component itself:        *)
(* MCFiles only gives their variables their names.                         *)
(***************************************************************************)
EXTENDS MCFiles, SequenceTheorems, FiniteSetTheorems, WellFoundedInduction, TLAPS

-----------------------------------------------------------------------------
(* Edition: pages and entries that are left out leave the others in order. *)

LEMMA LeastNumber ==
  ASSUME NEW S \in SUBSET Nat, S # {}
  PROVE  \E k \in S : \A j \in S : k <= j
<1>1. PICK k \in S : \A j \in S : ~(<<j, k>> \in OpToRel(<, Nat))
  BY NatLessThanWellFounded, WFMin
<1>2. ASSUME NEW j \in S, j < k PROVE FALSE
  <2>1. <<j, k>> \in Nat \X Nat /\ <<j, k>>[1] = j /\ <<j, k>>[2] = k
    OBVIOUS
  <2>2. <<j, k>> \in OpToRel(<, Nat)
    BY <1>2, <2>1, Zenon DEF OpToRel
  <2> QED
    BY <1>1, <2>2, Zenon
<1> QED
  BY <1>2

LEMMA ByNumbers ==
  ASSUME NEW n \in Nat, NEW T, 0 \in T, \A k \in 1..n : k - 1 \in T => k \in T
  PROVE  \A k \in 0..n : k \in T
<1> DEFINE left == (0..n) \ T
<1>1. SUFFICES ASSUME left # {} PROVE FALSE
  OBVIOUS
<1>2. left \in SUBSET Nat
  OBVIOUS
<1>3. PICK k \in left : \A j \in left : k <= j
  BY <1>1, <1>2, LeastNumber
<1>4. k \in 1..n /\ k - 1 \in 0..n /\ k - 1 \notin left
  BY <1>3
<1> QED
  BY <1>4

\* A sequence of the positions, each once, in order.
Lists(order, positions) ==
    /\ Len(order) \in Nat /\ order \in [1..Len(order) -> positions]
    /\ \A i, j \in 1..Len(order) : i < j => order[i] < order[j]
    /\ \A k \in positions : \E i \in 1..Len(order) : order[i] = k

LEMMA EditionCardinality == \A S : E!Cardinality(S) = Cardinality(S)
BY DEF E!Cardinality, Cardinality

LEMMA RankedLists ==
  ASSUME NEW n \in Nat, NEW K \in SUBSET (1..n)
  PROVE  Lists(E!Ranked(K), K)
<1> DEFINE upTo(k) == {j \in K : j <= k}
           size == Cardinality(K)
           rank == [k \in K |-> Cardinality(upTo(k))]
           order == E!Ranked(K)
<1>1. IsFiniteSet(K) /\ size \in Nat /\ K \subseteq Nat
  <2>1. IsFiniteSet(1..n)
    BY FS_Interval
  <2>2. IsFiniteSet(K)
    BY <2>1, FS_Subset
  <2> QED
    BY <2>2, FS_CardinalityType
<1>2. \A k \in K : IsFiniteSet(upTo(k)) /\ Cardinality(upTo(k)) \in Nat
  BY <1>1, FS_Subset, FS_CardinalityType
<1>3. ASSUME NEW j \in K, NEW k \in K, j < k PROVE rank[j] < rank[k]
  <2>1. upTo(j) \subseteq upTo(k) /\ k \in upTo(k) /\ k \notin upTo(j)
    <3>1. j \in Nat /\ k \in Nat /\ j <= k /\ ~(k <= j)
      BY <1>1, <1>3
    <3>2. \A i \in K : i \in Nat /\ (i <= j => i <= k)
      BY <1>1, <3>1
    <3>3. \A i \in upTo(j) : i \in K /\ i <= k
      BY <3>2
    <3>4. k \in upTo(k) /\ k \notin upTo(j)
      BY <3>1
    <3> QED
      BY <3>3, <3>4
  <2>2. Cardinality(upTo(j)) <= Cardinality(upTo(k)) /\ Cardinality(upTo(j)) # Cardinality(upTo(k))
    BY <1>2, <2>1, FS_Subset
  <2>3. rank[j] = Cardinality(upTo(j)) /\ rank[k] = Cardinality(upTo(k))
    OBVIOUS
  <2> HIDE DEF upTo, rank
  <2> QED
    BY <1>2, <2>2, <2>3
<1>4. \A k \in K : rank[k] \in 1..size
  <2> SUFFICES ASSUME NEW k \in K PROVE Cardinality(upTo(k)) \in 1..size
    OBVIOUS
  <2>1. upTo(k) \subseteq K /\ k \in upTo(k)
    BY <1>1
  <2>2. Cardinality(upTo(k)) <= size
    BY <1>1, <2>1, FS_Subset
  <2>3. Cardinality(upTo(k)) # 0
    BY <1>2, <2>1, FS_EmptySet
  <2> HIDE DEF upTo, size
  <2> QED
    BY <1>1, <1>2, <2>2, <2>3
<1>5. rank \in Injection(K, 1..size)
  <2>1. ASSUME NEW j \in K, NEW k \in K, j # k PROVE rank[j] # rank[k]
    <3>1. rank[j] \in Nat /\ rank[k] \in Nat /\ (j < k \/ k < j)
      BY <1>1, <1>2, <2>1
    <3>2. rank[j] < rank[k] \/ rank[k] < rank[j]
      BY <1>3, <3>1
    <3> HIDE DEF rank
    <3> QED
      BY <3>1, <3>2
  <2> QED
    BY <1>4, <2>1 DEF Injection, IsInjective
<1>6. rank \in Surjection(K, 1..size)
  <2>1. IsFiniteSet(1..size) /\ Cardinality(1..size) = size
    BY <1>1, FS_Interval
  <2> QED
    BY <1>5, <2>1, FS_Injection
<1>7. order = [i \in 1..size |-> CHOOSE k \in K : Cardinality(upTo(k)) = i]
  <2>1. order = [i \in 1..E!Cardinality(K) |-> CHOOSE k \in K : E!Cardinality(upTo(k)) = i]
    BY Zenon DEF E!Ranked
  <2>2. E!Cardinality(K) = size /\ \A k : E!Cardinality(upTo(k)) = Cardinality(upTo(k))
    BY EditionCardinality
  <2> HIDE DEF order, upTo, size
  <2>3. \A i : (CHOOSE k \in K : E!Cardinality(upTo(k)) = i) = CHOOSE k \in K : Cardinality(upTo(k)) = i
    BY <2>2
  <2> QED
    BY <2>1, <2>2, <2>3
<1>8. ASSUME NEW i \in 1..size PROVE order[i] \in K /\ rank[order[i]] = i
  <2>1. PICK l \in K : rank[l] = i
    BY <1>6 DEF Surjection
  <2> DEFINE j == CHOOSE k \in K : Cardinality(upTo(k)) = i
  <2>2. j \in K /\ Cardinality(upTo(j)) = i
    BY <2>1
  <2>3. order[i] = j
    BY <1>7
  <2> QED
    BY <2>2, <2>3
<1> HIDE DEF order, upTo
<1>9. Len(order) = size /\ order \in [1..size -> K]
  <2> DEFINE of(i) == CHOOSE k \in K : Cardinality(upTo(k)) = i
  <2>1. order = [i \in 1..size |-> of(i)]
    BY <1>7
  <2> HIDE DEF of, size
  <2>2. \A i \in 1..size : of(i) \in K
    BY <1>8, <2>1
  <2> QED
    BY <1>1, <2>1, <2>2
<1>10. ASSUME NEW i \in 1..size, NEW j \in 1..size, i < j PROVE order[i] < order[j]
  <2>1. order[i] \in K /\ order[j] \in K /\ rank[order[i]] = i /\ rank[order[j]] = j /\ i \in Nat /\ j \in Nat
    BY <1>1, <1>8
  <2>2. ~(order[j] < order[i]) /\ order[i] # order[j]
    <3>1. ~(j < i) /\ i # j
      BY <1>10, <2>1
    <3> HIDE DEF rank, size
    <3> QED
      BY <1>3, <2>1, <3>1
  <2>3. order[i] \in Nat /\ order[j] \in Nat
    BY <1>1, <2>1
  <2> HIDE DEF rank
  <2> QED
    BY <2>2, <2>3
<1>11. ASSUME NEW k \in K PROVE \E i \in 1..size : order[i] = k
  <2>1. rank[k] \in 1..size
    BY <1>4
  <2>2. order[rank[k]] \in K /\ rank[order[rank[k]]] = rank[k]
    BY <1>8, <2>1
  <2> HIDE DEF rank
  <2>3. order[rank[k]] = k
    BY <1>5, <2>2 DEF Injection, IsInjective
  <2> QED
    BY <2>1, <2>3
<1> HIDE DEF size, rank
<1> QED
  BY <1>1, <1>9, <1>10, <1>11 DEF Lists, order

\* There is one order only.
LEMMA ListedOnce ==
  ASSUME NEW K \in SUBSET Nat, NEW g, NEW h, Lists(g, K), Lists(h, K)
  PROVE  g = h
<1> DEFINE m == Len(g)
           n == Len(h)
<1>1. /\ m \in Nat /\ g \in [1..m -> K] /\ \A i, j \in 1..m : i < j => g[i] < g[j]
      /\ \A k \in K : \E i \in 1..m : g[i] = k
  BY DEF Lists
<1>2. /\ n \in Nat /\ h \in [1..n -> K] /\ \A i, j \in 1..n : i < j => h[i] < h[j]
      /\ \A k \in K : \E i \in 1..n : h[i] = k
  BY DEF Lists
<1> HIDE DEF m, n
<1> DEFINE differ == {i \in 1..m : i \in 1..n /\ g[i] # h[i]}
<1>3. differ = {}
  <2> SUFFICES ASSUME differ # {} PROVE FALSE
    OBVIOUS
  <2>1. differ \in SUBSET Nat
    OBVIOUS
  <2>2. PICK i \in differ : \A j \in differ : i <= j
    BY <2>1, LeastNumber
  <2>3. i \in 1..m /\ i \in 1..n /\ g[i] # h[i] /\ g[i] \in K /\ h[i] \in K /\ i \in Nat
    BY <1>1, <1>2, <2>2
  <2>4. PICK j \in 1..n : h[j] = g[i]
    BY <1>2, <2>3
  <2>5. PICK k \in 1..m : g[k] = h[i]
    BY <1>1, <2>3
  <2>6. ~(j < i)
    <3> SUFFICES ASSUME j < i PROVE FALSE
      OBVIOUS
    <3>1. j \in 1..m /\ j \in 1..n /\ ~(i <= j)
      BY <1>1, <1>2, <2>3, <2>4
    <3>2. g[j] = h[j]
      BY <2>2, <3>1
    <3>3. g[j] < g[i] /\ g[j] \in Nat /\ g[i] \in Nat
      BY <1>1, <2>3, <3>1
    <3> QED
      BY <2>4, <3>2, <3>3
  <2>7. ~(k < i)
    <3> SUFFICES ASSUME k < i PROVE FALSE
      OBVIOUS
    <3>1. k \in 1..m /\ k \in 1..n /\ ~(i <= k)
      BY <1>1, <1>2, <2>3, <2>5
    <3>2. g[k] = h[k]
      BY <2>2, <3>1
    <3>3. h[k] < h[i] /\ h[k] \in Nat /\ h[i] \in Nat
      BY <1>2, <2>3, <3>1
    <3> QED
      BY <2>5, <3>2, <3>3
  <2>8. j # i /\ k # i
    BY <2>3, <2>4, <2>5
  <2>9. i < j /\ i < k
    BY <1>1, <1>2, <2>3, <2>6, <2>7, <2>8
  <2>10. h[i] < h[j] /\ g[i] < g[k]
    BY <1>1, <1>2, <2>3, <2>9
  <2>11. g[i] \in Nat /\ h[i] \in Nat /\ h[i] < g[i] /\ g[i] < h[i]
    BY <2>3, <2>4, <2>5, <2>10
  <2> QED
    BY <2>11
<1>4. ASSUME m < n PROVE FALSE
  <2>1. m + 1 \in 1..n /\ h[m + 1] \in K
    BY <1>1, <1>2, <1>4
  <2>2. PICK i \in 1..m : g[i] = h[m + 1]
    BY <1>1, <2>1
  <2>3. i \in 1..n /\ i < m + 1
    BY <1>1, <1>2, <1>4
  <2>4. h[i] < h[m + 1] /\ h[i] \in Nat
    BY <1>2, <2>1, <2>3
  <2>5. g[i] = h[i]
    BY <1>3, <2>3
  <2> QED
    BY <2>2, <2>4, <2>5
<1>5. ASSUME n < m PROVE FALSE
  <2>1. n + 1 \in 1..m /\ g[n + 1] \in K
    BY <1>1, <1>2, <1>5
  <2>2. PICK i \in 1..n : h[i] = g[n + 1]
    BY <1>2, <2>1
  <2>3. i \in 1..m /\ i < n + 1
    BY <1>1, <1>2, <1>5
  <2>4. g[i] < g[n + 1] /\ g[i] \in Nat
    BY <1>1, <2>1, <2>3
  <2>5. g[i] = h[i]
    BY <1>3, <2>3
  <2> QED
    BY <2>2, <2>4, <2>5
<1>6. m = n
  BY <1>1, <1>2, <1>4, <1>5
<1> QED
  BY <1>1, <1>2, <1>3, <1>6

LEMMA SeqByIndex ==
  ASSUME NEW T, NEW s \in Seq(T)
  PROVE  /\ Len(s) \in Nat /\ DOMAIN s = 1..Len(s) /\ s \in [1..Len(s) -> T]
         /\ s = [i \in 1..Len(s) |-> s[i]]
OBVIOUS

Along(s, order) == [i \in 1..Len(order) |-> s[order[i]]]

LEMMA OnlyBy ==
  ASSUME NEW n \in Nat, NEW K \in SUBSET (1..n), NEW g, Lists(g, K), NEW s
  PROVE  E!Only(s, K) = Along(s, g)
<1>1. K \in SUBSET Nat
  OBVIOUS
<1>2. E!Ranked(K) = g
  BY <1>1, RankedLists, ListedOnce
<1>3. DOMAIN g = 1..Len(g)
  BY DEF Lists
<1> QED
  BY <1>2, <1>3 DEF E!Only, Along

LEMMA OnlyTyped ==
  ASSUME NEW T, NEW s \in Seq(T), NEW K \in SUBSET DOMAIN s
  PROVE  \E g : /\ Lists(g, K) /\ E!Only(s, K) = Along(s, g)
                /\ E!Only(s, K) \in Seq(T) /\ Len(E!Only(s, K)) = Len(g)
<1>1. Len(s) \in Nat /\ DOMAIN s = 1..Len(s) /\ \A k \in K : s[k] \in T
  OBVIOUS
<1> DEFINE g == E!Ranked(K)
<1>2. Lists(g, K)
  BY <1>1, RankedLists
<1>3. E!Only(s, K) = Along(s, g)
  <2> HIDE DEF g
  <2> QED
    BY <1>1, <1>2, OnlyBy
<1> HIDE DEF g
<1>4. Len(g) \in Nat /\ \A i \in 1..Len(g) : g[i] \in K
  BY <1>2 DEF Lists
<1>5. E!Only(s, K) \in [1..Len(g) -> T]
  BY <1>1, <1>3, <1>4 DEF Along
<1>6. E!Only(s, K) \in Seq(T) /\ Len(E!Only(s, K)) = Len(g)
  BY <1>4, <1>5
<1> QED
  BY <1>2, <1>3, <1>6

LEMMA OnlyAll ==
  ASSUME NEW T, NEW s \in Seq(T)
  PROVE  E!Only(s, DOMAIN s) = s
<1> DEFINE n == Len(s)
           g == [i \in 1..n |-> i]
<1>1. n \in Nat /\ DOMAIN s = 1..n /\ s = [i \in 1..n |-> s[i]]
  OBVIOUS
<1> HIDE DEF n
<1>2. g \in [1..n -> 1..n] /\ Len(g) = n /\ \A i \in 1..n : g[i] = i
  BY <1>1
<1> HIDE DEF g
<1>3. Lists(g, 1..n)
  BY <1>1, <1>2 DEF Lists
<1>4. E!Only(s, 1..n) = Along(s, g)
  BY <1>1, <1>3, OnlyBy
<1> QED
  BY <1>1, <1>2, <1>4 DEF Along

LEMMA OnlyNone == \A s : E!Only(s, {}) = <<>>
<1> SUFFICES ASSUME NEW s PROVE E!Only(s, {}) = <<>>
  OBVIOUS
<1> DEFINE g == [i \in 1..0 |-> i]
<1>1. g \in [1..0 -> {}] /\ Len(g) = 0
  OBVIOUS
<1> HIDE DEF g
<1>2. Lists(g, {})
  BY <1>1 DEF Lists
<1>3. E!Only(s, {}) = Along(s, g)
  <2>1. {} \in SUBSET (1..0) /\ 0 \in Nat
    OBVIOUS
  <2> QED
    BY <1>2, <2>1, OnlyBy
<1> QED
  BY <1>1, <1>3 DEF Along

After(t, n, positions) == {k \in DOMAIN t : n + k \in positions}

LEMMA OnlyJoin ==
  ASSUME NEW T, NEW s \in Seq(T), NEW t \in Seq(T), NEW K \in SUBSET (1..(Len(s) + Len(t)))
  PROVE  E!Only(s \o t, K) = E!Only(s, K \cap DOMAIN s)
                               \o E!Only(t, After(t, Len(s), K))
<1> DEFINE m == Len(s)
           n == Len(t)
           A == K \cap DOMAIN s
           B == After(t, m, K)
<1>1. m \in Nat /\ n \in Nat /\ DOMAIN s = 1..m /\ DOMAIN t = 1..n
  OBVIOUS
<1>2. PICK g : /\ Lists(g, A) /\ E!Only(s, A) = Along(s, g)
               /\ E!Only(s, A) \in Seq(T) /\ Len(E!Only(s, A)) = Len(g)
  BY OnlyTyped
<1>3. PICK h : /\ Lists(h, B) /\ E!Only(t, B) = Along(t, h)
               /\ E!Only(t, B) \in Seq(T) /\ Len(E!Only(t, B)) = Len(h)
  BY OnlyTyped DEF After
<1> DEFINE a == Len(g)
           b == Len(h)
           l == [i \in 1..(a + b) |-> IF i <= a THEN g[i] ELSE m + h[i - a]]
<1>4. /\ a \in Nat /\ g \in [1..a -> A] /\ \A i, j \in 1..a : i < j => g[i] < g[j]
      /\ \A k \in A : \E i \in 1..a : g[i] = k
  BY <1>2 DEF Lists
<1>5. /\ b \in Nat /\ h \in [1..b -> B] /\ \A i, j \in 1..b : i < j => h[i] < h[j]
      /\ \A k \in B : \E i \in 1..b : h[i] = k
  BY <1>3 DEF Lists
<1>6. /\ \A k \in A : k \in K /\ k \in 1..m
      /\ \A k \in B : k \in 1..n /\ m + k \in K
      /\ \A k \in K : k \in Nat /\ (k <= m => k \in A) /\ (k > m => k - m \in B)
  <2> USE DEF After
  <2>1. \A k \in K : k \in 1..(m + n)
    OBVIOUS
  <2>2. ASSUME NEW k \in K, k > m PROVE k - m \in B
    <3>1. k - m \in 1..n /\ m + (k - m) = k
      BY <1>1, <2>1, <2>2
    <3> HIDE DEF m
    <3> QED
      BY <1>1, <3>1
  <2>3. ASSUME NEW k \in K, k <= m PROVE k \in A
    BY <1>1, <2>1, <2>3
  <2> QED
    BY <1>1, <2>1, <2>2, <2>3
<1> HIDE DEF m, n, A, B, a, b
<1>7. \A i \in 1..(a + b) : \/ i \in 1..a /\ i <= a /\ l[i] = g[i]
                            \/ i - a \in 1..b /\ ~(i <= a) /\ l[i] = m + h[i - a]
  BY <1>4, <1>5
<1>8. \A i \in 1..(a + b) : l[i] \in K
  BY <1>4, <1>5, <1>6, <1>7
<1>9. Len(l) = a + b /\ l \in [1..(a + b) -> K]
  <2>1. a + b \in Nat
    BY <1>4, <1>5
  <2> DEFINE c == a + b
  <2>2. l \in [1..c -> K]
    BY <1>8
  <2> HIDE DEF c, l
  <2> QED
    BY <2>1, <2>2 DEF c
<1> HIDE DEF l
<1>10. ASSUME NEW i \in 1..(a + b), NEW j \in 1..(a + b), i < j PROVE l[i] < l[j]
  <2>1. i \in Nat /\ j \in Nat
    BY <1>4, <1>5
  <2>2. CASE j <= a
    BY <1>4, <1>7, <1>10, <2>1, <2>2
  <2>3. CASE ~(i <= a)
    <3>1. /\ i - a \in 1..b /\ l[i] = m + h[i - a] /\ j - a \in 1..b /\ l[j] = m + h[j - a]
          /\ i - a < j - a
      BY <1>4, <1>7, <1>10, <2>1, <2>3
    <3>2. h[i - a] < h[j - a] /\ h[i - a] \in Nat /\ h[j - a] \in Nat
      BY <1>1, <1>5, <1>6, <3>1
    <3> QED
      BY <1>1, <3>1, <3>2
  <2>4. CASE i <= a /\ ~(j <= a)
    <3>1. i \in 1..a /\ l[i] = g[i] /\ j - a \in 1..b /\ l[j] = m + h[j - a]
      BY <1>7, <2>4
    <3>2. g[i] \in 1..m /\ h[j - a] \in 1..n
      BY <1>4, <1>5, <1>6, <3>1
    <3> QED
      BY <1>1, <3>1, <3>2
  <2> QED
    BY <2>2, <2>3, <2>4
<1>11. ASSUME NEW k \in K PROVE \E i \in 1..(a + b) : l[i] = k
  <2>1. CASE k <= m
    <3>1. PICK i \in 1..a : g[i] = k
      BY <1>4, <1>6, <2>1
    <3>2. i \in 1..(a + b) /\ i <= a
      BY <1>4, <1>5
    <3> QED
      BY <1>7, <1>4, <3>1, <3>2
  <2>2. CASE k > m
    <3>1. PICK i \in 1..b : h[i] = k - m
      BY <1>5, <1>6, <2>2
    <3>2. a + i \in 1..(a + b) /\ ~(a + i <= a) /\ (a + i) - a = i
      BY <1>4, <1>5
    <3>3. l[a + i] = m + (k - m)
      BY <1>7, <3>1, <3>2
    <3> QED
      BY <1>1, <1>6, <3>2, <3>3
  <2> QED
    BY <1>1, <1>6, <2>1, <2>2
<1>12. Lists(l, K)
  <2>1. Len(l) \in Nat
    BY <1>4, <1>5, <1>9
  <2> QED
    BY <1>9, <1>10, <1>11, <2>1 DEF Lists
<1>13. m + n \in Nat /\ K \in SUBSET (1..(m + n))
  BY <1>1 DEF m, n
<1>14. E!Only(s \o t, K) = [i \in 1..(a + b) |-> (s \o t)[l[i]]]
  <2>1. E!Only(s \o t, K) = Along(s \o t, l)
    BY <1>12, <1>13, OnlyBy
  <2> QED
    BY <1>9, <2>1 DEF Along
<1> DEFINE left == E!Only(s, A)
           right == E!Only(t, B)
<1>15. /\ left \in Seq(T) /\ Len(left) = a /\ left = [i \in 1..a |-> s[g[i]]]
       /\ right \in Seq(T) /\ Len(right) = b /\ right = [i \in 1..b |-> t[h[i]]]
  BY <1>2, <1>3 DEF a, b, Along
<1> HIDE DEF left, right
<1>16. ASSUME NEW i \in 1..(a + b) PROVE (s \o t)[l[i]] = (left \o right)[i]
  <2>1. \A k \in 1..(m + n) : (s \o t)[k] = IF k <= m THEN s[k] ELSE t[k - m]
    BY ConcatProperties DEF m, n
  <2>2. \A k \in 1..(a + b) : (left \o right)[k] = IF k <= a THEN left[k] ELSE right[k - a]
    BY <1>15, ConcatProperties
  <2>3. CASE i <= a
    <3>1. i \in 1..a /\ l[i] = g[i] /\ g[i] \in 1..m
      BY <1>4, <1>6, <1>7, <2>3
    <3>2. l[i] \in 1..(m + n) /\ l[i] <= m
      BY <1>1, <3>1
    <3> QED
      BY <1>15, <2>1, <2>2, <2>3, <3>1, <3>2
  <2>4. CASE ~(i <= a)
    <3>1. i - a \in 1..b /\ l[i] = m + h[i - a] /\ h[i - a] \in 1..n
      BY <1>5, <1>6, <1>7, <2>4
    <3>2. l[i] \in 1..(m + n) /\ ~(l[i] <= m) /\ l[i] - m = h[i - a]
      BY <1>1, <3>1
    <3>3. (s \o t)[l[i]] = t[h[i - a]]
      BY <2>1, <3>2
    <3>4. (left \o right)[i] = right[i - a]
      BY <2>2, <2>4
    <3> QED
      BY <1>15, <3>1, <3>3, <3>4
  <2> QED
    BY <2>3, <2>4
<1>17. left \o right = [i \in 1..(a + b) |-> (left \o right)[i]]
  <2>1. left \o right \in Seq(T) /\ Len(left \o right) = a + b
    BY <1>15, ConcatProperties
  <2> QED
    BY <2>1, SeqByIndex
<1>18. E!Only(s \o t, K) = left \o right
  BY <1>14, <1>16, <1>17
<1> QED
  BY <1>18 DEF left, right, A, B, m

\* What is left of a sequence, its items told by their marks.
Staying(s, marks, gone) == {k \in DOMAIN s : marks[k] \notin gone}
Left(s, marks, gone) == E!Only(s, Staying(s, marks, gone))
Alike(s, marks) == DOMAIN s = DOMAIN marks /\ Len(s) = Len(marks)

LEMMA LeftTyped ==
  ASSUME NEW T, NEW s \in Seq(T), NEW marks, NEW gone
  PROVE  \E g : /\ Lists(g, Staying(s, marks, gone))
                /\ Left(s, marks, gone) = Along(s, g)
                /\ Left(s, marks, gone) \in Seq(T) /\ Len(Left(s, marks, gone)) = Len(g)
<1> DEFINE K == Staying(s, marks, gone)
<1>1. K \in SUBSET DOMAIN s
  BY DEF Staying
<1> HIDE DEF K
<1>2. \E g : /\ Lists(g, K) /\ E!Only(s, K) = Along(s, g)
             /\ E!Only(s, K) \in Seq(T) /\ Len(E!Only(s, K)) = Len(g)
  BY <1>1, OnlyTyped
<1> QED
  BY <1>2 DEF K, Left

LEMMA LeftAll ==
  ASSUME NEW T, NEW s \in Seq(T), NEW marks, NEW gone, \A k \in DOMAIN s : marks[k] \notin gone
  PROVE  Left(s, marks, gone) = s
<1>1. Staying(s, marks, gone) = DOMAIN s
  BY DEF Staying
<1> QED
  BY <1>1, OnlyAll DEF Left

LEMMA LeftNone ==
  ASSUME NEW s, NEW marks, NEW gone, \A k \in DOMAIN s : marks[k] \in gone
  PROVE  Left(s, marks, gone) = <<>>
<1>1. Staying(s, marks, gone) = {}
  BY DEF Staying
<1> QED
  BY <1>1, OnlyNone DEF Left

Then(s, t) == s \o t

LEMMA LeftJoin ==
  ASSUME NEW T, NEW s \in Seq(T), NEW t \in Seq(T), NEW gone,
         NEW U, NEW a \in Seq(U), NEW b \in Seq(U), Alike(s, a), Alike(t, b)
  PROVE  Left(Then(s, t), Then(a, b), gone) = Then(Left(s, a, gone), Left(t, b, gone))
<1> DEFINE m == Len(s)
           n == Len(t)
           K == {k \in DOMAIN (s \o t) : (a \o b)[k] \notin gone}
<1>1. /\ m \in Nat /\ n \in Nat /\ DOMAIN s = 1..m /\ DOMAIN t = 1..n /\ Len(a) = m /\ Len(b) = n
      /\ DOMAIN (s \o t) = 1..(m + n)
  <2>1. s \o t \in Seq(T) /\ Len(s \o t) = m + n
    BY ConcatProperties
  <2> QED
    BY <2>1, SeqByIndex DEF Alike
<1>2. \A k \in 1..(m + n) : (a \o b)[k] = IF k <= m THEN a[k] ELSE b[k - m]
  BY <1>1, ConcatProperties
<1> HIDE DEF m, n
<1>3. K = {k \in 1..(m + n) : (a \o b)[k] \notin gone} /\ K \in SUBSET (1..(m + n))
  BY <1>1
<1> HIDE DEF K
<1>4. K \cap DOMAIN s = {k \in DOMAIN s : a[k] \notin gone}
  <2>1. \A k \in 1..m : k \in 1..(m + n) /\ k <= m
    BY <1>1
  <2> QED
    BY <1>1, <1>2, <1>3, <2>1
<1>5. After(t, m, K) = {k \in DOMAIN t : b[k] \notin gone}
  <2>1. \A k \in 1..n : m + k \in 1..(m + n) /\ ~(m + k <= m) /\ (m + k) - m = k
    BY <1>1
  <2>2. \A k \in 1..n : (a \o b)[m + k] = b[k]
    BY <1>2, <2>1
  <2> QED
    BY <1>1, <1>3, <2>1, <2>2 DEF After
<1>6. E!Only(s \o t, K) = E!Only(s, K \cap DOMAIN s) \o E!Only(t, After(t, m, K))
  <2>1. K \in SUBSET (1..(Len(s) + Len(t)))
    BY <1>3 DEF m, n
  <2> QED
    BY <2>1, OnlyJoin DEF m
<1> QED
  BY <1>4, <1>5, <1>6 DEF Left, Staying, Then, K

\* What is left and then left again.
LEMMA LeftTwice ==
  ASSUME NEW T, NEW s \in Seq(T), NEW U, NEW marks \in Seq(U), Alike(s, marks), NEW out, NEW more
  PROVE  Left(Left(s, marks, out), Left(marks, marks, out), more) = Left(s, marks, out \cup more)
<1> DEFINE r == Left(s, marks, out)
           of == Left(marks, marks, out)
           K == Staying(s, marks, out)
           J == {i \in DOMAIN r : of[i] \notin more}
           both == {k \in DOMAIN s : marks[k] \notin out \cup more}
<1>1. /\ DOMAIN s = 1..Len(s) /\ Len(s) \in Nat /\ DOMAIN marks = DOMAIN s
      /\ K \in SUBSET DOMAIN s /\ K \in SUBSET Nat
  BY SeqByIndex DEF Alike, Staying
<1>2. PICK g : Lists(g, K) /\ r = Along(s, g) /\ r \in Seq(T) /\ Len(r) = Len(g)
  BY LeftTyped
<1>3. of = Along(marks, g)
  <2>1. PICK h : Lists(h, Staying(marks, marks, out)) /\ of = Along(marks, h)
    BY LeftTyped
  <2>2. Lists(h, K)
    BY <1>1, <2>1 DEF Staying
  <2>3. h = g
    <3> HIDE DEF K
    <3> QED
      BY <1>1, <1>2, <2>2, ListedOnce
  <2> QED
    BY <2>1, <2>3
<1> DEFINE a == Len(g)
<1>4. /\ a \in Nat /\ g \in [1..a -> K] /\ \A i, j \in 1..a : i < j => g[i] < g[j]
      /\ \A k \in K : \E i \in 1..a : g[i] = k
  BY <1>2 DEF Lists
<1>5. /\ \A i \in 1..a : r[i] = s[g[i]] /\ of[i] = marks[g[i]]
      /\ DOMAIN r = 1..a
  <2>1. \A i \in 1..a : Along(s, g)[i] = s[g[i]] /\ Along(marks, g)[i] = marks[g[i]]
    BY DEF Along
  <2>2. DOMAIN r = 1..a
    BY <1>2, SeqByIndex
  <2> HIDE DEF r, of, a
  <2> QED
    BY <1>2, <1>3, <2>1, <2>2
<1> HIDE DEF r, of, a
<1>6. J \in SUBSET DOMAIN r
  OBVIOUS
<1>7. PICK h : Lists(h, J) /\ E!Only(r, J) = Along(r, h)
  <2> HIDE DEF J
  <2> QED
    BY <1>2, <1>6, OnlyTyped
<1> DEFINE b == Len(h)
           l == [i \in 1..b |-> g[h[i]]]
<1>8. /\ b \in Nat /\ h \in [1..b -> J] /\ \A i, j \in 1..b : i < j => h[i] < h[j]
      /\ \A k \in J : \E i \in 1..b : h[i] = k
  BY <1>7 DEF Lists
<1> HIDE DEF b
<1>9. \A j \in J : j \in 1..a /\ g[j] \in K /\ g[j] \in both
  BY <1>1, <1>4, <1>5 DEF Staying
<1>10. \A k \in both : \E j \in J : g[j] = k
  <2> SUFFICES ASSUME NEW k \in both PROVE \E j \in J : g[j] = k
    OBVIOUS
  <2>1. k \in K /\ marks[k] \notin more
    BY DEF Staying
  <2>2. PICK i \in 1..a : g[i] = k
    BY <1>4, <2>1
  <2> QED
    BY <1>5, <2>1, <2>2
<1> HIDE DEF J, both, K
<1>11. l \in [1..b -> both] /\ Len(l) = b
  <2>1. l \in [1..b -> both]
    BY <1>8, <1>9
  <2> HIDE DEF l
  <2> QED
    BY <1>8, <2>1
<1>12. ASSUME NEW i \in 1..b, NEW j \in 1..b, i < j PROVE l[i] < l[j]
  <2>1. h[i] < h[j] /\ h[i] \in 1..a /\ h[j] \in 1..a
    BY <1>8, <1>9, <1>12
  <2> QED
    BY <1>4, <2>1
<1>13. ASSUME NEW k \in both PROVE \E i \in 1..b : l[i] = k
  BY <1>8, <1>10
<1>14. \A i \in 1..b : l[i] = g[h[i]]
  OBVIOUS
<1> HIDE DEF l
<1>15. Lists(l, both)
  BY <1>8, <1>11, <1>12, <1>13 DEF Lists
<1>16. E!Only(s, both) = Along(s, l)
  <2>1. both \in SUBSET (1..Len(s))
    BY <1>1 DEF both
  <2> QED
    BY <1>1, <1>15, <2>1, OnlyBy
<1>17. Along(r, h) = Along(s, l)
  <2>1. \A i \in 1..b : r[h[i]] = s[l[i]]
    BY <1>5, <1>8, <1>9, <1>14
  <2>2. Along(r, h) = [i \in 1..b |-> r[h[i]]] /\ Along(s, l) = [i \in 1..b |-> s[l[i]]]
    BY <1>11 DEF Along, b
  <2> QED
    BY <2>1, <2>2
<1> QED
  BY <1>7, <1>16, <1>17 DEF Left, Staying, J, both, r, of

\* The first one left, if it is not the first that goes.
LEMMA LeftFirst ==
  ASSUME NEW T, NEW s \in Seq(T), NEW marks, NEW gone, s # <<>>, marks[1] \notin gone
  PROVE  /\ Left(s, marks, gone) # <<>> /\ Left(s, marks, gone)[1] = s[1]
         /\ Head(Left(s, marks, gone)) = Head(s)
<1> DEFINE K == Staying(s, marks, gone)
<1>1. Len(s) \in Nat /\ DOMAIN s = 1..Len(s) /\ 1 \in DOMAIN s /\ Head(s) = s[1]
  OBVIOUS
<1>2. PICK g : /\ Lists(g, K) /\ Left(s, marks, gone) = Along(s, g)
               /\ Left(s, marks, gone) \in Seq(T) /\ Len(Left(s, marks, gone)) = Len(g)
  BY LeftTyped
<1>3. /\ Len(g) \in Nat /\ g \in [1..Len(g) -> K] /\ \A i, j \in 1..Len(g) : i < j => g[i] < g[j]
      /\ \A k \in K : \E i \in 1..Len(g) : g[i] = k
  BY <1>2 DEF Lists
<1>4. 1 \in K /\ \A k \in K : k \in 1..Len(s)
  BY <1>1 DEF Staying
<1> HIDE DEF K
<1>5. PICK i \in 1..Len(g) : g[i] = 1
  BY <1>3, <1>4
<1>6. i = 1
  <2> SUFFICES ASSUME i # 1 PROVE FALSE
    OBVIOUS
  <2>1. 1 \in 1..Len(g) /\ 1 < i
    BY <1>3
  <2>2. g[1] < 1 /\ g[1] \in 1..Len(s)
    BY <1>3, <1>4, <1>5, <2>1
  <2> QED
    BY <1>1, <2>2
<1>7. Len(g) # 0 /\ Along(s, g)[1] = s[1]
  BY <1>3, <1>5, <1>6 DEF Along
<1> DEFINE r == Left(s, marks, gone)
<1>8. r \in Seq(T) /\ Len(r) # 0 /\ r[1] = s[1]
  BY <1>2, <1>7
<1> HIDE DEF r
<1>9. r # <<>> /\ Head(r) = r[1]
  BY <1>8
<1> QED
  BY <1>1, <1>8, <1>9 DEF r

LEMMA ByPositions ==
  ASSUME NEW n \in Nat, NEW T, n > 0 => 1 \in T, \A k \in 2..n : k - 1 \in T => k \in T
  PROVE  \A k \in 1..n : k \in T
<1> DEFINE S == T \cup {0}
<1>1. ASSUME NEW k \in 1..n, k - 1 \in S PROVE k \in S
  <2>1. CASE k = 1
    BY <2>1
  <2>2. CASE k # 1
    <3>1. k \in 2..n /\ k - 1 # 0
      BY <2>2
    <3> QED
      BY <1>1, <3>1
  <2> QED
    BY <2>1, <2>2
<1>2. 0 \in S
  OBVIOUS
<1> HIDE DEF S
<1>3. \A k \in 0..n : k \in S
  BY <1>1, <1>2, ByNumbers
<1> QED
  BY <1>3 DEF S

\* Sequences that follow each other: f[k] is the first k of them.
Flat(f, n, parts) ==
    /\ DOMAIN f = 1..n /\ f[1] = parts[1]
    /\ \A k \in 2..n : f[k] = f[k - 1] \o parts[k]

LEMMA FlatTyped ==
  ASSUME NEW n \in Nat, NEW T, NEW parts \in [1..n -> Seq(T)], NEW f, Flat(f, n, parts)
  PROVE  \A k \in 1..n : f[k] \in Seq(T)
<1> DEFINE S == {k \in 1..n : f[k] \in Seq(T)}
<1>1. n > 0 => 1 \in S
  BY DEF Flat
<1>2. ASSUME NEW k \in 2..n, k - 1 \in S PROVE k \in S
  <2>0. k \in 1..n
    OBVIOUS
  <2>1. k \in 1..n /\ f[k] = f[k - 1] \o parts[k] /\ f[k - 1] \in Seq(T)
    BY <1>2, <2>0 DEF Flat
  <2>2. parts[k] \in Seq(T)
    BY <2>1
  <2>3. f[k - 1] \o parts[k] \in Seq(T)
    BY <2>1, <2>2, ConcatProperties
  <2> QED
    BY <2>1, <2>3
<1> HIDE DEF S
<1>3. \A k \in 1..n : k \in S
  BY <1>1, <1>2, ByPositions
<1> QED
  BY <1>3 DEF S

LEMMA Flattened ==
  ASSUME NEW n \in Nat \ {0}, NEW T, NEW parts \in [1..n -> Seq(T)]
  PROVE  /\ \E f : Flat(f, n, parts) /\ E!FlattenSeq(parts) = f[n]
         /\ E!FlattenSeq(parts) \in Seq(T)
<1> DEFINE S == {m \in 1..n : \E f : Flat(f, m, parts)}
<1>1. 1 \in S
  <2> DEFINE f == [k \in 1..1 |-> parts[1]]
  <2>1. Flat(f, 1, parts)
    BY DEF Flat
  <2> HIDE DEF f
  <2> QED
    BY <2>1
<1>2. ASSUME NEW m \in 2..n, m - 1 \in S PROVE m \in S
  <2>1. PICK f : Flat(f, m - 1, parts)
    BY <1>2
  <2> DEFINE v == f[m - 1] \o parts[m]
             g == [k \in 1..m |-> IF k = m THEN v ELSE f[k]]
  <2>2. m \in Nat /\ \A k \in 1..(m - 1) : k \in 1..m /\ k # m
    OBVIOUS
  <2>3. g[m] = v /\ \A k \in 1..(m - 1) : g[k] = f[k]
    <3> HIDE DEF v
    <3> QED
      BY <2>2
  <2>4. DOMAIN g = 1..m
    OBVIOUS
  <2> HIDE DEF g
  <2>5. 1 \in 1..(m - 1) /\ g[1] = parts[1]
    BY <2>1, <2>3 DEF Flat
  <2>6. ASSUME NEW k \in 2..m PROVE g[k] = g[k - 1] \o parts[k]
    <3>1. k - 1 \in 1..(m - 1) /\ g[k - 1] = f[k - 1]
      BY <2>3
    <3>2. CASE k = m
      BY <2>3, <3>1, <3>2
    <3>3. CASE k # m
      <4>1. k \in 1..(m - 1) /\ k \in 2..(m - 1)
        BY <3>3
      <4> QED
        BY <2>1, <2>3, <3>1, <4>1 DEF Flat
    <3> QED
      BY <3>2, <3>3
  <2>7. Flat(g, m, parts)
    BY <2>4, <2>5, <2>6 DEF Flat
  <2> QED
    BY <2>7
<1> HIDE DEF S
<1>3. n \in S
  <2>1. \A k \in 1..n : k \in S
    BY <1>1, <1>2, ByPositions
  <2> QED
    BY <2>1
<1>4. PICK f : Flat(f, n, parts)
  BY <1>3 DEF S
<1> DEFINE Step(h) == [i \in 1..Len(parts) |-> IF i = 1 THEN parts[i] ELSE h[i - 1] \o parts[i]]
           flat == CHOOSE h : h = Step(h)
           h == [k \in 1..n |-> f[k]]
<1>5. Len(parts) = n /\ n # 0
  OBVIOUS
<1>6. h = Step(h)
  <2>1. ASSUME NEW i \in 1..n PROVE h[i] = Step(h)[i]
    <3>1. CASE i = 1
      BY <1>4, <1>5, <3>1 DEF Flat
    <3>2. CASE i # 1
      <4>1. i \in 2..n /\ i - 1 \in 1..n
        BY <3>2
      <4>2. h[i] = f[i] /\ h[i - 1] = f[i - 1] /\ f[i] = f[i - 1] \o parts[i]
        BY <1>4, <4>1 DEF Flat
      <4> HIDE DEF h
      <4> QED
        BY <1>5, <3>2, <4>2
    <3> QED
      BY <3>1, <3>2
  <2>2. h = [i \in 1..n |-> h[i]] /\ Step(h) = [i \in 1..n |-> Step(h)[i]]
    BY <1>5
  <2> HIDE DEF h, Step
  <2> QED
    BY <2>1, <2>2
<1>7. flat = Step(flat)
  <2> HIDE DEF h, Step
  <2> QED
    BY <1>6
<1>8. E!FlattenSeq(parts) = flat[n]
  BY <1>5 DEF E!FlattenSeq
<1> HIDE DEF flat
<1>9. Flat(flat, n, parts)
  <2>1. DOMAIN flat = 1..n /\ \A k \in 1..n : flat[k] = IF k = 1 THEN parts[k] ELSE flat[k - 1] \o parts[k]
    BY <1>5, <1>7
  <2>2. 1 \in 1..n /\ \A k \in 2..n : k \in 1..n /\ k # 1
    OBVIOUS
  <2> QED
    BY <2>1, <2>2 DEF Flat
<1>10. flat[n] \in Seq(T)
  BY <1>9, FlatTyped
<1> QED
  BY <1>8, <1>9, <1>10

\* Leaving out of the whole is leaving out of each.
SequencesOf(parts, n, T) == parts \in [1..n -> Seq(T)]
LeftOfEach(left, parts, n, gone) == \A i \in 1..n : left[i] = Left(parts[i], parts[i], gone)

LEMMA FlattenedLeft ==
  ASSUME NEW n \in Nat \ {0}, NEW T, NEW parts, SequencesOf(parts, n, T), NEW gone,
         NEW left, SequencesOf(left, n, T), LeftOfEach(left, parts, n, gone)
  PROVE  Left(E!FlattenSeq(parts), E!FlattenSeq(parts), gone) = E!FlattenSeq(left)
<1>0. /\ parts \in [1..n -> Seq(T)] /\ left \in [1..n -> Seq(T)]
      /\ \A i \in 1..n : left[i] = Left(parts[i], parts[i], gone)
  BY DEF SequencesOf, LeftOfEach
<1>1. PICK f : Flat(f, n, parts) /\ E!FlattenSeq(parts) = f[n]
  BY <1>0, Flattened
<1>2. PICK h : Flat(h, n, left) /\ E!FlattenSeq(left) = h[n]
  BY <1>0, Flattened
<1>3. \A k \in 1..n : f[k] \in Seq(T) /\ parts[k] \in Seq(T)
  BY <1>0, <1>1, FlatTyped
<1> DEFINE S == {k \in 1..n : h[k] = Left(f[k], f[k], gone)}
<1>4. n > 0 => 1 \in S
  BY <1>0, <1>1, <1>2 DEF Flat
<1>5. ASSUME NEW k \in 2..n, k - 1 \in S PROVE k \in S
  <2>1. k \in 1..n /\ k - 1 \in 1..n /\ h[k - 1] = Left(f[k - 1], f[k - 1], gone)
    BY <1>5
  <2>2. f[k] = f[k - 1] \o parts[k] /\ h[k] = h[k - 1] \o left[k]
    BY <1>0, <1>1, <1>2 DEF Flat
  <2>3. left[k] = Left(parts[k], parts[k], gone)
    BY <1>0, <2>1
  <2> DEFINE a == f[k - 1]
             c == parts[k]
  <2>4. a \in Seq(T) /\ c \in Seq(T)
    BY <1>3, <2>1
  <2> HIDE DEF a, c
  <2>5. Left(Then(a, c), Then(a, c), gone) = Then(Left(a, a, gone), Left(c, c, gone))
    <3>1. Alike(a, a) /\ Alike(c, c)
      BY DEF Alike
    <3> QED
      BY <2>4, <3>1, LeftJoin
  <2> QED
    BY <2>1, <2>2, <2>3, <2>5 DEF Then, a, c
<1> HIDE DEF S
<1>6. \A k \in 1..n : k \in S
  BY <1>4, <1>5, ByPositions
<1>7. n \in S
  BY <1>6
<1> QED
  BY <1>1, <1>2, <1>7 DEF S

\* Where all parts but one are empty, that one is the whole.
LEMMA FlattenedOne ==
  ASSUME NEW n \in Nat \ {0}, NEW T, NEW parts \in [1..n -> Seq(T)], NEW i \in 1..n,
         \A j \in 1..n : j # i => parts[j] = <<>>
  PROVE  E!FlattenSeq(parts) = parts[i]
<1>1. PICK f : Flat(f, n, parts) /\ E!FlattenSeq(parts) = f[n]
  BY Flattened
<1> DEFINE S == {k \in 1..n : f[k] = IF k < i THEN <<>> ELSE parts[i]}
<1>2. n > 0 => 1 \in S
  BY <1>1 DEF Flat
<1>3. ASSUME NEW k \in 2..n, k - 1 \in S PROVE k \in S
  <2>1. k \in 1..n /\ f[k] = f[k - 1] \o parts[k] /\ f[k - 1] = IF k - 1 < i THEN <<>> ELSE parts[i]
    <3>1. k \in 1..n
      OBVIOUS
    <3> QED
      BY <1>1, <1>3, <3>1 DEF Flat
  <2>2. parts[i] \in Seq(T) /\ <<>> \in Seq(T)
    OBVIOUS
  <2>3. parts[i] \o <<>> = parts[i] /\ <<>> \o parts[i] = parts[i] /\ <<>> \o <<>> = <<>>
    BY <2>2, ConcatEmptySeq
  <2>4. CASE k < i
    BY <2>1, <2>3, <2>4
  <2>5. CASE k = i
    <3>1. k - 1 < i /\ ~(k < i)
      BY <2>5
    <3> QED
      BY <2>1, <2>3, <2>5, <3>1
  <2>6. CASE k > i
    <3>1. ~(k - 1 < i) /\ k # i /\ ~(k < i)
      BY <2>6
    <3> QED
      BY <2>1, <2>3, <3>1
  <2> QED
    BY <2>4, <2>5, <2>6
<1> HIDE DEF S
<1>4. \A k \in 1..n : k \in S
  BY <1>2, <1>3, ByPositions
<1>5. n \in S /\ ~(n < i)
  BY <1>4
<1> QED
  BY <1>1, <1>5 DEF S

\* Single items that follow each other.
LEMMA FlattenedSingles ==
  ASSUME NEW n \in Nat \ {0}, NEW T, NEW items \in [1..n -> T]
  PROVE  E!FlattenSeq([i \in 1..n |-> <<items[i]>>]) = items
<1> DEFINE parts == [i \in 1..n |-> <<items[i]>>]
<1>1. parts \in [1..n -> Seq(T)] /\ \A i \in 1..n : parts[i] = <<items[i]>>
  OBVIOUS
<1> HIDE DEF parts
<1>2. PICK f : Flat(f, n, parts) /\ E!FlattenSeq(parts) = f[n]
  BY <1>1, Flattened
<1>3. \A k \in 1..n : f[k] \in Seq(T)
  BY <1>1, <1>2, FlatTyped
<1> DEFINE S == {k \in 1..n : Len(f[k]) = k /\ \A i \in 1..k : f[k][i] = items[i]}
<1>4. n > 0 => 1 \in S
  <2>1. f[1] = <<items[1]>> /\ 1 \in 1..n
    BY <1>1, <1>2 DEF Flat
  <2>2. Len(f[1]) = 1 /\ \A i \in 1..1 : f[1][i] = items[i]
    BY <2>1
  <2> QED
    BY <2>1, <2>2
<1>5. ASSUME NEW k \in 2..n, k - 1 \in S PROVE k \in S
  <2>1. k \in 1..n /\ k - 1 \in 1..n /\ f[k] = f[k - 1] \o <<items[k]>> /\ f[k - 1] \in Seq(T)
    <3>1. k \in 1..n /\ k - 1 \in 1..n
      OBVIOUS
    <3> QED
      BY <1>1, <1>2, <1>3, <3>1 DEF Flat
  <2>2. Len(f[k - 1]) = k - 1 /\ \A i \in 1..(k - 1) : f[k - 1][i] = items[i]
    BY <1>5
  <2>3. <<items[k]>> \in Seq(T) /\ Len(<<items[k]>>) = 1 /\ <<items[k]>>[1] = items[k]
    BY <2>1
  <2>4. /\ Len(f[k]) = Len(f[k - 1]) + 1
        /\ \A i \in 1..(Len(f[k - 1]) + 1) :
              f[k][i] = IF i <= Len(f[k - 1]) THEN f[k - 1][i] ELSE <<items[k]>>[i - Len(f[k - 1])]
    BY <2>1, <2>3, ConcatProperties
  <2>5. Len(f[k]) = k /\ \A i \in 1..k : f[k][i] = IF i <= k - 1 THEN f[k - 1][i] ELSE <<items[k]>>[i - (k - 1)]
    <3>1. (k - 1) + 1 = k
      OBVIOUS
    <3> QED
      BY <2>2, <2>4, <3>1
  <2>6. ASSUME NEW i \in 1..k PROVE f[k][i] = items[i]
    <3>1. CASE i <= k - 1
      BY <2>2, <2>5, <3>1
    <3>2. CASE ~(i <= k - 1)
      <4>1. i = k /\ i - (k - 1) = 1
        BY <3>2
      <4> QED
        BY <2>3, <2>5, <3>2, <4>1
    <3> QED
      BY <3>1, <3>2
  <2> QED
    BY <2>1, <2>5, <2>6
<1> HIDE DEF S
<1>6. \A k \in 1..n : k \in S
  BY <1>4, <1>5, ByPositions
<1>7. n \in S /\ f[n] \in Seq(T)
  BY <1>3, <1>6
<1>8. Len(f[n]) = n /\ \A i \in 1..n : f[n][i] = items[i]
  BY <1>7 DEF S
<1>9. f[n] = [i \in 1..n |-> f[n][i]]
  BY <1>7, <1>8, SeqByIndex
<1> QED
  BY <1>2, <1>8, <1>9 DEF parts

-----------------------------------------------------------------------------
(* Edition: tables of contents.                                            *)

Lines(S) == [depth : Nat, label : E!Wording, to : S]

LEMMA LineParts ==
  ASSUME NEW S, NEW e \in Lines(S)
  PROVE  /\ e.depth \in Nat /\ e.label \in E!Wording /\ e.to \in S
         /\ e = [depth |-> e.depth, label |-> e.label, to |-> e.to]
BY DEF Lines, E!Wording

LEMMA EntryParts ==
  ASSUME NEW S, NEW depth \in Nat, NEW label \in E!Wording, NEW to \in S
  PROVE  /\ E!Entry(depth, label, to) \in Lines(S)
         /\ E!Entry(depth, label, to).depth = depth /\ E!Entry(depth, label, to).to = to
         /\ E!Entry(depth, label, to).label = label
BY DEF Lines, E!Entry, E!Wording

LEMMA AimTyped ==
  ASSUME NEW S, NEW toc \in Seq(Lines(S))
  PROVE  /\ E!Aim(toc) \in Seq(S) /\ Alike(toc, E!Aim(toc))
         /\ \A k \in DOMAIN toc : E!Aim(toc)[k] = toc[k].to
<1>1. Len(toc) \in Nat /\ DOMAIN toc = 1..Len(toc) /\ \A k \in 1..Len(toc) : toc[k] \in Lines(S)
  BY SeqByIndex
<1> DEFINE n == Len(toc)
           to(k) == toc[k].to
<1>2. E!Aim(toc) = [k \in 1..n |-> to(k)]
  BY <1>1 DEF E!Aim
<1>3. \A k \in 1..n : to(k) \in S
  BY <1>1, LineParts
<1> HIDE DEF n, to
<1>4. E!Aim(toc) \in [1..n -> S]
  BY <1>2, <1>3
<1>5. E!Aim(toc) \in Seq(S) /\ Len(E!Aim(toc)) = n /\ DOMAIN E!Aim(toc) = 1..n
  BY <1>1, <1>4 DEF n
<1>6. \A k \in 1..n : E!Aim(toc)[k] = to(k)
  BY <1>2
<1> QED
  BY <1>1, <1>5, <1>6 DEF n, to, Alike

LEMMA AimThen ==
  ASSUME NEW S, NEW s \in Seq(Lines(S)), NEW t \in Seq(Lines(S))
  PROVE  E!Aim(Then(s, t)) = Then(E!Aim(s), E!Aim(t)) /\ Then(s, t) \in Seq(Lines(S))
<1> DEFINE both == s \o t
           left == E!Aim(s)
           right == E!Aim(t)
           aims == left \o right
           m == Len(s)
           n == Len(t)
<1> HIDE DEF left, right
<1>1. /\ both \in Seq(Lines(S)) /\ Len(both) = m + n
      /\ \A k \in 1..(m + n) : both[k] = IF k <= m THEN s[k] ELSE t[k - m]
  BY ConcatProperties
<1>2. /\ left \in Seq(S) /\ Len(left) = m /\ \A k \in 1..m : left[k] = s[k].to
      /\ right \in Seq(S) /\ Len(right) = n /\ \A k \in 1..n : right[k] = t[k].to
      /\ m \in Nat /\ n \in Nat
  BY AimTyped, SeqByIndex DEF Alike, left, right
<1> HIDE DEF m, n
<1>3. /\ aims \in Seq(S) /\ Len(aims) = m + n
      /\ \A k \in 1..(m + n) : aims[k] = IF k <= m THEN left[k] ELSE right[k - m]
  BY <1>2, ConcatProperties
<1>4. /\ E!Aim(both) \in Seq(S) /\ Len(E!Aim(both)) = m + n
      /\ \A k \in 1..(m + n) : E!Aim(both)[k] = both[k].to
  BY <1>1, AimTyped, SeqByIndex DEF Alike
<1> HIDE DEF both, aims
<1>5. ASSUME NEW k \in 1..(m + n) PROVE E!Aim(both)[k] = aims[k]
  <2>1. CASE k <= m
    <3>1. k \in 1..m
      BY <1>2, <2>1
    <3> QED
      BY <1>1, <1>2, <1>3, <1>4, <2>1, <3>1
  <2>2. CASE ~(k <= m)
    <3>1. k - m \in 1..n
      BY <1>2, <2>2
    <3> QED
      BY <1>1, <1>2, <1>3, <1>4, <2>2, <3>1
  <2> QED
    BY <2>1, <2>2
<1>6. E!Aim(both) = aims
  BY <1>3, <1>4, <1>5, SeqEqual
<1> QED
  BY <1>1, <1>6 DEF Then, both, aims, left, right

\* How the model leaves things out, by marks.
LEMMA PagesLeft == \A s, gone : E!WithoutPages(s, gone) = Left(s, s, gone)
BY DEF E!WithoutPages, Left, Staying

LEMMA EntriesLeft ==
  ASSUME NEW toc, NEW gone
  PROVE  E!WithoutEntries(toc, gone) = Left(toc, E!Aim(toc), gone)
<1>1. {k \in DOMAIN toc : toc[k].to \notin gone} = Staying(toc, E!Aim(toc), gone)
  BY DEF Staying, E!Aim
<1> QED
  BY <1>1 DEF E!WithoutEntries, Left

LEMMA LabelsLeft ==
  ASSUME NEW toc
  PROVE  E!Labels(toc) = Left(toc, E!Aim(toc), E!Generated)
<1>1. {k \in DOMAIN toc : toc[k].to \notin E!Generated} = Staying(toc, E!Aim(toc), E!Generated)
  BY DEF Staying, E!Aim
<1> QED
  BY <1>1 DEF E!Labels, Left

LEMMA AimLeft ==
  ASSUME NEW S, NEW toc \in Seq(Lines(S)), NEW gone
  PROVE  E!Aim(Left(toc, E!Aim(toc), gone)) = Left(E!Aim(toc), E!Aim(toc), gone)
<1> DEFINE aims == E!Aim(toc)
           r == Left(toc, aims, gone)
<1>1. /\ aims \in Seq(S) /\ Alike(toc, aims) /\ \A k \in DOMAIN toc : aims[k] = toc[k].to
  BY AimTyped
<1> HIDE DEF aims
<1>2. PICK g : /\ Lists(g, Staying(toc, aims, gone)) /\ r = Along(toc, g)
               /\ r \in Seq(Lines(S)) /\ Len(r) = Len(g)
  BY LeftTyped
<1>3. PICK h : /\ Lists(h, Staying(aims, aims, gone)) /\ Left(aims, aims, gone) = Along(aims, h)
               /\ Left(aims, aims, gone) \in Seq(S) /\ Len(Left(aims, aims, gone)) = Len(h)
  <2> HIDE DEF r
  <2> QED
    BY <1>1, LeftTyped
<1>4. Staying(aims, aims, gone) = Staying(toc, aims, gone) /\ Staying(toc, aims, gone) \in SUBSET Nat
  BY <1>1, SeqByIndex DEF Staying, Alike
<1>5. g = h
  BY <1>2, <1>3, <1>4, ListedOnce
<1>6. /\ \A i \in 1..Len(g) : g[i] \in DOMAIN toc /\ Along(toc, g)[i] = toc[g[i]] /\ Along(aims, g)[i] = aims[g[i]]
      /\ Len(g) \in Nat
  BY <1>2 DEF Lists, Along, Staying
<1>7. DOMAIN r = 1..Len(g)
  BY <1>2, SeqByIndex
<1>8. E!Aim(r) = [i \in 1..Len(g) |-> r[i].to]
  BY <1>7 DEF E!Aim
<1>9. \A i \in 1..Len(g) : r[i].to = aims[g[i]]
  <2> HIDE DEF r
  <2> QED
    BY <1>1, <1>2, <1>6
<1>10. E!Aim(r) = Along(aims, g)
  BY <1>8, <1>9 DEF Along
<1> QED
  BY <1>3, <1>5, <1>10 DEF aims, r

\* What the program adds does not count as the author's.
LEMMA LabelsOfFewer ==
  ASSUME NEW S, NEW toc \in Seq(Lines(S)), NEW gone \in SUBSET E!Generated
  PROVE  E!Labels(E!WithoutEntries(toc, gone)) = E!Labels(toc)
<1> DEFINE aims == E!Aim(toc)
           r == Left(toc, aims, gone)
<1>1. aims \in Seq(S) /\ Alike(toc, aims)
  BY AimTyped
<1>2. E!Aim(r) = Left(aims, aims, gone)
  BY AimLeft
<1> HIDE DEF aims
<1>3. Left(r, Left(aims, aims, gone), E!Generated) = Left(toc, aims, gone \cup E!Generated)
  BY <1>1, LeftTwice
<1>4. gone \cup E!Generated = E!Generated
  OBVIOUS
<1>5. E!WithoutEntries(toc, gone) = r
  BY EntriesLeft DEF aims
<1>6. E!Labels(r) = Left(r, E!Aim(r), E!Generated)
  BY LabelsLeft
<1>7. E!Labels(toc) = Left(toc, aims, E!Generated)
  BY LabelsLeft DEF aims
<1> QED
  BY <1>2, <1>3, <1>4, <1>5, <1>6, <1>7

LEMMA LabelsOfMore ==
  ASSUME NEW S, NEW toc \in Seq(Lines(S)), NEW e \in Lines(S), e.to \in E!Generated
  PROVE  E!Labels(Then(<<e>>, toc)) = E!Labels(toc)
<1> DEFINE one == <<e>>
           G == E!Generated
<1>1. one \in Seq(Lines(S)) /\ DOMAIN one = {1} /\ one[1] = e
  OBVIOUS
<1> HIDE DEF one, G
<1>2. /\ E!Aim(one) \in Seq(S) /\ E!Aim(toc) \in Seq(S) /\ Alike(one, E!Aim(one)) /\ Alike(toc, E!Aim(toc))
      /\ \A k \in DOMAIN one : E!Aim(one)[k] = one[k].to
  BY <1>1, AimTyped
<1>3. E!Aim(Then(one, toc)) = Then(E!Aim(one), E!Aim(toc))
  BY <1>1, AimThen
<1>4. Left(Then(one, toc), Then(E!Aim(one), E!Aim(toc)), G)
        = Then(Left(one, E!Aim(one), G), Left(toc, E!Aim(toc), G))
  BY <1>1, <1>2, LeftJoin
<1>5. Left(one, E!Aim(one), G) = <<>>
  <2>1. \A k \in DOMAIN one : E!Aim(one)[k] \in G
    BY <1>1, <1>2 DEF G
  <2> QED
    BY <2>1, LeftNone
<1>6. Left(toc, E!Aim(toc), G) \in Seq(Lines(S))
  BY LeftTyped
<1>7. Then(<<>>, Left(toc, E!Aim(toc), G)) = Left(toc, E!Aim(toc), G)
  BY <1>6, ConcatEmptySeq DEF Then
<1> QED
  BY <1>3, <1>4, <1>5, <1>7, LabelsLeft DEF one, G

LEMMA FunctionIsSeq ==
  ASSUME NEW n \in Nat, NEW S, NEW f \in [1..n -> S]
  PROVE  f \in Seq(S) /\ Len(f) = n
OBVIOUS

LEMMA TitledTyped ==
  ASSUME NEW S, NEW toc \in Seq(Lines(S))
  PROVE  /\ E!Titled(toc) \in Seq(Lines(S)) /\ Len(E!Titled(toc)) = Len(toc)
         /\ \A k \in DOMAIN toc : /\ E!Titled(toc)[k].depth = toc[k].depth
                                  /\ E!Titled(toc)[k].to = toc[k].to
         /\ Len(E!Labels(toc)) # 1 => E!Titled(toc) = toc
<1> DEFINE n == Len(toc)
           one == Len(E!Labels(toc)) = 1
           of(k) == IF one /\ E!Replaceable(toc[k])
                    THEN [toc[k] EXCEPT !.label = "title"] ELSE toc[k]
<1>1. /\ n \in Nat /\ DOMAIN toc = 1..n /\ toc = [k \in 1..n |-> toc[k]]
      /\ \A k \in 1..n : toc[k] \in Lines(S)
  BY SeqByIndex
<1>2. E!Titled(toc) = [k \in 1..n |-> of(k)]
  BY <1>1 DEF E!Titled
<1>3. ASSUME NEW e \in Lines(S)
      PROVE  LET r == [e EXCEPT !.label = "title"]
             IN r \in Lines(S) /\ r.depth = e.depth /\ r.to = e.to
  <2>1. /\ e.depth \in Nat /\ e.to \in S /\ e = [depth |-> e.depth, label |-> e.label, to |-> e.to]
    BY LineParts
  <2>2. [e EXCEPT !.label = "title"] = [depth |-> e.depth, label |-> "title", to |-> e.to]
    BY <2>1
  <2> QED
    BY <2>1, <2>2 DEF Lines, E!Wording
<1>4. \A k \in 1..n : of(k) \in Lines(S) /\ of(k).depth = toc[k].depth /\ of(k).to = toc[k].to
  <2> HIDE DEF one, n
  <2> QED
    BY <1>1, <1>3
<1>5. ~one => \A k \in 1..n : of(k) = toc[k]
  OBVIOUS
<1> HIDE DEF n, of, one
<1>6. ~one => E!Titled(toc) = toc
  BY <1>1, <1>2, <1>5
<1>7. E!Titled(toc) \in [1..n -> Lines(S)]
  BY <1>2, <1>4
<1>8. E!Titled(toc) \in Seq(Lines(S)) /\ Len(E!Titled(toc)) = n
  BY <1>1, <1>7
<1> QED
  BY <1>1, <1>2, <1>4, <1>6, <1>8 DEF n, one

\* A title changes what an entry says, and only if it is alone.
LEMMA TitledLabels ==
  ASSUME NEW S, NEW toc \in Seq(Lines(S))
  PROVE  /\ E!Targets(E!Labels(E!Titled(toc))) = E!Targets(E!Labels(toc))
         /\ Len(E!Labels(E!Titled(toc))) = Len(E!Labels(toc))
         /\ Len(E!Labels(toc)) > 1 => E!Labels(E!Titled(toc)) = E!Labels(toc)
<1> DEFINE r == E!Titled(toc)
           G == E!Generated
           K == Staying(toc, E!Aim(toc), G)
<1>1. /\ r \in Seq(Lines(S)) /\ Len(r) = Len(toc) /\ DOMAIN r = DOMAIN toc
      /\ \A k \in DOMAIN toc : r[k].depth = toc[k].depth /\ r[k].to = toc[k].to
  BY TitledTyped, SeqByIndex
<1>2. Len(E!Labels(toc)) # 1 => r = toc
  BY TitledTyped
<1> HIDE DEF r
<1>3. E!Aim(r) = E!Aim(toc)
  BY <1>1 DEF E!Aim
<1>4. Staying(r, E!Aim(r), G) = K
  BY <1>1, <1>3 DEF Staying
<1>5. E!Labels(toc) = E!Only(toc, K) /\ E!Labels(r) = E!Only(r, K)
  BY <1>4, LabelsLeft DEF Left
<1>6. K \in SUBSET DOMAIN toc
  BY DEF Staying
<1> DEFINE g == E!Ranked(K)
<1>7. Lists(g, K)
  <2>1. Len(toc) \in Nat /\ K \in SUBSET (1..Len(toc))
    BY <1>6, SeqByIndex
  <2> HIDE DEF K
  <2> QED
    BY <2>1, RankedLists
<1>8. DOMAIN g = 1..Len(g) /\ \A i \in DOMAIN g : g[i] \in DOMAIN toc
  BY <1>6, <1>7 DEF Lists
<1>9. E!Only(toc, K) = [i \in DOMAIN g |-> toc[g[i]]] /\ E!Only(r, K) = [i \in DOMAIN g |-> r[g[i]]]
  BY Zenon DEF E!Only
<1> HIDE DEF g, K
<1>10. \A i \in DOMAIN g : E!Only(toc, K)[i] = toc[g[i]] /\ E!Only(r, K)[i] = r[g[i]]
  BY <1>9
<1>11. DOMAIN E!Only(toc, K) = DOMAIN g /\ DOMAIN E!Only(r, K) = DOMAIN g
  BY <1>9
<1>12. E!Targets(E!Only(r, K)) = E!Targets(E!Only(toc, K))
  BY <1>1, <1>8, <1>10, <1>11 DEF E!Targets
<1>13. Len(E!Labels(toc)) > 1 => E!Labels(r) = E!Labels(toc)
  <2>1. ~(1 > 1)
    OBVIOUS
  <2> QED
    BY <1>2, <2>1
<1>14. Len(E!Only(r, K)) = Len(E!Only(toc, K))
  <2>1. K \in SUBSET DOMAIN r
    BY <1>1, <1>6
  <2>2. E!Only(toc, K) \in Seq(Lines(S)) /\ E!Only(r, K) \in Seq(Lines(S))
    BY <1>1, <1>6, <2>1, OnlyTyped
  <2> DEFINE a == E!Only(toc, K)
             b == E!Only(r, K)
  <2>3. DOMAIN a = DOMAIN b
    BY <1>11
  <2> HIDE DEF a, b
  <2>4. a \in Seq(Lines(S)) /\ b \in Seq(Lines(S))
    BY <2>2 DEF a, b
  <2>5. Len(a) = Len(b)
    BY <2>3, <2>4
  <2> QED
    BY <2>5 DEF a, b
<1> QED
  BY <1>5, <1>12, <1>13, <1>14 DEF r

-----------------------------------------------------------------------------
(* Listings.                                                               *)

LEMMA ListingParts ==
  ASSUME NEW toc, NEW S, NEW A
  PROVE  E!Listing(toc, S, A) <=>
           /\ toc \in Seq(Lines(S)) /\ (toc # <<>> => toc[1].depth = 0)
           /\ \A k \in DOMAIN toc : toc[k].to \in A => k = Len(toc)
BY DEF E!Listing, Lines

LEMMA LinesMore ==
  ASSUME NEW S, NEW T, S \subseteq T
  PROVE  Lines(S) \subseteq Lines(T) /\ \A toc \in Seq(Lines(S)) : toc \in Seq(Lines(T))
<1>1. Lines(S) \subseteq Lines(T)
  BY DEF Lines, E!Wording
<1> QED
  BY <1>1, SeqMonotonic

LEMMA ListingMore ==
  ASSUME NEW S, NEW T, S \subseteq T, NEW A, NEW toc, E!Listing(toc, S, A)
  PROVE  E!Listing(toc, T, A)
BY ListingParts, LinesMore

LEMMA ListingLess ==
  ASSUME NEW S, NEW A, NEW toc, E!Listing(toc, S, A)
  PROVE  E!Listing(E!WithoutEntries(toc, A), S \ A, {})
<1> DEFINE aims == E!Aim(toc)
           r == Left(toc, aims, A)
<1>1. /\ toc \in Seq(Lines(S)) /\ (toc # <<>> => toc[1].depth = 0)
      /\ \A k \in DOMAIN toc : toc[k].to \in A => k = Len(toc)
  BY ListingParts
<1>2. \A k \in DOMAIN toc : aims[k] = toc[k].to
  BY <1>1, AimTyped
<1> HIDE DEF aims
<1>3. PICK g : /\ Lists(g, Staying(toc, aims, A)) /\ r = Along(toc, g)
               /\ r \in Seq(Lines(S)) /\ Len(r) = Len(g)
  BY <1>1, LeftTyped
<1>4. ASSUME NEW i \in 1..Len(r) PROVE r[i] \in Lines(S \ A)
  <2>1. g[i] \in DOMAIN toc /\ aims[g[i]] \notin A /\ Along(toc, g)[i] = toc[g[i]]
    BY <1>3 DEF Lists, Staying, Along
  <2>2. r[i] = toc[g[i]] /\ toc[g[i]] \in Lines(S) /\ toc[g[i]].to \notin A
    BY <1>1, <1>2, <1>3, <2>1
  <2> HIDE DEF r
  <2> QED
    BY <2>2 DEF Lines, E!Wording
<1>5. r # <<>> => r[1].depth = 0
  <2>1. CASE toc = <<>>
    <3>1. \A k \in DOMAIN toc : aims[k] \in A
      BY <2>1
    <3> QED
      BY <3>1, LeftNone
  <2>2. CASE toc # <<>> /\ aims[1] \notin A
    BY <1>1, <2>2, LeftFirst
  <2>3. CASE toc # <<>> /\ aims[1] \in A
    <3>1. 1 \in DOMAIN toc /\ DOMAIN toc = 1..Len(toc)
      BY <1>1, <2>3
    <3>2. Len(toc) = 1
      BY <1>1, <1>2, <2>3, <3>1
    <3>3. \A k \in DOMAIN toc : aims[k] \in A
      BY <2>3, <3>1, <3>2
    <3> QED
      BY <3>3, LeftNone
  <2> QED
    BY <2>1, <2>2, <2>3
<1>6. r \in Seq(Lines(S \ A))
  <2>1. Len(r) \in Nat /\ DOMAIN r = 1..Len(r) /\ r = [i \in 1..Len(r) |-> r[i]]
    BY <1>3, SeqByIndex
  <2> HIDE DEF r
  <2>2. r \in [1..Len(r) -> Lines(S \ A)]
    BY <1>4, <2>1
  <2> QED
    BY <2>1, <2>2, FunctionIsSeq
<1> HIDE DEF r
<1>7. E!Listing(r, S \ A, {})
  BY <1>5, <1>6, ListingParts
<1> QED
  BY <1>7, EntriesLeft DEF r, aims

LEMMA ListingTitled ==
  ASSUME NEW S, NEW A, NEW toc, E!Listing(toc, S, A)
  PROVE  E!Listing(E!Titled(toc), S, A)
<1> DEFINE r == E!Titled(toc)
<1>1. /\ toc \in Seq(Lines(S)) /\ (toc # <<>> => toc[1].depth = 0)
      /\ \A k \in DOMAIN toc : toc[k].to \in A => k = Len(toc)
  BY ListingParts
<1>2. /\ r \in Seq(Lines(S)) /\ Len(r) = Len(toc)
      /\ \A k \in DOMAIN toc : r[k].depth = toc[k].depth /\ r[k].to = toc[k].to
  BY <1>1, TitledTyped
<1> HIDE DEF r
<1>3. DOMAIN r = DOMAIN toc /\ (r # <<>> => toc # <<>> /\ 1 \in DOMAIN toc)
  BY <1>1, <1>2
<1> QED
  BY <1>1, <1>2, <1>3, ListingParts DEF r

\* The note before, the page About after what the author lists.
LEMMA ListingSpliced ==
  ASSUME NEW S, NEW T, S \subseteq T, E!Preface \in T, NEW A, E!Preface \notin A,
         NEW toc, E!Listing(toc, S, A)
  PROVE  /\ E!Listing(E!Spliced(toc), T, A)
         /\ E!Labels(E!Spliced(toc)) = E!Labels(toc)
<1> DEFINE e == E!Entry(0, "note", E!Preface)
           one == <<e>>
           r == E!Spliced(toc)
<1>1. /\ toc \in Seq(Lines(T)) /\ \A k \in DOMAIN toc : toc[k].to \in A => k = Len(toc)
  BY ListingMore, ListingParts
<1>2. e \in Lines(T) /\ e.depth = 0 /\ e.to = E!Preface
  BY DEF Lines, E!Entry, E!Wording
<1> HIDE DEF e
<1>3. one \in Seq(Lines(T)) /\ Len(one) = 1 /\ one[1] = e
  BY <1>2
<1>4. r = one \o toc
  BY DEF E!Spliced, e
<1> HIDE DEF one
<1>5. /\ r \in Seq(Lines(T)) /\ Len(r) = 1 + Len(toc) /\ Len(toc) \in Nat
      /\ \A k \in 1..(1 + Len(toc)) : r[k] = IF k <= 1 THEN one[k] ELSE toc[k - 1]
  <2>1. /\ one \o toc \in Seq(Lines(T)) /\ Len(one \o toc) = Len(one) + Len(toc)
        /\ \A k \in 1..(Len(one) + Len(toc)) :
              (one \o toc)[k] = IF k <= Len(one) THEN one[k] ELSE toc[k - Len(one)]
    BY <1>1, <1>3, ConcatProperties
  <2>2. Len(toc) \in Nat
    BY <1>1
  <2> QED
    BY <1>3, <1>4, <2>1, <2>2
<1> HIDE DEF r
<1>6. r[1] = e
  BY <1>3, <1>5
<1>7. ASSUME NEW k \in DOMAIN r, r[k].to \in A PROVE k = Len(r)
  <2>1. k \in 1..(1 + Len(toc)) /\ k # 1
    BY <1>2, <1>5, <1>6, <1>7
  <2>2. k - 1 \in DOMAIN toc /\ r[k] = toc[k - 1]
    BY <1>1, <1>5, <2>1
  <2>3. k - 1 = Len(toc)
    BY <1>1, <1>7, <2>2
  <2> QED
    BY <1>5, <2>1, <2>3
<1>8. E!Listing(r, T, A)
  BY <1>2, <1>5, <1>6, <1>7, ListingParts
<1>9. E!Labels(Then(<<e>>, toc)) = E!Labels(toc)
  BY <1>1, <1>2, LabelsOfMore DEF E!Generated
<1>10. Then(<<e>>, toc) = r
  BY <1>4 DEF Then, one
<1> QED
  BY <1>8, <1>9, <1>10 DEF r

LEMMA ListingWithEntry ==
  ASSUME NEW S, E!About \notin S, NEW toc, E!Listing(toc, S, {})
  PROVE  E!Listing(E!WithEntry(toc), S \cup {E!About}, {E!About})
<1> DEFINE e == E!Entry(0, "about", E!About)
           T == S \cup {E!About}
           r == E!WithEntry(toc)
<1>1. /\ toc \in Seq(Lines(S)) /\ toc \in Seq(Lines(T)) /\ (toc # <<>> => toc[1].depth = 0)
  <2>1. toc \in Seq(Lines(S)) /\ (toc # <<>> => toc[1].depth = 0)
    BY ListingParts
  <2>2. S \subseteq T
    OBVIOUS
  <2> HIDE DEF T
  <2> QED
    BY <2>1, <2>2, LinesMore
<1>2. e \in Lines(T) /\ e.depth = 0 /\ e.to = E!About
  <2>1. E!About \in T
    OBVIOUS
  <2> HIDE DEF T
  <2> QED
    BY <2>1 DEF Lines, E!Entry, E!Wording
<1>3. r = Append(toc, e)
  BY DEF E!WithEntry
<1> HIDE DEF e, T
<1>4. /\ r \in Seq(Lines(T)) /\ Len(r) = Len(toc) + 1 /\ \A i \in 1..Len(toc) : r[i] = toc[i]
      /\ r[Len(toc) + 1] = e /\ Len(toc) \in Nat
  BY <1>1, <1>2, <1>3, AppendProperties, SeqByIndex
<1> HIDE DEF r
<1>5. r[1].depth = 0
  <2>1. CASE toc = <<>>
    BY <1>2, <1>4, <2>1
  <2>2. CASE toc # <<>>
    <3>1. 1 \in 1..Len(toc)
      BY <1>1, <2>2
    <3> QED
      BY <1>1, <1>4, <2>2, <3>1
  <2> QED
    BY <2>1, <2>2
<1>6. ASSUME NEW k \in DOMAIN r, r[k].to \in {E!About} PROVE k = Len(r)
  <2> SUFFICES ASSUME k # Len(r) PROVE FALSE
    OBVIOUS
  <2>1. k \in 1..Len(toc) /\ r[k] = toc[k]
    BY <1>4
  <2>2. toc[k] \in Lines(S)
    BY <1>1, <2>1, SeqByIndex
  <2> QED
    BY <1>6, <2>1, <2>2, LineParts
<1>7. E!Listing(r, T, {E!About})
  BY <1>4, <1>5, <1>6, ListingParts
<1> QED
  BY <1>7 DEF r, T

-----------------------------------------------------------------------------
(* Edition: the parts of a package that each operation leaves alone.       *)

Rest(r, p) == r.start = p.start /\ r.identity = p.identity
SameCovers(r, p) == r.cover = p.cover /\ r.older = p.older
Pages(r, p) == r.spine = p.spine /\ r.about = p.about
Stored(r, p) == r.kind = p.kind /\ r.files = p.files

LEMMA AddFields ==
  ASSUME NEW p, DOMAIN p = E!Parts, NEW x, NEW k, NEW r, r = E!Add(p, x, k)
  PROVE  /\ DOMAIN r = E!Parts /\ r.version = p.version /\ r.toc = p.toc
         /\ r.kind = [i \in DOMAIN p.kind \cup {x} |-> IF i = x THEN k ELSE p.kind[i]]
         /\ r.files = p.files \cup {x} /\ Rest(r, p) /\ SameCovers(r, p) /\ Pages(r, p)
BY DEF E!Add, E!Parts, Rest, SameCovers, Pages

ItemsTaken(r, p, gone) ==
    /\ DOMAIN r = E!Parts /\ r.version = p.version /\ r.toc = p.toc
    /\ r.kind = [i \in DOMAIN p.kind \ gone |-> p.kind[i]]
    /\ r.files = p.files \ gone /\ Rest(r, p) /\ SameCovers(r, p) /\ Pages(r, p)

LEMMA DropFields ==
  ASSUME NEW p, DOMAIN p = E!Parts, NEW gone, NEW r, r = E!Drop(p, gone)
  PROVE  ItemsTaken(r, p, gone)
BY DEF E!Drop, E!Parts, Rest, SameCovers, Pages, ItemsTaken

AboutTaken(r, p) ==
    /\ DOMAIN r = E!Parts /\ r.version = p.version
    /\ r.toc = [d \in DOMAIN p.toc |-> E!WithoutEntries(p.toc[d], p.about)]
    /\ r.kind = [i \in DOMAIN p.kind \ p.about |-> p.kind[i]]
    /\ r.files = p.files \ p.about /\ Rest(r, p) /\ SameCovers(r, p)
    /\ r.spine = E!WithoutPages(p.spine, p.about) /\ r.about = {}

LEMMA WithoutAboutFields ==
  ASSUME NEW p, DOMAIN p = E!Parts, NEW r, r = E!WithoutAbout(p)
  PROVE  AboutTaken(r, p)
<1> DEFINE q == E!Drop(p, p.about)
<1>1. /\ DOMAIN q = E!Parts /\ q.version = p.version /\ q.toc = p.toc
      /\ q.kind = [i \in DOMAIN p.kind \ p.about |-> p.kind[i]]
      /\ q.files = p.files \ p.about /\ Rest(q, p) /\ SameCovers(q, p) /\ Pages(q, p)
  BY DropFields DEF ItemsTaken
<1>2. r = [q EXCEPT !.spine = E!WithoutPages(q.spine, p.about),
                    !.toc = [d \in DOMAIN q.toc |-> E!WithoutEntries(p.toc[d], p.about)],
                    !.about = {}]
  BY DEF E!WithoutAbout
<1> HIDE DEF q
<1>3. /\ DOMAIN r = E!Parts /\ r.version = q.version /\ r.kind = q.kind /\ r.files = q.files
      /\ r.start = q.start /\ r.identity = q.identity /\ r.cover = q.cover /\ r.older = q.older
      /\ r.spine = E!WithoutPages(q.spine, p.about) /\ r.about = {}
      /\ r.toc = [d \in DOMAIN q.toc |-> E!WithoutEntries(p.toc[d], p.about)]
  BY <1>1, <1>2 DEF E!Parts
<1> QED
  BY <1>1, <1>3 DEF Rest, SameCovers, Pages, AboutTaken

CoverAdded(r, p) ==
    /\ DOMAIN r = E!Parts /\ r.version = p.version /\ r.toc = p.toc
    /\ r.kind = [i \in DOMAIN p.kind \cup {E!Cover} |-> IF i = E!Cover THEN "image" ELSE p.kind[i]]
    /\ r.files = p.files \cup {E!Cover} /\ Rest(r, p) /\ Pages(r, p)
    /\ r.cover \in {{}, {E!Cover}} /\ r.older = E!Cover

LEMMA CoveredFields ==
  ASSUME NEW p, DOMAIN p = E!Parts, NEW publication, NEW r, r = E!Covered(p, publication)
  PROVE  \/ r = p
         \/ /\ publication.cover /\ (E!CoverOf(p) = {} \/ publication.override)
            /\ CoverAdded(r, p)
<1> DEFINE new == publication.cover /\ (E!CoverOf(p) = {} \/ publication.override)
           q == E!Add(p, E!Cover, "image")
<1>1. CASE ~new
  BY <1>1 DEF E!Covered
<1>2. CASE new
  <2>1. /\ DOMAIN q = E!Parts /\ q.version = p.version /\ q.toc = p.toc
        /\ q.kind = [i \in DOMAIN p.kind \cup {E!Cover} |-> IF i = E!Cover THEN "image" ELSE p.kind[i]]
        /\ q.files = p.files \cup {E!Cover} /\ Rest(q, p) /\ SameCovers(q, p) /\ Pages(q, p)
    BY AddFields
  <2>2. r = [q EXCEPT !.cover = IF p.version = 3 THEN {E!Cover} ELSE {}, !.older = E!Cover]
    BY <1>2 DEF E!Covered
  <2> HIDE DEF q
  <2>3. /\ DOMAIN r = E!Parts /\ r.version = q.version /\ r.kind = q.kind /\ r.files = q.files
        /\ r.start = q.start /\ r.identity = q.identity /\ r.spine = q.spine /\ r.about = q.about
        /\ r.toc = q.toc /\ r.older = E!Cover
        /\ r.cover = IF p.version = 3 THEN {E!Cover} ELSE {}
    BY <2>1, <2>2 DEF E!Parts
  <2> QED
    BY <1>2, <2>1, <2>3 DEF Rest, Pages, CoverAdded
<1> QED
  BY <1>1, <1>2

AboutAdded(r, p) ==
    /\ DOMAIN r = E!Parts /\ r.version = p.version
    /\ r.toc = [d \in DOMAIN p.toc |-> E!WithEntry(p.toc[d])]
    /\ r.kind = [i \in DOMAIN p.kind \cup {E!About} |-> IF i = E!About THEN "page" ELSE p.kind[i]]
    /\ r.files = p.files \cup {E!About} /\ Rest(r, p) /\ SameCovers(r, p)
    /\ r.spine = Append(p.spine, E!About) /\ r.about = {E!About}

LEMMA WithAboutFields ==
  ASSUME NEW p, DOMAIN p = E!Parts, NEW publication, NEW r, r = E!WithAbout(p, publication)
  PROVE  r = p \/ AboutAdded(r, p)
<1> DEFINE q == E!Add(p, E!About, "page")
<1>1. CASE ~publication.authors
  BY <1>1 DEF E!WithAbout
<1>2. CASE publication.authors
  <2>1. /\ DOMAIN q = E!Parts /\ q.version = p.version /\ q.toc = p.toc
        /\ q.kind = [i \in DOMAIN p.kind \cup {E!About} |-> IF i = E!About THEN "page" ELSE p.kind[i]]
        /\ q.files = p.files \cup {E!About} /\ Rest(q, p) /\ SameCovers(q, p) /\ Pages(q, p)
    BY AddFields
  <2>2. r = [q EXCEPT !.spine = Append(q.spine, E!About), !.about = {E!About},
                      !.toc = [d \in DOMAIN q.toc |-> E!WithEntry(p.toc[d])]]
    BY <1>2 DEF E!WithAbout
  <2> HIDE DEF q
  <2>3. /\ DOMAIN r = E!Parts /\ r.version = q.version /\ r.kind = q.kind /\ r.files = q.files
        /\ r.start = q.start /\ r.identity = q.identity /\ r.cover = q.cover /\ r.older = q.older
        /\ r.spine = Append(q.spine, E!About) /\ r.about = {E!About}
        /\ r.toc = [d \in DOMAIN q.toc |-> E!WithEntry(p.toc[d])]
    BY <2>1, <2>2 DEF E!Parts
  <2> QED
    BY <2>1, <2>3 DEF Rest, SameCovers, Pages, AboutAdded
<1> QED
  BY <1>1, <1>2

LEMMA RelabelledFields ==
  ASSUME NEW p, DOMAIN p = E!Parts, NEW r, r = E!Relabelled(p)
  PROVE  /\ DOMAIN r = E!Parts /\ r.version = p.version /\ Stored(r, p)
         /\ r.toc = [d \in DOMAIN p.toc |-> E!Titled(p.toc[d])]
         /\ Rest(r, p) /\ SameCovers(r, p) /\ Pages(r, p)
BY DEF E!Relabelled, E!Parts, Rest, SameCovers, Pages, Stored

LEMMA NamedFields ==
  ASSUME NEW p, DOMAIN p = E!Parts, NEW name, NEW r, r = [p EXCEPT !.identity = name]
  PROVE  /\ DOMAIN r = E!Parts /\ r.version = p.version /\ Stored(r, p) /\ r.toc = p.toc
         /\ r.start = p.start /\ SameCovers(r, p) /\ Pages(r, p)
BY DEF E!Parts, SameCovers, Pages, Stored

-----------------------------------------------------------------------------
(* Edition: what every edition is, and what each operation leaves of it.   *)

Shaped(p) ==
    LET items == DOMAIN p.kind IN
    /\ DOMAIN p = E!Parts
    /\ p.version \in {2, 3} /\ p.kind \in [items -> {"page", "image", "nav", "ncx"}]
    /\ p.spine \in Seq(items) /\ p.spine # <<>> /\ p.spine[1] \notin p.about
    /\ p.cover # {} => p.older \in p.cover \cup {None}
    /\ p.about = {i \in items : E!IsAbout(i)} /\ p.about \subseteq {E!About}
    /\ E!Navigation(p) \cap {E!Preface, E!About, E!Cover} = {}

\* All that leads somewhere leads to these items.
Leads(p, S) ==
    /\ p.toc = [d \in E!Navigation(p) |-> p.toc[d]]
    /\ \A d \in E!Navigation(p) : E!Listing(p.toc[d], S, p.about)
    /\ E!CoverOf(p) \cup ({p.start} \ {None}) \subseteq S \ p.about

LEMMA WholeLeads == \A p : E!Whole(p) <=> Shaped(p) /\ Leads(p, DOMAIN p.kind)
BY DEF E!Whole, Shaped, Leads

\* The same documents hold the contents.
SameDocs(r, p) ==
    /\ E!OfKind(r, {"nav"}) = E!OfKind(p, {"nav"})
    /\ E!OfKind(r, {"ncx"}) = E!OfKind(p, {"ncx"})
    /\ E!Navigation(r) = E!Navigation(p)

LEMMA SameKinds == \A p, r : r.kind = p.kind => SameDocs(r, p)
BY DEF SameDocs, E!Navigation, E!OfKind

LEMMA KindsAdded ==
  ASSUME NEW p, NEW r, NEW x, x \notin E!Navigation(p), NEW k \in {"page", "image"},
         r.kind = [i \in DOMAIN p.kind \cup {x} |-> IF i = x THEN k ELSE p.kind[i]]
  PROVE  DOMAIN r.kind = DOMAIN p.kind \cup {x} /\ SameDocs(r, p)
<1>1. DOMAIN r.kind = DOMAIN p.kind \cup {x} /\ r.kind[x] = k
      /\ \A i \in DOMAIN p.kind \ {x} : r.kind[i] = p.kind[i]
  OBVIOUS
<1>2. x \in DOMAIN p.kind => p.kind[x] \notin {"nav", "ncx"}
  BY DEF E!Navigation, E!OfKind
<1>3. ASSUME NEW i, NEW kinds \in {{"nav"}, {"ncx"}, {"nav", "ncx"}}
      PROVE  i \in E!OfKind(r, kinds) <=> i \in E!OfKind(p, kinds)
  <2>1. i = x => i \notin E!OfKind(r, kinds) /\ i \notin E!OfKind(p, kinds)
    BY <1>1, <1>2 DEF E!OfKind
  <2>2. i # x => (i \in E!OfKind(r, kinds) <=> i \in E!OfKind(p, kinds))
    BY <1>1 DEF E!OfKind
  <2> QED
    BY <2>1, <2>2
<1> QED
  BY <1>1, <1>3 DEF SameDocs, E!Navigation

LEMMA KindsDropped ==
  ASSUME NEW p, NEW r, NEW gone, gone \cap E!Navigation(p) = {},
         r.kind = [i \in DOMAIN p.kind \ gone |-> p.kind[i]]
  PROVE  DOMAIN r.kind = DOMAIN p.kind \ gone /\ SameDocs(r, p)
<1>1. /\ DOMAIN r.kind = DOMAIN p.kind \ gone
      /\ \A i \in DOMAIN p.kind \ gone : r.kind[i] = p.kind[i]
  OBVIOUS
<1>2. ASSUME NEW i, NEW kinds \in {{"nav"}, {"ncx"}, {"nav", "ncx"}}
      PROVE  i \in E!OfKind(r, kinds) <=> i \in E!OfKind(p, kinds)
  <2>1. i \in E!OfKind(p, kinds) => i \in E!Navigation(p)
    BY DEF E!OfKind, E!Navigation
  <2> QED
    BY <1>1, <2>1 DEF E!OfKind
<1> QED
  BY <1>1, <1>2 DEF SameDocs, E!Navigation

LEMMA ContentsOf ==
  ASSUME NEW p, NEW r, SameDocs(r, p)
  PROVE  \/ E!Contents(p) = <<>> /\ E!Contents(r) = <<>>
         \/ \E d \in E!Navigation(p) : E!Contents(p) = p.toc[d] /\ E!Contents(r) = r.toc[d]
<1> DEFINE docs == IF E!OfKind(p, {"nav"}) # {} THEN E!OfKind(p, {"nav"}) ELSE E!OfKind(p, {"ncx"})
           d == CHOOSE e \in docs : TRUE
<1>1. /\ E!Contents(p) = IF docs = {} THEN <<>> ELSE p.toc[d]
      /\ E!Contents(r) = IF docs = {} THEN <<>> ELSE r.toc[d]
  <2> DEFINE theirs == IF E!OfKind(r, {"nav"}) # {} THEN E!OfKind(r, {"nav"}) ELSE E!OfKind(r, {"ncx"})
  <2>1. E!Contents(p) = IF docs = {} THEN <<>> ELSE p.toc[d]
    BY DEF E!Contents
  <2>2. E!Contents(r) = IF theirs = {} THEN <<>> ELSE r.toc[CHOOSE e \in theirs : TRUE]
    BY DEF E!Contents
  <2>3. theirs = docs
    BY DEF SameDocs
  <2> HIDE DEF theirs, docs
  <2> QED
    BY <2>1, <2>2, <2>3
<1>2. docs # {} => d \in docs
  OBVIOUS
<1>3. docs \subseteq E!Navigation(p)
  BY DEF E!Navigation, E!OfKind
<1> HIDE DEF docs, d
<1> QED
  BY <1>1, <1>2, <1>3

\* What leads to all items, or to all but some documents, still does.
StaysLed(r, p) ==
    \A N : N \subseteq E!Navigation(p) /\ Leads(p, DOMAIN p.kind \ N) => Leads(r, DOMAIN r.kind \ N)
Fits(r, p) == Shaped(r) /\ SameDocs(r, p) /\ StaysLed(r, p)

LEMMA FitsTwice ==
  ASSUME NEW p, NEW q, NEW r, Fits(q, p), Fits(r, q)
  PROVE  Fits(r, p)
<1>1. SameDocs(r, p)
  BY DEF Fits, SameDocs
<1>2. StaysLed(r, p)
  BY DEF Fits, SameDocs, StaysLed
<1> QED
  BY <1>1, <1>2 DEF Fits

LEMMA FitsWhole ==
  ASSUME NEW p, NEW r, Fits(r, p), Leads(p, DOMAIN p.kind)
  PROVE  E!Whole(r)
<1>1. Leads(p, DOMAIN p.kind \ {}) /\ {} \subseteq E!Navigation(p)
  <2>1. DOMAIN p.kind \ {} = DOMAIN p.kind
    OBVIOUS
  <2> QED
    BY <2>1
<1>2. Leads(r, DOMAIN r.kind \ {})
  BY <1>1 DEF Fits, StaysLed
<1>3. DOMAIN r.kind \ {} = DOMAIN r.kind
  OBVIOUS
<1> QED
  BY <1>2, <1>3, WholeLeads DEF Fits

LEMMA SeqMore ==
  ASSUME NEW S, NEW T, S \subseteq T, NEW s \in Seq(S)
  PROVE  s \in Seq(T)
OBVIOUS

LEMMA PagesLess ==
  ASSUME NEW T, NEW s \in Seq(T), NEW gone
  PROVE  E!WithoutPages(s, gone) \in Seq(T \ gone)
<1> DEFINE K == Staying(s, s, gone)
           r == Left(s, s, gone)
<1>1. PICK g : Lists(g, K) /\ r = Along(s, g) /\ r \in Seq(T) /\ Len(r) = Len(g)
  BY LeftTyped
<1>2. Len(g) \in Nat /\ g \in [1..Len(g) -> K]
  BY <1>1 DEF Lists
<1>3. \A k \in K : k \in DOMAIN s /\ s[k] \in T \ gone
  BY DEF Staying
<1> HIDE DEF K
<1>4. Along(s, g) \in [1..Len(g) -> T \ gone]
  <2>1. ASSUME NEW i \in 1..Len(g) PROVE s[g[i]] \in T \ gone
    BY <1>2, <1>3
  <2> QED
    BY <2>1 DEF Along
<1>5. Along(s, g) \in Seq(T \ gone)
  BY <1>2, <1>4, FunctionIsSeq
<1> QED
  BY <1>1, <1>5, PagesLeft

LEMMA NamedWhole ==
  ASSUME NEW p, Shaped(p), NEW name, NEW r, r = [p EXCEPT !.identity = name]
  PROVE  Fits(r, p)
<1>1. /\ DOMAIN r = E!Parts /\ r.version = p.version /\ Stored(r, p) /\ r.toc = p.toc
      /\ r.start = p.start /\ SameCovers(r, p) /\ Pages(r, p)
  BY NamedFields DEF Shaped
<1>2. SameDocs(r, p)
  BY <1>1, SameKinds DEF Stored
<1>3. Shaped(r)
  BY <1>1, <1>2 DEF Shaped, Stored, SameCovers, Pages, SameDocs
<1>4. \A S : Leads(p, S) => Leads(r, S)
  BY <1>1, <1>2 DEF Leads, SameDocs, SameCovers, Pages, E!CoverOf
<1> QED
  BY <1>1, <1>2, <1>3, <1>4 DEF Fits, StaysLed, Stored

LEMMA RelabelledWhole ==
  ASSUME NEW p, Shaped(p), NEW r, r = E!Relabelled(p)
  PROVE  Fits(r, p)
<1>1. /\ DOMAIN r = E!Parts /\ r.version = p.version /\ Stored(r, p)
      /\ r.toc = [d \in DOMAIN p.toc |-> E!Titled(p.toc[d])]
      /\ Rest(r, p) /\ SameCovers(r, p) /\ Pages(r, p)
  BY RelabelledFields DEF Shaped
<1>2. SameDocs(r, p)
  BY <1>1, SameKinds DEF Stored
<1>3. Shaped(r)
  BY <1>1, <1>2 DEF Shaped, Stored, SameCovers, Pages, SameDocs
<1>4. ASSUME NEW S, Leads(p, S) PROVE Leads(r, S)
  <2>1. p.toc = [d \in E!Navigation(p) |-> p.toc[d]] /\ \A d \in E!Navigation(p) : E!Listing(p.toc[d], S, p.about)
    BY <1>4 DEF Leads
  <2>2. DOMAIN p.toc = E!Navigation(p)
    BY <2>1
  <2>3. r.toc = [d \in E!Navigation(r) |-> E!Titled(p.toc[d])]
    BY <1>1, <1>2, <2>2 DEF SameDocs
  <2>4. \A d \in E!Navigation(r) : E!Listing(r.toc[d], S, r.about)
    BY <1>1, <1>2, <2>1, <2>3, ListingTitled DEF SameDocs, Pages
  <2>5. r.toc = [d \in E!Navigation(r) |-> r.toc[d]]
    BY <2>3
  <2>6. E!CoverOf(r) \cup ({r.start} \ {None}) \subseteq S \ r.about
    BY <1>1, <1>4 DEF Leads, Rest, SameCovers, Pages, E!CoverOf
  <2> QED
    BY <2>4, <2>5, <2>6 DEF Leads
<1> QED
  BY <1>1, <1>2, <1>3, <1>4 DEF Fits, StaysLed, Stored

LEMMA WithoutAboutWhole ==
  ASSUME NEW p, Shaped(p), NEW r, r = E!WithoutAbout(p)
  PROVE  Fits(r, p) /\ r.about = {} /\ DOMAIN r.kind = DOMAIN p.kind \ p.about
<1>1. /\ DOMAIN r = E!Parts /\ r.version = p.version
      /\ r.toc = [d \in DOMAIN p.toc |-> E!WithoutEntries(p.toc[d], p.about)]
      /\ r.kind = [i \in DOMAIN p.kind \ p.about |-> p.kind[i]]
      /\ r.files = p.files \ p.about /\ Rest(r, p) /\ SameCovers(r, p)
      /\ r.spine = E!WithoutPages(p.spine, p.about) /\ r.about = {}
  <2>1. AboutTaken(r, p)
    BY WithoutAboutFields DEF Shaped
  <2> QED
    BY <2>1 DEF AboutTaken
<1>2. SameDocs(r, p) /\ DOMAIN r.kind = DOMAIN p.kind \ p.about
  <2>1. p.about \cap E!Navigation(p) = {}
    BY DEF Shaped
  <2> QED
    BY <1>1, <2>1, KindsDropped
<1>3. Shaped(r)
  <2>1. r.spine \in Seq(DOMAIN r.kind)
    BY <1>1, <1>2, PagesLess DEF Shaped
  <2>2. r.spine # <<>>
    BY <1>1, PagesLeft, LeftFirst DEF Shaped
  <2>3. r.kind \in [DOMAIN r.kind -> {"page", "image", "nav", "ncx"}]
    BY <1>1, <1>2 DEF Shaped
  <2>4. {i \in DOMAIN r.kind : E!IsAbout(i)} = {}
    BY <1>2 DEF Shaped
  <2>5. r.cover # {} => r.older \in r.cover \cup {None}
    BY <1>1 DEF Shaped, SameCovers
  <2> QED
    BY <1>1, <1>2, <2>1, <2>2, <2>3, <2>4, <2>5 DEF Shaped, SameDocs
<1>4. ASSUME NEW S, Leads(p, S) PROVE Leads(r, S \ p.about)
  <2>1. p.toc = [d \in E!Navigation(p) |-> p.toc[d]] /\ \A d \in E!Navigation(p) : E!Listing(p.toc[d], S, p.about)
    BY <1>4 DEF Leads
  <2>2. DOMAIN p.toc = E!Navigation(p)
    BY <2>1
  <2>3. r.toc = [d \in E!Navigation(r) |-> E!WithoutEntries(p.toc[d], p.about)]
    BY <1>1, <1>2, <2>2 DEF SameDocs
  <2>4. \A d \in E!Navigation(r) : E!Listing(r.toc[d], S \ p.about, {})
    BY <1>2, <2>1, <2>3, ListingLess DEF SameDocs
  <2>5. r.toc = [d \in E!Navigation(r) |-> r.toc[d]]
    BY <2>3
  <2>6. E!CoverOf(r) \cup ({r.start} \ {None}) \subseteq S \ p.about
    BY <1>1, <1>4 DEF Leads, Rest, SameCovers, E!CoverOf
  <2> QED
    BY <1>1, <2>4, <2>5, <2>6 DEF Leads
<1>5. StaysLed(r, p)
  <2> SUFFICES ASSUME NEW N, Leads(p, DOMAIN p.kind \ N) PROVE Leads(r, DOMAIN r.kind \ N)
    BY DEF StaysLed
  <2>1. (DOMAIN p.kind \ N) \ p.about = DOMAIN r.kind \ N
    BY <1>2
  <2> QED
    BY <1>4, <2>1
<1> QED
  BY <1>1, <1>2, <1>3, <1>5 DEF Fits

LEMMA CoveredWhole ==
  ASSUME NEW p, Shaped(p), NEW publication, NEW r, r = E!Covered(p, publication)
  PROVE  /\ Fits(r, p)
         /\ DOMAIN r.kind \in {DOMAIN p.kind, DOMAIN p.kind \cup {E!Cover}}
         /\ r.about = p.about
<1>1. CASE r = p
  BY <1>1 DEF Fits, StaysLed, SameDocs
<1>2. CASE CoverAdded(r, p)
  <2>1. SameDocs(r, p) /\ DOMAIN r.kind = DOMAIN p.kind \cup {E!Cover}
    <3>1. E!Cover \notin E!Navigation(p)
      BY DEF Shaped
    <3>2. r.kind = [i \in DOMAIN p.kind \cup {E!Cover} |-> IF i = E!Cover THEN "image" ELSE p.kind[i]]
      BY <1>2 DEF CoverAdded
    <3>3. "image" \in {"page", "image"}
      OBVIOUS
    <3> QED
      BY <3>1, <3>2, <3>3, KindsAdded
  <2>2. ~E!IsAbout(E!Cover) /\ E!Cover # E!About
    BY DEF E!IsAbout, E!Cover, E!About, E!Own
  <2>3. Shaped(r)
    <3>1. r.spine \in Seq(DOMAIN r.kind)
      BY <1>2, <2>1, SeqMore DEF Shaped, Pages, CoverAdded
    <3>2. r.kind \in [DOMAIN r.kind -> {"page", "image", "nav", "ncx"}]
      BY <1>2, <2>1 DEF Shaped, CoverAdded
    <3>3. {i \in DOMAIN r.kind : E!IsAbout(i)} = p.about
      BY <2>1, <2>2 DEF Shaped
    <3>4. r.cover # {} => r.older \in r.cover \cup {None}
      BY <1>2 DEF CoverAdded
    <3> QED
      BY <1>2, <2>1, <3>1, <3>2, <3>3, <3>4 DEF Shaped, SameDocs, Pages, CoverAdded
  <2>4. ASSUME NEW S, Leads(p, S) PROVE Leads(r, S \cup {E!Cover})
    <3>1. r.toc = [d \in E!Navigation(r) |-> r.toc[d]]
      BY <1>2, <2>1, <2>4 DEF Leads, SameDocs, CoverAdded
    <3>2. \A d \in E!Navigation(r) : E!Listing(r.toc[d], S \cup {E!Cover}, r.about)
      BY <1>2, <2>1, <2>4, ListingMore DEF Leads, SameDocs, Pages, CoverAdded
    <3>3. E!CoverOf(r) \subseteq {E!Cover}
      BY <1>2 DEF E!CoverOf, CoverAdded
    <3>4. E!Cover \notin p.about
      BY <2>2 DEF Shaped
    <3> QED
      BY <1>2, <2>4, <3>1, <3>2, <3>3, <3>4 DEF Leads, Rest, Pages, CoverAdded
  <2>5. StaysLed(r, p)
    <3> SUFFICES ASSUME NEW N, N \subseteq E!Navigation(p), Leads(p, DOMAIN p.kind \ N)
                 PROVE  Leads(r, DOMAIN r.kind \ N)
      BY DEF StaysLed
    <3>1. (DOMAIN p.kind \ N) \cup {E!Cover} = DOMAIN r.kind \ N
      BY <2>1 DEF Shaped
    <3> QED
      BY <2>4, <3>1
  <2> QED
    BY <1>2, <2>1, <2>3, <2>5 DEF Pages, CoverAdded, Fits
<1> QED
  BY <1>1, <1>2, CoveredFields DEF Shaped

LEMMA WithAboutWhole ==
  ASSUME NEW p, Shaped(p), p.about = {}, NEW publication, NEW r, r = E!WithAbout(p, publication)
  PROVE  /\ Fits(r, p)
         /\ E!About \notin DOMAIN p.kind
         /\ DOMAIN r.kind \in {DOMAIN p.kind, DOMAIN p.kind \cup {E!About}}
<1>0. E!About \notin DOMAIN p.kind /\ E!IsAbout(E!About)
  BY DEF Shaped, E!IsAbout, E!About, E!Own
<1>1. CASE r = p
  BY <1>0, <1>1 DEF Fits, StaysLed, SameDocs
<1>2. CASE AboutAdded(r, p)
  <2>1. SameDocs(r, p) /\ DOMAIN r.kind = DOMAIN p.kind \cup {E!About}
    <3>1. E!About \notin E!Navigation(p)
      BY DEF Shaped
    <3> QED
      BY <1>2, <3>1, KindsAdded DEF AboutAdded
  <2>3. Shaped(r)
    <3>1. r.spine \in Seq(DOMAIN r.kind) /\ r.spine # <<>> /\ r.spine[1] # E!About
      <4>1. p.spine \in Seq(DOMAIN p.kind) /\ p.spine # <<>>
        BY DEF Shaped
      <4> DEFINE items == DOMAIN r.kind
                 pages == p.spine
                 page == E!About
      <4>2. pages \in Seq(items) /\ page \in items
        BY <2>1, <4>1, SeqMore
      <4>3. Len(pages) # 0 /\ Len(pages) \in Nat /\ pages[1] \in DOMAIN p.kind
        BY <4>1
      <4> HIDE DEF items, pages, page
      <4>4. Append(pages, page) \in Seq(items) /\ Append(pages, page)[1] = pages[1]
            /\ Append(pages, page) # <<>>
        BY <4>2, <4>3
      <4> QED
        BY <1>0, <1>2, <4>3, <4>4 DEF items, pages, page, AboutAdded
    <3>2. r.kind \in [DOMAIN r.kind -> {"page", "image", "nav", "ncx"}]
      BY <1>2, <2>1 DEF Shaped, AboutAdded
    <3>3. {i \in DOMAIN r.kind : E!IsAbout(i)} = {E!About}
      BY <1>0, <2>1 DEF Shaped
    <3>4. r.cover # {} => r.older \in r.cover \cup {None}
      BY <1>2 DEF Shaped, SameCovers, AboutAdded
    <3> QED
      BY <1>2, <2>1, <3>1, <3>2, <3>3, <3>4 DEF Shaped, SameDocs, AboutAdded
  <2>4. ASSUME NEW S, Leads(p, S), E!About \notin S PROVE Leads(r, S \cup {E!About})
    <3>1. p.toc = [d \in E!Navigation(p) |-> p.toc[d]] /\ \A d \in E!Navigation(p) : E!Listing(p.toc[d], S, {})
      BY <2>4 DEF Leads
    <3>2. DOMAIN p.toc = E!Navigation(p)
      BY <3>1
    <3>3. r.toc = [d \in E!Navigation(r) |-> E!WithEntry(p.toc[d])]
      BY <1>2, <2>1, <3>2 DEF SameDocs, AboutAdded
    <3>4. \A d \in E!Navigation(r) : E!Listing(r.toc[d], S \cup {E!About}, {E!About})
      BY <2>1, <2>4, <3>1, <3>3, ListingWithEntry DEF SameDocs
    <3>5. r.toc = [d \in E!Navigation(r) |-> r.toc[d]]
      BY <3>3
    <3>6. E!CoverOf(r) \cup ({r.start} \ {None}) \subseteq S
      BY <1>2, <2>4 DEF Leads, Rest, SameCovers, E!CoverOf, AboutAdded
    <3>7. S \subseteq (S \cup {E!About}) \ r.about
      BY <1>2, <2>4 DEF AboutAdded
    <3>8. r.about = {E!About}
      BY <1>2 DEF AboutAdded
    <3> QED
      BY <3>4, <3>5, <3>6, <3>7, <3>8 DEF Leads
  <2>5. StaysLed(r, p)
    <3> SUFFICES ASSUME NEW N, N \subseteq E!Navigation(p), Leads(p, DOMAIN p.kind \ N)
                 PROVE  Leads(r, DOMAIN r.kind \ N)
      BY DEF StaysLed
    <3>1. (DOMAIN p.kind \ N) \cup {E!About} = DOMAIN r.kind \ N
      BY <2>1 DEF Shaped
    <3> QED
      BY <1>0, <2>4, <3>1
  <2> QED
    BY <1>0, <2>1, <2>3, <2>5 DEF Fits
<1>3. DOMAIN p = E!Parts
  BY DEF Shaped
<1> QED
  BY <1>1, <1>2, <1>3, WithAboutFields

\* The author's text, its entries in their order and its resources are kept.
SameTexts(s, t) ==
    /\ Len(E!Labels(s)) = Len(E!Labels(t)) /\ E!Targets(E!Labels(s)) = E!Targets(E!Labels(t))
    /\ Len(E!Labels(t)) > 1 => E!Labels(s) = E!Labels(t)
Kept(r, p) ==
    /\ E!Authors(r.spine) = E!Authors(p.spine)
    /\ SameTexts(E!Contents(r), E!Contents(p))
    /\ p.files \ E!Generated \subseteq r.files

LEMMA KeptTwice ==
  ASSUME NEW p, NEW q, NEW r, Kept(q, p), Kept(r, q)
  PROVE  Kept(r, p)
<1>1. SameTexts(E!Contents(r), E!Contents(p))
  BY DEF Kept, SameTexts
<1> QED
  BY <1>1 DEF Kept

LEMMA KeptSame ==
  ASSUME NEW p, NEW r, SameDocs(r, p), r.toc = p.toc, r.spine = p.spine, p.files \subseteq r.files
  PROVE  Kept(r, p)
<1>1. E!Contents(r) = E!Contents(p)
  BY ContentsOf
<1> QED
  BY <1>1 DEF Kept, SameTexts

LEMMA LeadsTypes ==
  ASSUME NEW p, NEW S, Leads(p, S), NEW d \in E!Navigation(p)
  PROVE  d \in DOMAIN p.toc /\ p.toc[d] \in Seq(Lines(S))
<1>1. p.toc = [e \in E!Navigation(p) |-> p.toc[e]] /\ E!Listing(p.toc[d], S, p.about)
  BY DEF Leads
<1>2. d \in DOMAIN p.toc
  BY <1>1
<1> QED
  BY <1>1, <1>2, ListingParts

LEMMA RelabelledKept ==
  ASSUME NEW p, Shaped(p), NEW S, Leads(p, S), NEW r, r = E!Relabelled(p)
  PROVE  Kept(r, p)
<1>1. /\ Stored(r, p) /\ Pages(r, p) /\ r.toc = [d \in DOMAIN p.toc |-> E!Titled(p.toc[d])]
  BY RelabelledFields DEF Shaped
<1>2. SameDocs(r, p)
  BY RelabelledWhole DEF Fits
<1>3. SameTexts(E!Contents(r), E!Contents(p))
  <2>1. ASSUME NEW d \in E!Navigation(p), E!Contents(p) = p.toc[d], E!Contents(r) = r.toc[d]
        PROVE  SameTexts(E!Contents(r), E!Contents(p))
    <3>1. p.toc[d] \in Seq(Lines(S)) /\ r.toc[d] = E!Titled(p.toc[d])
      BY <1>1, LeadsTypes
    <3>2. /\ E!Targets(E!Labels(E!Titled(p.toc[d]))) = E!Targets(E!Labels(p.toc[d]))
          /\ Len(E!Labels(p.toc[d])) > 1 => E!Labels(E!Titled(p.toc[d])) = E!Labels(p.toc[d])
          /\ Len(E!Labels(E!Titled(p.toc[d]))) = Len(E!Labels(p.toc[d]))
      BY <3>1, TitledLabels
    <3> QED
      BY <2>1, <3>1, <3>2 DEF SameTexts
  <2>2. CASE E!Contents(p) = <<>> /\ E!Contents(r) = <<>>
    BY <2>2 DEF SameTexts
  <2> QED
    BY <1>2, <2>1, <2>2, ContentsOf
<1> QED
  BY <1>1, <1>3 DEF Kept, Pages, Stored

LEMMA WithoutAboutKept ==
  ASSUME NEW p, Shaped(p), NEW S, Leads(p, S), NEW r, r = E!WithoutAbout(p)
  PROVE  Kept(r, p)
<1>0. p.about \in SUBSET E!Generated
  BY DEF Shaped, E!Generated
<1>1. /\ r.toc = [d \in DOMAIN p.toc |-> E!WithoutEntries(p.toc[d], p.about)]
      /\ r.files = p.files \ p.about /\ r.spine = E!WithoutPages(p.spine, p.about)
  <2>1. AboutTaken(r, p)
    BY WithoutAboutFields DEF Shaped
  <2> QED
    BY <2>1 DEF AboutTaken
<1>2. SameDocs(r, p)
  BY WithoutAboutWhole DEF Fits
<1>3. SameTexts(E!Contents(r), E!Contents(p))
  <2>1. ASSUME NEW d \in E!Navigation(p), E!Contents(p) = p.toc[d], E!Contents(r) = r.toc[d]
        PROVE  SameTexts(E!Contents(r), E!Contents(p))
    <3>1. p.toc[d] \in Seq(Lines(S)) /\ r.toc[d] = E!WithoutEntries(p.toc[d], p.about)
      BY <1>1, LeadsTypes
    <3>2. E!Labels(E!WithoutEntries(p.toc[d], p.about)) = E!Labels(p.toc[d])
      BY <1>0, <3>1, LabelsOfFewer
    <3> QED
      BY <2>1, <3>1, <3>2 DEF SameTexts
  <2>2. CASE E!Contents(p) = <<>> /\ E!Contents(r) = <<>>
    BY <2>2 DEF SameTexts
  <2> QED
    BY <1>2, <2>1, <2>2, ContentsOf
<1>4. E!Authors(r.spine) = E!Authors(p.spine)
  <2>1. p.spine \in Seq(DOMAIN p.kind) /\ Alike(p.spine, p.spine)
    BY DEF Shaped, Alike
  <2>2. Left(Left(p.spine, p.spine, p.about), Left(p.spine, p.spine, p.about), E!Generated)
          = Left(p.spine, p.spine, p.about \cup E!Generated)
    BY <2>1, LeftTwice
  <2>3. p.about \cup E!Generated = E!Generated
    BY <1>0
  <2> QED
    BY <1>1, <2>2, <2>3, PagesLeft DEF E!Authors
<1> QED
  BY <1>0, <1>1, <1>3, <1>4 DEF Kept

\* Covers: kept, or the one that was asked for.
Asked(p, publication) ==
    publication # None /\ publication.cover /\ (E!CoverOf(p) = {} \/ publication.override)
CoverTold(r, p, publication) == E!CoverOf(r) = E!CoverOf(p) \/ Asked(p, publication)

-----------------------------------------------------------------------------
(* Edition: what an archive is written with.                               *)

LEMMA DecoratedWhole ==
  ASSUME NEW p, Shaped(p), Leads(p, DOMAIN p.kind), NEW publication, publication # None,
         NEW about, NEW r, r = E!Decorated(p, publication, about)
  PROVE  /\ Fits(r, p) /\ DOMAIN r.kind \subseteq DOMAIN p.kind \cup {E!Cover, E!About}
         /\ ~about => Kept(r, p) /\ r.about = {}
         /\ CoverTold(r, p, publication)
<1> DEFINE q == E!WithoutAbout(p)
           c == E!Covered(q, publication)
<1>1. /\ Fits(q, p) /\ q.about = {} /\ DOMAIN q.kind = DOMAIN p.kind \ p.about /\ Kept(q, p)
      /\ Shaped(q) /\ SameCovers(q, p)
  <2>1. Fits(q, p) /\ q.about = {} /\ DOMAIN q.kind = DOMAIN p.kind \ p.about
    BY WithoutAboutWhole
  <2>2. Kept(q, p)
    BY WithoutAboutKept
  <2>3. SameCovers(q, p)
    <3>1. AboutTaken(q, p)
      BY WithoutAboutFields DEF Shaped
    <3> QED
      BY <3>1 DEF AboutTaken
  <2> QED
    BY <2>1, <2>2, <2>3 DEF Fits
<1>2. r = IF about THEN E!WithAbout(c, publication) ELSE c
  BY DEF E!Decorated
<1> HIDE DEF q
<1>3. /\ Fits(c, q) /\ DOMAIN c.kind \subseteq DOMAIN q.kind \cup {E!Cover} /\ c.about = {}
      /\ Shaped(c)
  <2>1. /\ Fits(c, q) /\ DOMAIN c.kind \in {DOMAIN q.kind, DOMAIN q.kind \cup {E!Cover}}
        /\ c.about = q.about
    BY <1>1, CoveredWhole
  <2> QED
    BY <1>1, <2>1 DEF Fits
<1>4. Kept(c, q) /\ CoverTold(c, p, publication)
  <2>1. DOMAIN q = E!Parts
    BY <1>1 DEF Shaped
  <2>2. CASE c = q
    <3>1. Kept(c, q)
      BY <2>2, KeptSame DEF SameDocs
    <3> QED
      BY <1>1, <2>2, <3>1 DEF CoverTold, SameCovers, E!CoverOf
  <2>3. CASE publication.cover /\ (E!CoverOf(q) = {} \/ publication.override) /\ CoverAdded(c, q)
    <3>1. Kept(c, q)
      BY <1>3, <2>3, KeptSame DEF CoverAdded, Pages, Fits
    <3> QED
      BY <1>1, <2>3, <3>1 DEF CoverTold, Asked, SameCovers, E!CoverOf
  <2> QED
    BY <2>1, <2>2, <2>3, CoveredFields
<1>5. Fits(c, p) /\ Kept(c, p)
  BY <1>1, <1>3, <1>4, FitsTwice, KeptTwice
<1> HIDE DEF c
<1>6. CASE ~about
  BY <1>1, <1>2, <1>3, <1>4, <1>5, <1>6
<1>7. CASE about
  <2>1. r = E!WithAbout(c, publication)
    BY <1>2, <1>7
  <2>2. Fits(r, c) /\ DOMAIN r.kind \subseteq DOMAIN c.kind \cup {E!About}
    BY <1>3, <2>1, WithAboutWhole
  <2>3. SameCovers(r, c)
    <3>1. DOMAIN c = E!Parts
      BY <1>3 DEF Shaped
    <3>2. r = c \/ AboutAdded(r, c)
      BY <2>1, <3>1, WithAboutFields
    <3> QED
      BY <3>2 DEF SameCovers, AboutAdded
  <2>4. CoverTold(r, p, publication)
    BY <1>4, <2>3 DEF CoverTold, SameCovers, E!CoverOf
  <2>5. Fits(r, p)
    BY <1>5, <2>2, FitsTwice
  <2> QED
    BY <1>1, <1>3, <1>7, <2>2, <2>4, <2>5
<1> QED
  BY <1>6, <1>7

LEMMA MetadataWhole ==
  ASSUME NEW p, E!Whole(p), NEW publication, NEW preserve, NEW chapter, NEW about,
         NEW r, r = E!WithMetadata(p, publication, preserve, chapter, about), r # Failed
  PROVE  /\ E!Whole(r) /\ E!Valid(r) /\ Fits(r, p)
         /\ DOMAIN r.kind \subseteq DOMAIN p.kind \cup {E!Cover, E!About}
         /\ ~about => Kept(r, p) /\ (publication # None => r.about = {})
         /\ CoverTold(r, p, publication)
<1> DEFINE shown == [p EXCEPT !.identity = E!Identified(p, publication, preserve)]
           labelled == IF chapter THEN E!Relabelled(shown) ELSE shown
           made == IF publication = None THEN labelled ELSE E!Decorated(labelled, publication, about)
<1>0. Shaped(p) /\ Leads(p, DOMAIN p.kind)
  BY WholeLeads
<1>1. r = made /\ E!Valid(r)
  BY DEF E!WithMetadata, E!Written
<1>2. /\ Fits(shown, p) /\ Kept(shown, p) /\ SameCovers(shown, p) /\ DOMAIN shown.kind = DOMAIN p.kind
      /\ Shaped(shown) /\ Leads(shown, DOMAIN shown.kind)
  <2>1. Fits(shown, p)
    BY <1>0, NamedWhole
  <2>2. Stored(shown, p) /\ shown.toc = p.toc /\ SameCovers(shown, p) /\ Pages(shown, p)
    BY <1>0, NamedFields DEF Shaped
  <2> HIDE DEF shown
  <2>3. Kept(shown, p)
    BY <2>1, <2>2, KeptSame DEF Fits, Stored, Pages
  <2>4. E!Whole(shown)
    BY <1>0, <2>1, FitsWhole
  <2> QED
    BY <2>1, <2>2, <2>3, <2>4, WholeLeads DEF Stored
<1> HIDE DEF shown
<1>3. /\ Fits(labelled, p) /\ Kept(labelled, p) /\ SameCovers(labelled, p) /\ DOMAIN labelled.kind = DOMAIN p.kind
      /\ Shaped(labelled) /\ Leads(labelled, DOMAIN labelled.kind)
  <2>1. CASE ~chapter
    BY <1>2, <2>1
  <2>2. CASE chapter
    <3> DEFINE q == E!Relabelled(shown)
    <3>1. Fits(q, shown) /\ Kept(q, shown)
      BY <1>2, RelabelledWhole, RelabelledKept
    <3>2. Stored(q, shown) /\ SameCovers(q, shown)
      BY <1>2, RelabelledFields DEF Shaped
    <3> HIDE DEF q
    <3>3. Fits(q, p) /\ Kept(q, p)
      BY <1>2, <3>1, FitsTwice, KeptTwice
    <3>4. E!Whole(q)
      BY <1>0, <3>3, FitsWhole
    <3>5. labelled = q
      BY <2>2 DEF q
    <3> QED
      BY <1>2, <3>2, <3>3, <3>4, <3>5, WholeLeads DEF Stored, SameCovers
  <2> QED
    BY <2>1, <2>2
<1> HIDE DEF labelled
<1>4. /\ Fits(r, p) /\ DOMAIN r.kind \subseteq DOMAIN p.kind \cup {E!Cover, E!About}
      /\ ~about => Kept(r, p) /\ (publication # None => r.about = {})
      /\ CoverTold(r, p, publication)
  <2>1. CASE publication = None
    BY <1>1, <1>3, <2>1 DEF CoverTold, SameCovers, E!CoverOf
  <2>2. CASE publication # None
    <3>1. r = E!Decorated(labelled, publication, about)
      BY <1>1, <2>2
    <3>2. /\ Fits(r, labelled) /\ DOMAIN r.kind \subseteq DOMAIN labelled.kind \cup {E!Cover, E!About}
          /\ ~about => Kept(r, labelled) /\ r.about = {}
          /\ CoverTold(r, labelled, publication)
      BY <1>3, <2>2, <3>1, DecoratedWhole
    <3>3. Fits(r, p) /\ (~about => Kept(r, p))
      BY <1>3, <3>2, FitsTwice, KeptTwice
    <3>4. CoverTold(r, p, publication)
      BY <1>3, <3>2 DEF CoverTold, Asked, SameCovers, E!CoverOf
    <3> QED
      BY <1>3, <3>2, <3>3, <3>4
  <2> QED
    BY <2>1, <2>2
<1>5. E!Whole(r)
  BY <1>0, <1>4, FitsWhole
<1> QED
  BY <1>1, <1>4, <1>5

-----------------------------------------------------------------------------
(* Edition: the author's note before the text.                             *)

\* What leads nowhere but to these items is a table of them.
LEMMA ListingWithin ==
  ASSUME NEW S, NEW T, NEW A, NEW toc, E!Listing(toc, S, A), \A k \in DOMAIN toc : toc[k].to \in T
  PROVE  E!Listing(toc, T, A)
<1>1. /\ toc \in Seq(Lines(S)) /\ (toc # <<>> => toc[1].depth = 0)
      /\ \A k \in DOMAIN toc : toc[k].to \in A => k = Len(toc)
  BY ListingParts
<1>2. ASSUME NEW k \in DOMAIN toc PROVE toc[k] \in Lines(T)
  <2>1. toc[k] \in Lines(S) /\ toc[k].to \in T
    BY <1>1
  <2> QED
    BY <2>1, LineParts DEF Lines
<1>3. Len(toc) \in Nat /\ DOMAIN toc = 1..Len(toc) /\ toc \in [1..Len(toc) -> Lines(S)]
  BY <1>1, SeqByIndex
<1>4. toc \in Seq(Lines(T))
  <2>1. toc \in [1..Len(toc) -> Lines(T)]
    BY <1>2, <1>3
  <2> QED
    BY <1>3, <2>1, FunctionIsSeq
<1> QED
  BY <1>1, <1>4, ListingParts

LEMMA ListingAims ==
  ASSUME NEW S, NEW A, NEW toc, E!Listing(toc, S, A)
  PROVE  /\ E!ToSet(E!Aim(toc)) = {toc[k].to : k \in DOMAIN toc} /\ E!ToSet(E!Aim(toc)) \subseteq S
         /\ \A k \in DOMAIN toc : toc[k].to \in S
<1>1. toc \in Seq(Lines(S))
  BY ListingParts
<1>2. \A k \in DOMAIN toc : toc[k].to \in S
  BY <1>1, LineParts
<1> QED
  BY <1>2 DEF E!ToSet, E!Aim

LEMMA UnledLeads ==
  ASSUME NEW p, E!Whole(p)
  PROVE  E!Unled(p) <=> Leads(p, DOMAIN p.kind \ E!OfKind(p, {"ncx"}))
<1> DEFINE items == DOMAIN p.kind
           ncx == E!OfKind(p, {"ncx"})
           from(d) == E!ToSet(E!Aim(p.toc[d]))
           led == E!CoverOf(p) \cup ({p.start} \ {None}) \cup UNION {from(d) : d \in E!Navigation(p)}
<1>1. Leads(p, items) /\ Shaped(p)
  BY WholeLeads
<1>2. E!Unled(p) <=> led \cap ncx = {}
  BY DEF E!Unled
<1>3. \A d \in E!Navigation(p) : /\ E!Listing(p.toc[d], items, p.about)
                                 /\ from(d) = {p.toc[d][k].to : k \in DOMAIN p.toc[d]}
                                 /\ \A k \in DOMAIN p.toc[d] : p.toc[d][k].to \in items
  BY <1>1, ListingAims DEF Leads
<1>4. ncx \subseteq items
  BY DEF E!OfKind
<1> HIDE DEF ncx, items
<1>5. ASSUME led \cap ncx = {} PROVE Leads(p, items \ ncx)
  <2>1. ASSUME NEW d \in E!Navigation(p) PROVE E!Listing(p.toc[d], items \ ncx, p.about)
    <3>1. from(d) \in {from(e) : e \in E!Navigation(p)}
      OBVIOUS
    <3> HIDE DEF from
    <3>2. \A k \in DOMAIN p.toc[d] : p.toc[d][k].to \in items \ ncx
      BY <1>3, <1>5, <3>1
    <3> QED
      BY <1>3, <3>2, ListingWithin
  <2>2. E!CoverOf(p) \cup ({p.start} \ {None}) \subseteq (items \ ncx) \ p.about
    BY <1>1, <1>5 DEF Leads
  <2> QED
    BY <1>1, <2>1, <2>2 DEF Leads
<1>6. ASSUME Leads(p, items \ ncx) PROVE led \cap ncx = {}
  <2>1. ASSUME NEW d \in E!Navigation(p) PROVE from(d) \cap ncx = {}
    <3>1. E!Listing(p.toc[d], items \ ncx, p.about)
      BY <1>6 DEF Leads
    <3>2. \A k \in DOMAIN p.toc[d] : p.toc[d][k].to \in items \ ncx
      BY <3>1, ListingAims
    <3> QED
      BY <1>3, <3>2
  <2>2. (E!CoverOf(p) \cup ({p.start} \ {None})) \cap ncx = {}
    BY <1>6 DEF Leads
  <2> HIDE DEF from
  <2> QED
    BY <2>1, <2>2
<1> QED
  BY <1>2, <1>5, <1>6 DEF ncx, items

Noted(p) == [i \in DOMAIN p.kind \cup {E!Preface} |-> IF i = E!Preface THEN "page" ELSE p.kind[i]]

\* What both have in common: an EPUB 3 with the note first.
Prefixed(r, p) ==
    /\ DOMAIN r = E!Parts /\ r.version = 3 /\ r.spine = <<E!Preface>> \o p.spine
    /\ r.cover = E!UpgradedCover(p) /\ r.older = None /\ r.about = p.about
    /\ r.start = IF p.start = None THEN Head(p.spine) ELSE p.start

\* An EPUB 3 keeps its tables of contents.
PrefixedThere(r, p) ==
    /\ Prefixed(r, p) /\ r.kind = Noted(p) /\ r.files = p.files \cup {E!Preface}
    /\ r.toc = [d \in DOMAIN p.toc |->
                   IF d \in E!OfKind(r, {"nav"}) THEN E!Spliced(p.toc[d]) ELSE p.toc[d]]

\* An EPUB 2 gets a navigation document in their place.
PrefixedAnew(r, p) ==
    LET others == (DOMAIN p.kind \cup {E!Preface}) \ E!OfKind(p, {"ncx"}) IN
    /\ Prefixed(r, p)
    /\ r.kind = [i \in others \cup {E!GeneratedNav} |-> IF i = E!GeneratedNav THEN "nav" ELSE Noted(p)[i]]
    /\ r.files = ((p.files \cup {E!Preface}) \ E!OfKind(p, {"ncx"})) \cup {E!GeneratedNav}
    /\ r.toc = [d \in {E!GeneratedNav} |-> E!Spliced(E!Contents(p))]

LEMMA NavigatedFields ==
  ASSUME NEW p, DOMAIN p = E!Parts, NEW first, NEW r, r = E!Navigated(p, first)
  PROVE  /\ DOMAIN r = E!Parts /\ r.version = p.version /\ Stored(r, p) /\ SameCovers(r, p) /\ Pages(r, p)
         /\ r.toc = [d \in DOMAIN p.toc |->
                       IF d \in E!OfKind(p, {"nav"}) THEN E!Spliced(p.toc[d]) ELSE p.toc[d]]
         /\ r.start = IF p.start = None THEN first ELSE p.start
BY DEF E!Navigated, E!Parts, Stored, SameCovers, Pages

LEMMA WrappedFields ==
  ASSUME NEW p, Shaped(p), E!Preface \notin E!Navigation(p), NEW r, r = E!Wrapped(p), r # Failed
  PROVE  E!Valid(r) /\ IF p.version = 2 THEN PrefixedAnew(r, p) ELSE PrefixedThere(r, p)
<1> DEFINE upgraded == E!Sanitized([p EXCEPT !.cover = E!UpgradedCover(p)])
           added == E!Add(upgraded, E!Preface, "page")
           prefaced == [added EXCEPT !.spine = <<E!Preface>> \o added.spine]
           replaced == IF p.version = 2 THEN E!ReplacedTOC(prefaced) ELSE prefaced
           raised == [replaced EXCEPT !.version = 3]
           made == E!Navigated(raised, Head(p.spine))
<1>1. r = made /\ E!Valid(r)
  BY DEF E!Wrapped, E!Written
<1>2. DOMAIN p = E!Parts /\ p.version \in {2, 3}
  BY DEF Shaped
<1>3. /\ DOMAIN upgraded = E!Parts /\ upgraded.version = p.version /\ Stored(upgraded, p)
      /\ upgraded.toc = p.toc /\ upgraded.start = p.start /\ Pages(upgraded, p)
      /\ upgraded.cover = E!UpgradedCover(p) /\ upgraded.older = None
  BY <1>2 DEF E!Sanitized, E!Parts, Stored, Pages
<1> HIDE DEF upgraded
<1>4. /\ DOMAIN added = E!Parts /\ added.version = p.version /\ added.toc = p.toc
      /\ added.kind = Noted(p) /\ added.files = p.files \cup {E!Preface}
      /\ added.start = p.start /\ Pages(added, p)
      /\ added.cover = E!UpgradedCover(p) /\ added.older = None
  <2>1. /\ DOMAIN added = E!Parts /\ added.version = upgraded.version /\ added.toc = upgraded.toc
        /\ added.kind = [i \in DOMAIN upgraded.kind \cup {E!Preface} |->
                           IF i = E!Preface THEN "page" ELSE upgraded.kind[i]]
        /\ added.files = upgraded.files \cup {E!Preface} /\ Rest(added, upgraded)
        /\ SameCovers(added, upgraded) /\ Pages(added, upgraded)
    BY <1>3, AddFields
  <2> QED
    BY <1>3, <2>1 DEF Noted, Stored, Rest, SameCovers, Pages
<1> HIDE DEF added
<1>5. /\ DOMAIN prefaced = E!Parts /\ prefaced.version = p.version /\ prefaced.toc = p.toc
      /\ prefaced.kind = Noted(p) /\ prefaced.files = p.files \cup {E!Preface}
      /\ prefaced.start = p.start /\ prefaced.about = p.about
      /\ prefaced.spine = <<E!Preface>> \o p.spine
      /\ prefaced.cover = E!UpgradedCover(p) /\ prefaced.older = None
  BY <1>4 DEF E!Parts, Pages
<1> HIDE DEF prefaced
<1>6. SameDocs(prefaced, p)
  <2>1. prefaced.kind = [i \in DOMAIN p.kind \cup {E!Preface} |-> IF i = E!Preface THEN "page" ELSE p.kind[i]]
    BY <1>5 DEF Noted
  <2>2. "page" \in {"page", "image"}
    OBVIOUS
  <2> QED
    BY <2>1, <2>2, KindsAdded
<1>7. CASE p.version = 2
  <2> DEFINE gone == E!OfKind(prefaced, {"ncx"})
             dropped == E!Drop(prefaced, gone)
             new == E!Add(dropped, E!GeneratedNav, "nav")
  <2>1. /\ DOMAIN dropped = E!Parts /\ dropped.version = prefaced.version
        /\ dropped.kind = [i \in DOMAIN prefaced.kind \ gone |-> prefaced.kind[i]]
        /\ dropped.files = prefaced.files \ gone
        /\ Rest(dropped, prefaced) /\ SameCovers(dropped, prefaced) /\ Pages(dropped, prefaced)
    <3> HIDE DEF gone
    <3>1. ItemsTaken(dropped, prefaced, gone)
      BY <1>5, DropFields
    <3> QED
      BY <3>1 DEF ItemsTaken
  <2> HIDE DEF dropped
  <2>2. /\ DOMAIN new = E!Parts /\ new.version = dropped.version
        /\ new.kind = [i \in DOMAIN dropped.kind \cup {E!GeneratedNav} |->
                         IF i = E!GeneratedNav THEN "nav" ELSE dropped.kind[i]]
        /\ new.files = dropped.files \cup {E!GeneratedNav} /\ Rest(new, dropped)
        /\ SameCovers(new, dropped) /\ Pages(new, dropped)
    BY <2>1, AddFields
  <2>3. replaced = [new EXCEPT !.toc = [d \in {E!GeneratedNav} |-> E!Contents(prefaced)]]
    BY <1>7 DEF E!ReplacedTOC, dropped
  <2> HIDE DEF new
  <2>4. E!Contents(prefaced) = E!Contents(p)
    BY <1>5, <1>6, ContentsOf
  <2>5. /\ DOMAIN replaced = E!Parts /\ replaced.toc = [d \in {E!GeneratedNav} |-> E!Contents(p)]
        /\ replaced.kind = new.kind /\ replaced.files = new.files /\ replaced.start = new.start
        /\ SameCovers(replaced, new) /\ Pages(replaced, new)
    BY <2>2, <2>3, <2>4 DEF E!Parts, SameCovers, Pages
  <2> HIDE DEF replaced
  <2>6. /\ DOMAIN raised = E!Parts /\ raised.toc = replaced.toc /\ raised.version = 3
        /\ raised.kind = new.kind /\ raised.files = new.files /\ raised.start = p.start
        /\ raised.spine = <<E!Preface>> \o p.spine /\ raised.about = p.about
        /\ raised.cover = E!UpgradedCover(p) /\ raised.older = None
    BY <1>5, <2>1, <2>2, <2>5 DEF E!Parts, SameCovers, Pages, Rest
  <2> HIDE DEF raised
  <2>7. /\ DOMAIN r = E!Parts /\ r.version = 3 /\ Stored(r, raised) /\ SameCovers(r, raised) /\ Pages(r, raised)
        /\ r.toc = [d \in DOMAIN raised.toc |->
                       IF d \in E!OfKind(raised, {"nav"}) THEN E!Spliced(raised.toc[d]) ELSE raised.toc[d]]
        /\ r.start = IF raised.start = None THEN Head(p.spine) ELSE raised.start
    BY <1>1, <2>6, NavigatedFields
  <2>8. Prefixed(r, p)
    BY <2>6, <2>7 DEF Prefixed, SameCovers, Pages
  <2> DEFINE others == (DOMAIN p.kind \cup {E!Preface}) \ E!OfKind(p, {"ncx"})
  <2>9. r.kind = [i \in others \cup {E!GeneratedNav} |-> IF i = E!GeneratedNav THEN "nav" ELSE Noted(p)[i]]
    <3>1. DOMAIN dropped.kind = others
      BY <1>5, <1>6, <2>1 DEF SameDocs, Noted
    <3>2. \A i \in others : dropped.kind[i] = Noted(p)[i]
      BY <1>5, <1>6, <2>1 DEF SameDocs, Noted
    <3>3. r.kind = new.kind
      BY <2>6, <2>7 DEF Stored
    <3> HIDE DEF others
    <3> QED
      BY <2>2, <3>1, <3>2, <3>3
  <2>10. r.files = ((p.files \cup {E!Preface}) \ E!OfKind(p, {"ncx"})) \cup {E!GeneratedNav}
    BY <1>5, <1>6, <2>1, <2>2, <2>6, <2>7 DEF Stored, SameDocs
  <2>11. E!GeneratedNav \in E!OfKind(raised, {"nav"})
    BY <2>2, <2>6 DEF E!OfKind
  <2>12. r.toc = [d \in {E!GeneratedNav} |-> E!Spliced(E!Contents(p))]
    BY <2>5, <2>6, <2>7, <2>11
  <2> QED
    BY <1>1, <1>7, <2>8, <2>9, <2>10, <2>12 DEF PrefixedAnew
<1>8. CASE p.version = 3
  <2>1. replaced = prefaced
    BY <1>8
  <2> HIDE DEF replaced
  <2>2. /\ DOMAIN raised = E!Parts /\ raised.toc = p.toc /\ raised.version = 3
        /\ raised.kind = Noted(p) /\ raised.files = p.files \cup {E!Preface} /\ raised.start = p.start
        /\ raised.spine = <<E!Preface>> \o p.spine /\ raised.about = p.about
        /\ raised.cover = E!UpgradedCover(p) /\ raised.older = None
    BY <1>5, <2>1 DEF E!Parts
  <2> HIDE DEF raised
  <2>3. /\ DOMAIN r = E!Parts /\ r.version = 3 /\ Stored(r, raised) /\ SameCovers(r, raised) /\ Pages(r, raised)
        /\ r.toc = [d \in DOMAIN raised.toc |->
                       IF d \in E!OfKind(raised, {"nav"}) THEN E!Spliced(raised.toc[d]) ELSE raised.toc[d]]
        /\ r.start = IF raised.start = None THEN Head(p.spine) ELSE raised.start
    BY <1>1, <2>2, NavigatedFields
  <2>4. Prefixed(r, p)
    BY <2>2, <2>3 DEF Prefixed, SameCovers, Pages
  <2>5. r.kind = Noted(p) /\ r.files = p.files \cup {E!Preface}
    BY <2>2, <2>3 DEF Stored
  <2>6. E!OfKind(raised, {"nav"}) = E!OfKind(r, {"nav"})
    BY <2>3 DEF Stored, E!OfKind
  <2> QED
    BY <1>1, <1>8, <2>2, <2>3, <2>4, <2>5, <2>6 DEF PrefixedThere
<1> QED
  BY <1>2, <1>7, <1>8

\* The note is no text of the author's.
LEMMA AuthorsAfter ==
  ASSUME NEW T, NEW s \in Seq(T), NEW x \in E!Generated
  PROVE  E!Authors(<<x>> \o s) = E!Authors(s)
<1> DEFINE S == T \cup {x}
           G == E!Generated
           f == <<x>>
<1>1. s \in Seq(S) /\ f \in Seq(S)
  BY SeqMore
<1>2. Alike(s, s) /\ Alike(f, f)
  BY DEF Alike
<1>3. \A k \in DOMAIN f : f[k] \in G
  OBVIOUS
<1> HIDE DEF S, G, f
<1>4. Left(Then(f, s), Then(f, s), G) = Then(Left(f, f, G), Left(s, s, G))
  BY <1>1, <1>2, LeftJoin
<1>5. Left(f, f, G) = <<>>
  BY <1>3, LeftNone
<1>6. Left(s, s, G) \in Seq(S)
  BY <1>1, LeftTyped
<1>7. Then(<<>>, Left(s, s, G)) = Left(s, s, G)
  BY <1>6 DEF Then
<1> QED
  BY <1>4, <1>5, <1>7, PagesLeft DEF E!Authors, Then, G, f

LEMMA HeadOf ==
  ASSUME NEW p, Shaped(p)
  PROVE  Head(p.spine) = p.spine[1] /\ Head(p.spine) \in DOMAIN p.kind \ p.about
<1> DEFINE s == p.spine
           items == DOMAIN p.kind
<1>1. s \in Seq(items) /\ s # <<>> /\ s[1] \notin p.about
  BY DEF Shaped
<1> HIDE DEF s, items
<1>2. Head(s) = s[1] /\ s[1] \in items
  BY <1>1
<1> QED
  BY <1>1, <1>2 DEF s, items

\* What a valid archive lists as its pages is in it.
LEMMA SpineWithin ==
  ASSUME NEW r, E!Valid(r), NEW T, r.spine \in Seq(T)
  PROVE  r.spine \in Seq(DOMAIN r.kind) /\ r.spine # <<>>
<1> DEFINE s == r.spine
           items == DOMAIN r.kind
<1>1. E!ToSet(s) \subseteq items /\ s # <<>> /\ s \in Seq(T)
  BY DEF E!Valid, E!WellFormed
<1> HIDE DEF s, items
<1>2. \A k \in DOMAIN s : s[k] \in items
  BY <1>1 DEF E!ToSet
<1>3. Len(s) \in Nat /\ s \in [1..Len(s) -> items]
  BY <1>1, <1>2, SeqByIndex
<1>4. s \in Seq(items)
  BY <1>3, FunctionIsSeq
<1> QED
  BY <1>1, <1>4 DEF s, items

LEMMA PrefixedShaped ==
  ASSUME NEW p, Shaped(p), NEW r, Prefixed(r, p), E!Valid(r),
         r.kind \in [DOMAIN r.kind -> {"page", "image", "nav", "ncx"}],
         {i \in DOMAIN r.kind : E!IsAbout(i)} = p.about,
         E!Navigation(r) \cap {E!Preface, E!About, E!Cover} = {}
  PROVE  Shaped(r) /\ E!Authors(r.spine) = E!Authors(p.spine)
<1> DEFINE T == DOMAIN p.kind \cup {E!Preface}
           s == p.spine
           x == E!Preface
<1>1. s \in Seq(DOMAIN p.kind)
  BY DEF Shaped
<1>2. x \in E!Generated /\ x \notin p.about
  BY DEF Shaped, E!Generated, E!Preface, E!About, E!Own
<1>3. s \in Seq(T) /\ x \in T
  BY <1>1, SeqMore
<1>4. r.spine = <<x>> \o s
  BY DEF Prefixed
<1> HIDE DEF T, s, x
<1>5. <<x>> \o s \in Seq(T) /\ (<<x>> \o s)[1] = x
  BY <1>3
<1>6. r.spine \in Seq(DOMAIN r.kind) /\ r.spine # <<>>
  BY <1>4, <1>5, SpineWithin
<1>7. Shaped(r)
  BY <1>2, <1>4, <1>5, <1>6 DEF Shaped, Prefixed
<1>8. E!Authors(r.spine) = E!Authors(p.spine)
  BY <1>1, <1>2, <1>4, AuthorsAfter DEF s
<1> QED
  BY <1>7, <1>8

LEMMA PrefixedCovers ==
  ASSUME NEW p, Shaped(p), NEW r, Prefixed(r, p)
  PROVE  /\ E!CoverOf(r) \subseteq E!CoverOf(p)
         /\ (p.version = 3 => p.cover # {}) => E!CoverOf(r) = E!CoverOf(p)
<1>1. r.cover = E!UpgradedCover(p) /\ r.older = None
  BY DEF Prefixed
<1>2. E!CoverOf(r) = E!UpgradedCover(p)
  BY <1>1 DEF E!CoverOf
<1>3. p.cover # {} => p.older \in p.cover \cup {None}
  BY DEF Shaped
<1>4. p.version \in {2, 3}
  BY DEF Shaped
<1>5. CASE p.version = 2
  BY <1>2, <1>5 DEF E!CoverOf, E!UpgradedCover
<1>6. CASE p.version = 3
  BY <1>2, <1>3, <1>6 DEF E!CoverOf, E!UpgradedCover
<1> QED
  BY <1>4, <1>5, <1>6

LEMMA SplicedTexts ==
  ASSUME NEW S, NEW toc \in Seq(Lines(S)), E!Preface \in S
  PROVE  SameTexts(E!Spliced(toc), toc)
<1> DEFINE e == E!Entry(0, "note", E!Preface)
<1>1. e \in Lines(S) /\ e.to \in E!Generated
  <2>1. "note" \in E!Wording /\ 0 \in Nat
    BY DEF E!Wording
  <2> QED
    BY <2>1, EntryParts DEF E!Generated
<1>2. E!Spliced(toc) = Then(<<e>>, toc)
  BY DEF E!Spliced, Then
<1> HIDE DEF e
<1>3. E!Labels(E!Spliced(toc)) = E!Labels(toc)
  BY <1>1, <1>2, LabelsOfMore
<1> QED
  BY <1>3 DEF SameTexts

LEMMA PrefixedThereWhole ==
  ASSUME NEW p, Shaped(p), Leads(p, DOMAIN p.kind), E!Preface \notin DOMAIN p.kind,
         NEW r, PrefixedThere(r, p), E!Valid(r)
  PROVE  /\ E!Whole(r) /\ DOMAIN r.kind = DOMAIN p.kind \cup {E!Preface}
         /\ E!Authors(r.spine) = E!Authors(p.spine)
         /\ SameTexts(E!Contents(r), E!Contents(p)) /\ p.files \subseteq r.files
<1> DEFINE items == DOMAIN p.kind
           T == items \cup {E!Preface}
<1>1. Prefixed(r, p) /\ r.kind = Noted(p) /\ p.files \subseteq r.files
  BY DEF PrefixedThere
<1>2. SameDocs(r, p) /\ DOMAIN r.kind = T
  <2>1. r.kind = [i \in DOMAIN p.kind \cup {E!Preface} |-> IF i = E!Preface THEN "page" ELSE p.kind[i]]
    BY <1>1 DEF Noted
  <2>2. "page" \in {"page", "image"} /\ E!Preface \notin E!Navigation(p)
    BY DEF E!Navigation, E!OfKind
  <2> QED
    BY <2>1, <2>2, KindsAdded
<1>3. Shaped(r) /\ E!Authors(r.spine) = E!Authors(p.spine)
  <2>1. r.kind \in [T -> {"page", "image", "nav", "ncx"}]
    BY <1>1 DEF Shaped, Noted
  <2>2. ~E!IsAbout(E!Preface)
    BY DEF E!IsAbout, E!Preface, E!Own
  <2>3. {i \in T : E!IsAbout(i)} = p.about
    BY <2>2 DEF Shaped
  <2>4. E!Navigation(r) \cap {E!Preface, E!About, E!Cover} = {}
    BY <1>2 DEF Shaped, SameDocs
  <2> QED
    BY <1>1, <1>2, <2>1, <2>3, <2>4, PrefixedShaped
<1>4. p.toc = [d \in E!Navigation(p) |-> p.toc[d]] /\ \A d \in E!Navigation(p) : E!Listing(p.toc[d], items, p.about)
  BY DEF Leads
<1>5. /\ r.toc = [d \in E!Navigation(r) |-> r.toc[d]]
      /\ \A d \in E!Navigation(r) : r.toc[d] \in {p.toc[d], E!Spliced(p.toc[d])}
  <2>1. DOMAIN p.toc = E!Navigation(r)
    BY <1>2, <1>4 DEF SameDocs
  <2>2. r.toc = [d \in E!Navigation(r) |->
                   IF d \in E!OfKind(r, {"nav"}) THEN E!Spliced(p.toc[d]) ELSE p.toc[d]]
    BY <2>1 DEF PrefixedThere
  <2> QED
    BY <2>2
<1>6. Leads(r, T)
  <2>1. E!Preface \notin p.about
    BY DEF Shaped, E!Preface, E!About, E!Own
  <2>2. ASSUME NEW d \in E!Navigation(r) PROVE E!Listing(r.toc[d], T, p.about)
    <3>1. E!Listing(p.toc[d], items, p.about)
      BY <1>2, <1>4 DEF SameDocs
    <3>2. E!Listing(E!Spliced(p.toc[d]), T, p.about) /\ E!Listing(p.toc[d], T, p.about)
      BY <2>1, <3>1, ListingSpliced, ListingMore
    <3> QED
      BY <1>5, <3>2
  <2>3. E!CoverOf(r) \subseteq T \ p.about
    BY <1>1, PrefixedCovers DEF Leads
  <2>4. {r.start} \ {None} \subseteq T \ p.about
    BY <1>1, HeadOf DEF Leads, Prefixed
  <2>5. r.about = p.about
    BY <1>1 DEF Prefixed
  <2> QED
    BY <1>5, <2>2, <2>3, <2>4, <2>5 DEF Leads
<1>7. SameTexts(E!Contents(r), E!Contents(p))
  <2>1. CASE E!Contents(p) = <<>> /\ E!Contents(r) = <<>>
    BY <2>1 DEF SameTexts
  <2>2. ASSUME NEW d \in E!Navigation(p), E!Contents(p) = p.toc[d], E!Contents(r) = r.toc[d]
        PROVE  SameTexts(E!Contents(r), E!Contents(p))
    <3>1. p.toc[d] \in Seq(Lines(T)) /\ E!Preface \in T
      <4>1. p.toc[d] \in Seq(Lines(items))
        BY LeadsTypes
      <4> QED
        BY <4>1, LinesMore
    <3>2. SameTexts(E!Spliced(p.toc[d]), p.toc[d])
      BY <3>1, SplicedTexts
    <3> QED
      BY <1>2, <1>5, <2>2, <3>2 DEF SameTexts, SameDocs
  <2> QED
    BY <1>2, <2>1, <2>2, ContentsOf
<1> QED
  BY <1>1, <1>2, <1>3, <1>6, <1>7, WholeLeads

LEMMA OnlyOne ==
  ASSUME NEW S, IsFiniteSet(S), NEW x \in S, E!Cardinality(S) = 1
  PROVE  S = {x}
<1>1. Cardinality(S) = 1
  BY EditionCardinality
<1>2. PICK y : S = {y}
  BY <1>1, FS_Singleton
<1> QED
  BY <1>2

LEMMA ListingNothing == \A S, A : E!Listing(<<>>, S, A)
<1> SUFFICES ASSUME NEW S, NEW A PROVE E!Listing(<<>>, S, A)
  OBVIOUS
<1>1. <<>> \in Seq(Lines(S)) /\ DOMAIN <<>> = {}
  OBVIOUS
<1> QED
  BY <1>1, ListingParts

LEMMA PrefixedAnewWhole ==
  ASSUME NEW p, Shaped(p), Leads(p, DOMAIN p.kind \ E!OfKind(p, {"ncx"})), IsFiniteSet(DOMAIN p.kind),
         E!Preface \notin DOMAIN p.kind, E!GeneratedNav \notin DOMAIN p.kind,
         NEW r, PrefixedAnew(r, p), E!Valid(r)
  PROVE  /\ E!Whole(r) /\ DOMAIN r.kind \subseteq DOMAIN p.kind \cup {E!Preface, E!GeneratedNav}
         /\ E!Authors(r.spine) = E!Authors(p.spine)
         /\ SameTexts(E!Contents(r), E!Contents(p))
         /\ p.files \ E!OfKind(p, {"ncx"}) \subseteq r.files
<1> DEFINE ncx == E!OfKind(p, {"ncx"})
           rest == DOMAIN p.kind \ ncx
           T == rest \cup {E!Preface, E!GeneratedNav}
           new == E!GeneratedNav
           toc == E!Contents(p)
<1>1. /\ Prefixed(r, p) /\ p.files \ ncx \subseteq r.files
      /\ r.toc = [d \in {new} |-> E!Spliced(toc)]
  BY DEF PrefixedAnew
<1>2. /\ DOMAIN r.kind = T /\ r.kind[new] = "nav" /\ r.kind[E!Preface] = "page"
      /\ \A i \in rest : r.kind[i] = p.kind[i]
  <2> DEFINE others == (DOMAIN p.kind \cup {E!Preface}) \ ncx
  <2>1. r.kind = [i \in others \cup {new} |-> IF i = new THEN "nav" ELSE Noted(p)[i]]
    BY DEF PrefixedAnew
  <2>2. E!Preface \notin ncx /\ E!Preface # new
    BY DEF E!OfKind, E!Preface, E!GeneratedNav, E!Own
  <2>3. others \cup {new} = T
    BY <2>2
  <2>4. \A i \in rest : i # new /\ i # E!Preface /\ i \in DOMAIN p.kind
    OBVIOUS
  <2>5. Noted(p)[E!Preface] = "page" /\ \A i \in rest : Noted(p)[i] = p.kind[i]
    BY <2>4 DEF Noted
  <2> HIDE DEF others, rest
  <2>6. new \in T /\ E!Preface \in T /\ \A i \in rest : i \in T
    OBVIOUS
  <2> HIDE DEF T, new
  <2> QED
    BY <2>1, <2>2, <2>3, <2>4, <2>5, <2>6
<1>3. \A i \in rest : p.kind[i] \in {"page", "image", "nav"}
  BY DEF Shaped, E!OfKind
<1>4. r.kind \in [T -> {"page", "image", "nav", "ncx"}] /\ E!OfKind(r, {"ncx"}) = {}
  <2>1. \A i \in T : r.kind[i] \in {"page", "image", "nav"}
    BY <1>2, <1>3
  <2>2. r.kind = [i \in DOMAIN r.kind |-> r.kind[i]]
    BY DEF PrefixedAnew
  <2> HIDE DEF T
  <2>3. r.kind \in [T -> {"page", "image", "nav", "ncx"}]
    BY <1>2, <2>1, <2>2
  <2> QED
    BY <1>2, <2>1, <2>3 DEF E!OfKind
<1>5. E!OfKind(r, {"nav"}) = {new}
  <2> DEFINE N == E!OfKind(r, {"nav"})
  <2>1. new \in N /\ N \subseteq T
    BY <1>2 DEF E!OfKind
  <2>2. E!Cardinality(N) = 1
    BY <1>1 DEF E!Valid, E!WellFormed, Prefixed
  <2>3. IsFiniteSet(T)
    <3>1. IsFiniteSet(rest)
      BY FS_Subset
    <3>2. IsFiniteSet({E!Preface, E!GeneratedNav})
      <4>1. {E!Preface, E!GeneratedNav} = {E!Preface} \cup {E!GeneratedNav}
        OBVIOUS
      <4>2. IsFiniteSet({E!Preface}) /\ IsFiniteSet({E!GeneratedNav})
        BY FS_Singleton
      <4> QED
        BY <4>1, <4>2, FS_Union
    <3> QED
      BY <3>1, <3>2, FS_Union
  <2> HIDE DEF N, T
  <2>4. IsFiniteSet(N)
    BY <2>1, <2>3, FS_Subset
  <2> QED
    BY <2>1, <2>2, <2>4, OnlyOne DEF N
<1>6. E!Navigation(r) = {new} /\ new \notin {E!Preface, E!About, E!Cover}
  <2>1. \A i : i \in E!Navigation(r) <=> i \in E!OfKind(r, {"nav"}) \/ i \in E!OfKind(r, {"ncx"})
    BY DEF E!Navigation, E!OfKind
  <2>2. new \notin {E!Preface, E!About, E!Cover}
    BY DEF E!GeneratedNav, E!Preface, E!About, E!Cover, E!Own
  <2> QED
    BY <1>4, <1>5, <2>1, <2>2
<1>7. {i \in T : E!IsAbout(i)} = p.about
  <2>1. ~E!IsAbout(E!Preface) /\ ~E!IsAbout(new)
    BY DEF E!IsAbout, E!Preface, E!GeneratedNav, E!Own
  <2>2. p.about \cap ncx = {}
    BY DEF Shaped, E!Navigation, E!OfKind
  <2>3. p.about = {i \in DOMAIN p.kind : E!IsAbout(i)}
    BY DEF Shaped
  <2> HIDE DEF new, ncx
  <2> QED
    BY <2>1, <2>2, <2>3 DEF new
<1>8. Shaped(r) /\ E!Authors(r.spine) = E!Authors(p.spine)
  <2> HIDE DEF T
  <2> QED
    BY <1>1, <1>2, <1>4, <1>6, <1>7, PrefixedShaped
<1>9. E!Listing(toc, rest, p.about)
  <2>1. CASE toc = <<>>
    BY <2>1, ListingNothing
  <2>2. ASSUME NEW d \in E!Navigation(p), toc = p.toc[d] PROVE E!Listing(toc, rest, p.about)
    BY <2>2 DEF Leads
  <2>3. SameDocs(p, p)
    BY DEF SameDocs
  <2> HIDE DEF rest
  <2>4. toc = <<>> \/ \E d \in E!Navigation(p) : toc = p.toc[d]
    BY <2>3, ContentsOf
  <2> QED
    BY <2>1, <2>2, <2>4
<1>10. E!Contents(r) = E!Spliced(toc)
  <2>1. E!Contents(r) = r.toc[CHOOSE d \in {new} : TRUE]
    BY <1>5 DEF E!Contents
  <2>2. (CHOOSE d \in {new} : TRUE) = new
    OBVIOUS
  <2> HIDE DEF new, toc
  <2> QED
    BY <1>1, <2>1, <2>2
<1>11. Leads(r, T)
  <2>1. E!Preface \notin p.about
    BY DEF Shaped, E!Preface, E!About, E!Own
  <2>2. E!Listing(E!Spliced(toc), T, p.about)
    <3>1. rest \subseteq T /\ E!Preface \in T
      OBVIOUS
    <3> HIDE DEF rest, T, toc
    <3> QED
      BY <1>9, <2>1, <3>1, ListingSpliced
  <2>3. rest \ p.about \subseteq T \ p.about
    OBVIOUS
  <2>4. E!CoverOf(r) \subseteq T \ p.about
    BY <1>1, <2>3, PrefixedCovers DEF Leads
  <2>5. Head(p.spine) \in T \ p.about
    <3> DEFINE s == p.spine
               z == E!Preface
               items == DOMAIN r.kind
    <3>1. s \in Seq(DOMAIN p.kind) /\ s # <<>>
      BY DEF Shaped
    <3>2. r.spine \in Seq(items) /\ r.spine = <<z>> \o s
      BY <1>1, <1>8 DEF Shaped, Prefixed
    <3>3. Head(p.spine) \in DOMAIN p.kind \ p.about
      BY HeadOf
    <3> HIDE DEF s, items, z
    <3>4. Head(s) = (<<z>> \o s)[2] /\ 2 \in DOMAIN (<<z>> \o s)
      BY <3>1
    <3>5. Head(s) \in items
      BY <3>2, <3>4
    <3> QED
      BY <1>2, <3>3, <3>5 DEF s, items
  <2>6. {r.start} \ {None} \subseteq T \ p.about
    BY <1>1, <2>3, <2>5 DEF Leads, Prefixed
  <2>7. r.about = p.about
    BY <1>1 DEF Prefixed
  <2> HIDE DEF T, new, toc
  <2>8. r.toc = [d \in E!Navigation(r) |-> r.toc[d]] /\ \A d \in E!Navigation(r) : r.toc[d] = E!Spliced(toc)
    BY <1>1, <1>6
  <2> QED
    BY <2>2, <2>4, <2>6, <2>7, <2>8 DEF Leads
<1>12. SameTexts(E!Contents(r), toc)
  <2>1. toc \in Seq(Lines(T)) /\ E!Preface \in T
    <3>1. toc \in Seq(Lines(rest)) /\ rest \subseteq T
      BY <1>9, ListingParts
    <3> QED
      BY <3>1, LinesMore
  <2> QED
    BY <1>10, <2>1, SplicedTexts
<1>13. T \subseteq DOMAIN p.kind \cup {E!Preface, E!GeneratedNav}
  OBVIOUS
<1> HIDE DEF T
<1> QED
  BY <1>1, <1>2, <1>8, <1>11, <1>12, <1>13, WholeLeads

LEMMA WrappedWhole ==
  ASSUME NEW p, E!Whole(p), E!Unled(p), IsFiniteSet(DOMAIN p.kind),
         E!Preface \notin DOMAIN p.kind, E!GeneratedNav \notin DOMAIN p.kind,
         NEW r, r = E!Wrapped(p), r # Failed
  PROVE  /\ E!Whole(r) /\ DOMAIN r.kind \subseteq DOMAIN p.kind \cup {E!Preface, E!GeneratedNav}
         /\ E!Authors(r.spine) = E!Authors(p.spine)
         /\ SameTexts(E!Contents(r), E!Contents(p))
         /\ p.files \ E!OfKind(p, {"ncx"}) \subseteq r.files
         /\ (p.version = 3 => p.cover # {}) => E!CoverOf(r) = E!CoverOf(p)
<1>1. Shaped(p) /\ Leads(p, DOMAIN p.kind) /\ Leads(p, DOMAIN p.kind \ E!OfKind(p, {"ncx"}))
  BY WholeLeads, UnledLeads
<1>2. E!Preface \notin E!Navigation(p)
  BY DEF E!Navigation, E!OfKind
<1>3. E!Valid(r) /\ IF p.version = 2 THEN PrefixedAnew(r, p) ELSE PrefixedThere(r, p)
  BY <1>1, <1>2, WrappedFields
<1>4. Prefixed(r, p)
  BY <1>3 DEF PrefixedAnew, PrefixedThere
<1>5. (p.version = 3 => p.cover # {}) => E!CoverOf(r) = E!CoverOf(p)
  BY <1>1, <1>4, PrefixedCovers
<1>6. CASE p.version = 2
  BY <1>1, <1>3, <1>5, <1>6, PrefixedAnewWhole
<1>7. CASE p.version # 2
  BY <1>1, <1>3, <1>5, <1>7, PrefixedThereWhole
<1> QED
  BY <1>6, <1>7

-----------------------------------------------------------------------------
(* Edition: copies.                                                        *)

PlainNames(p) == \A x \in DOMAIN p.kind : x = E!Own(x[2])
Usual(p) ==
    /\ E!Whole(p) /\ E!Unled(p) /\ IsFiniteSet(DOMAIN p.kind) /\ PlainNames(p)
    /\ E!Preface \notin DOMAIN p.kind /\ E!GeneratedNav \notin DOMAIN p.kind

Words == {"note", "text", "contents"}

LEMMA BuiltWhole ==
  ASSUME NEW pages \in Seq(Words), pages # <<>>, NEW labels, \A k \in DOMAIN pages : labels[k] \in E!Wording,
         NEW i \in DOMAIN pages, NEW r, r = E!Built(pages, labels, E!Own(pages[i]))
  PROVE  E!Whole(r) /\ PlainNames(r)
<1> DEFINE n == Len(pages)
           its == {E!Own(pages[k]) : k \in DOMAIN pages}
           nav == E!Own("nav")
           items == its \cup {nav}
           line(k) == E!Entry(0, labels[k], E!Own(pages[k]))
           toc == [k \in DOMAIN pages |-> line(k)]
           spine == [k \in DOMAIN pages |-> E!Own(pages[k])]
<1>1. n \in Nat /\ DOMAIN pages = 1..n /\ n # 0 /\ \A k \in 1..n : pages[k] \in Words
  OBVIOUS
<1>2. /\ DOMAIN r = E!Parts /\ r.version = 3 /\ r.files = items /\ r.start = E!Own(pages[i])
      /\ r.spine = spine
      /\ r.kind = [x \in items |-> IF x = nav THEN "nav" ELSE "page"]
      /\ r.toc = [d \in {nav} |-> toc]
      /\ r.cover = {} /\ r.older = None /\ r.about = {}
  BY DEF E!Built, E!Parts
<1>3. /\ nav \notin its /\ ~E!IsAbout(nav) /\ nav \notin {E!Preface, E!About, E!Cover}
      /\ nav[2] = "nav" /\ nav = E!Own(nav[2])
  BY <1>1 DEF Words, E!Own, E!IsAbout, E!Preface, E!About, E!Cover
<1>4. \A k \in 1..n : E!Own(pages[k]) \in its /\ ~E!IsAbout(E!Own(pages[k]))
  BY <1>1 DEF Words, E!Own, E!IsAbout
<1>5. \A x \in items : x = E!Own(x[2]) /\ ~E!IsAbout(x)
  <2>1. \A k \in 1..n : E!Own(pages[k]) = E!Own(E!Own(pages[k])[2])
    BY DEF E!Own
  <2> HIDE DEF nav
  <2> QED
    BY <1>1, <1>3, <1>4, <2>1
<1>6. spine \in Seq(items) /\ spine # <<>>
  <2>1. spine \in [1..n -> items]
    BY <1>1, <1>4
  <2>2. spine \in Seq(items) /\ Len(spine) = n
    BY <1>1, <2>1, FunctionIsSeq
  <2> HIDE DEF spine, items
  <2> QED
    BY <1>1, <2>2
<1>7. E!Listing(toc, items, {})
  <2>1. \A k \in 1..n : line(k) \in Lines(items) /\ line(k).depth = 0
    <3> SUFFICES ASSUME NEW k \in 1..n PROVE line(k) \in Lines(items) /\ line(k).depth = 0
      OBVIOUS
    <3>1. labels[k] \in E!Wording /\ E!Own(pages[k]) \in items /\ 0 \in Nat
      BY <1>1, <1>4
    <3> HIDE DEF items
    <3> QED
      BY <3>1, EntryParts
  <2>2. toc \in [1..n -> Lines(items)] /\ \A k \in 1..n : toc[k].depth = 0
    BY <1>1, <2>1
  <2>3. toc \in Seq(Lines(items)) /\ Len(toc) = n
    BY <1>1, <2>2, FunctionIsSeq
  <2>4. toc[1].depth = 0
    <3>1. 1 \in 1..n
      BY <1>1
    <3> QED
      BY <2>2, <3>1
  <2> HIDE DEF toc, items
  <2> QED
    BY <2>3, <2>4, ListingParts
<1> HIDE DEF its, nav, line, toc, spine
<1>8. DOMAIN r.kind = items /\ r.kind \in [items -> {"page", "image", "nav", "ncx"}] /\ E!Navigation(r) = {nav}
  BY <1>2 DEF E!Navigation, E!OfKind
<1>9. Shaped(r)
  <2>1. {x \in items : E!IsAbout(x)} = {}
    BY <1>5
  <2> HIDE DEF items
  <2> QED
    BY <1>2, <1>3, <1>6, <1>8, <2>1 DEF Shaped
<1>10. Leads(r, items)
  <2>1. r.toc = [d \in E!Navigation(r) |-> r.toc[d]] /\ r.toc[nav] = toc
    BY <1>2, <1>8
  <2>2. E!CoverOf(r) = {}
    BY <1>2 DEF E!CoverOf
  <2>3. E!Own(pages[i]) \in items
    BY <1>1, <1>4
  <2> HIDE DEF items
  <2> QED
    BY <1>2, <1>7, <1>8, <2>1, <2>2, <2>3 DEF Leads
<1> QED
  BY <1>5, <1>8, <1>9, <1>10, WholeLeads DEF PlainNames

LEMMA MetadataNames ==
  ASSUME NEW p, PlainNames(p), NEW r, DOMAIN r.kind \subseteq DOMAIN p.kind \cup {E!Cover, E!About}
  PROVE  PlainNames(r)
<1>1. E!Cover = E!Own(E!Cover[2]) /\ E!About = E!Own(E!About[2])
  BY DEF E!Cover, E!About, E!Own
<1> QED
  BY <1>1 DEF PlainNames

\* An edition made of another: the note goes before what an author sent.
LEMMA ProfiledWhole ==
  ASSUME NEW o, E!IsEPUB(o), Usual(o), NEW d, NEW p, p = E!Profiled(o, d), p # Failed
  PROVE  /\ E!Whole(p) /\ PlainNames(p) /\ (~E!Prefaced(o, d) => p = o)
         /\ E!Authors(p.spine) = E!Authors(o.spine) /\ SameTexts(E!Contents(p), E!Contents(o))
         /\ o.files \ E!OfKind(o, {"ncx"}) \subseteq p.files
         /\ E!Declared(o, d) => E!CoverOf(p) = E!CoverOf(o)
<1>1. p = IF E!Prefaced(o, d) THEN E!Wrapped(o) ELSE o
  BY DEF E!Profiled
<1>2. CASE ~E!Prefaced(o, d)
  BY <1>1, <1>2 DEF SameTexts, Usual
<1>3. CASE E!Prefaced(o, d)
  <2>1. p = E!Wrapped(o)
    BY <1>1, <1>3
  <2>2. /\ E!Whole(p) /\ DOMAIN p.kind \subseteq DOMAIN o.kind \cup {E!Preface, E!GeneratedNav}
        /\ E!Authors(p.spine) = E!Authors(o.spine) /\ SameTexts(E!Contents(p), E!Contents(o))
        /\ o.files \ E!OfKind(o, {"ncx"}) \subseteq p.files
        /\ (o.version = 3 => o.cover # {}) => E!CoverOf(p) = E!CoverOf(o)
    BY <2>1, WrappedWhole DEF Usual
  <2>3. PlainNames(p)
    <3>1. E!Preface = E!Own(E!Preface[2]) /\ E!GeneratedNav = E!Own(E!GeneratedNav[2])
      BY DEF E!Preface, E!GeneratedNav, E!Own
    <3> QED
      BY <2>2, <3>1 DEF PlainNames, Usual
  <2> QED
    BY <1>3, <2>2, <2>3 DEF E!Declared
<1> QED
  BY <1>2, <1>3

LEMMA ProfiledOther ==
  ASSUME NEW o, ~E!IsEPUB(o), NEW d, NEW p, p = E!Profiled(o, d)
  PROVE  \/ p = o /\ d.format = "preserve"
         \/ p = Failed
         \/ E!Whole(p) /\ PlainNames(p)
<1> DEFINE two == <<"note", "text">>
           one == <<"text">>
           says == <<"note", "title">>
           say == <<"title">>
<1>1. \/ p = o /\ d.format = "preserve"
      \/ p = Failed
      \/ p = E!Built(two, says, E!Own("text"))
      \/ p = E!Built(one, say, E!Own("text"))
  BY DEF E!Profiled
<1>2. CASE p = E!Built(two, says, E!Own("text"))
  <2>1. /\ two \in Seq(Words) /\ two # <<>> /\ 2 \in DOMAIN two /\ two[2] = "text"
        /\ \A k \in DOMAIN two : says[k] \in E!Wording
    BY DEF Words, E!Wording
  <2> DEFINE i == 2
  <2>2. p = E!Built(two, says, E!Own(two[i])) /\ i \in DOMAIN two
    BY <1>2, <2>1
  <2> HIDE DEF two, says, i
  <2> QED
    BY <2>1, <2>2, BuiltWhole
<1>3. CASE p = E!Built(one, say, E!Own("text"))
  <2>1. /\ one \in Seq(Words) /\ one # <<>> /\ 1 \in DOMAIN one /\ one[1] = "text"
        /\ \A k \in DOMAIN one : say[k] \in E!Wording
    BY DEF Words, E!Wording
  <2> DEFINE i == 1
  <2>2. p = E!Built(one, say, E!Own(one[i])) /\ i \in DOMAIN one
    BY <1>3, <2>1
  <2> HIDE DEF one, say, i
  <2> QED
    BY <2>1, <2>2, BuiltWhole
<1> QED
  BY <1>1, <1>2, <1>3

\* What the library can read of its copies is whole.
LEMMA RenderedWhole ==
  ASSUME NEW o, E!IsEPUB(o) => Usual(o), NEW d, NEW c, c = E!Rendered(o, d), E!IsEPUB(c)
  PROVE  E!Whole(c) /\ PlainNames(c)
<1> DEFINE p == E!Profiled(o, d)
           decorates == E!NeedsCheck(o, d) \/ (d.publication # None /\ E!IsEPUB(p))
           theirs == E!IsEPUB(o)
           chapter == d.format = "epub"
           no == FALSE
<1>1. c = IF p # Failed /\ decorates THEN E!WithMetadata(p, d.publication, theirs, chapter, no) ELSE p
  BY DEF E!Rendered
<1>2. Failed # c
  BY DEF E!IsEPUB
<1>3. p # Failed
  BY <1>1, <1>2
<1>4. E!Whole(p) /\ PlainNames(p)
  <2> HIDE DEF p
  <2>1. CASE E!IsEPUB(o)
    BY <1>3, <2>1, ProfiledWhole DEF p
  <2>2. CASE ~E!IsEPUB(o)
    <3>1. p = o /\ d.format = "preserve" => ~decorates
      BY <2>2 DEF E!NeedsCheck
    <3>2. ~(p = o /\ d.format = "preserve")
      BY <1>1, <2>2, <3>1
    <3>3. \/ p = o /\ d.format = "preserve"
          \/ p = Failed
          \/ E!Whole(p) /\ PlainNames(p)
      BY <2>2, ProfiledOther DEF p
    <3> QED
      BY <1>3, <3>2, <3>3
  <2> QED
    BY <2>1, <2>2
<1> HIDE DEF p, decorates, theirs, chapter, no
<1>5. CASE c = p
  BY <1>4, <1>5
<1>6. CASE c = E!WithMetadata(p, d.publication, theirs, chapter, no)
  <2>1. E!Whole(c) /\ DOMAIN c.kind \subseteq DOMAIN p.kind \cup {E!Cover, E!About}
    BY <1>2, <1>4, <1>6, MetadataWhole
  <2> QED
    BY <1>4, <2>1, MetadataNames
<1> QED
  BY <1>1, <1>5, <1>6

LEMMA WholeResolves ==
  ASSUME NEW p, E!Whole(p)
  PROVE  E!Resolves(p)
<1>1. Shaped(p) /\ Leads(p, DOMAIN p.kind)
  BY WholeLeads
<1>2. E!ToSet(p.spine) \subseteq DOMAIN p.kind
  BY <1>1 DEF Shaped, E!ToSet
<1>3. p.about \subseteq DOMAIN p.kind
  BY <1>1 DEF Shaped
<1>4. DOMAIN p.toc = E!Navigation(p)
  <2>1. p.toc = [d \in E!Navigation(p) |-> p.toc[d]]
    BY <1>1 DEF Leads
  <2> QED
    BY <2>1
<1>5. \A d \in E!Navigation(p) : E!ToSet(E!Aim(p.toc[d])) \subseteq DOMAIN p.kind
  BY <1>1, ListingAims DEF Leads
<1> QED
  BY <1>1, <1>2, <1>3, <1>4, <1>5 DEF Leads, E!Resolves

LEMMA CopyKept ==
  ASSUME NEW o, E!IsEPUB(o), Usual(o), NEW d, NEW c, c = E!Rendered(o, d), c # Failed
  PROVE  E!CopyWhole(o, d, c)
<1> DEFINE p == E!Profiled(o, d)
           decorates == E!NeedsCheck(o, d) \/ (d.publication # None /\ E!IsEPUB(p))
           theirs == E!IsEPUB(o)
           chapter == d.format = "epub"
           no == FALSE
           publication == d.publication
<1>1. c = IF p # Failed /\ decorates THEN E!WithMetadata(p, publication, theirs, chapter, no) ELSE p
  BY DEF E!Rendered
<1>2. p # Failed
  BY <1>1
<1>3. publication # None => decorates
  <2>1. E!Prefaced(o, d) => E!NeedsCheck(o, d)
    BY DEF E!NeedsCheck
  <2>2. ~E!Prefaced(o, d) => p = o
    BY DEF E!Profiled
  <2> QED
    BY <2>1, <2>2
<1>4. /\ E!Whole(p) /\ PlainNames(p) /\ (~E!Prefaced(o, d) => p = o)
      /\ E!Authors(p.spine) = E!Authors(o.spine) /\ SameTexts(E!Contents(p), E!Contents(o))
      /\ o.files \ E!OfKind(o, {"ncx"}) \subseteq p.files
      /\ E!Declared(o, d) => E!CoverOf(p) = E!CoverOf(o)
  BY <1>2, ProfiledWhole
<1>5. ~no
  BY DEF no
<1> HIDE DEF p, decorates, theirs, chapter, no, publication
<1>6. /\ E!Whole(c) /\ Kept(c, p) /\ CoverTold(c, p, publication)
      /\ publication # None => c.about = {}
  <2>1. CASE c = E!WithMetadata(p, publication, theirs, chapter, no)
    BY <1>4, <1>5, <2>1, MetadataWhole
  <2>2. CASE c = p /\ ~decorates
    <3>1. Kept(p, p)
      BY DEF Kept, SameTexts
    <3> QED
      BY <1>3, <1>4, <2>2, <3>1 DEF CoverTold
  <2> QED
    BY <1>1, <1>2, <2>1, <2>2
<1>7. SameTexts(E!Contents(c), E!Contents(o)) /\ E!Authors(c.spine) = E!Authors(o.spine)
  BY <1>4, <1>6 DEF Kept, SameTexts
<1>8. o.files \ (E!OfKind(o, {"ncx"}) \cup E!Generated) \subseteq c.files
  BY <1>4, <1>6 DEF Kept
<1>9. E!Declared(o, d) => E!CoverSurvives(o, d, c)
  BY <1>4, <1>6 DEF CoverTold, Asked, E!CoverSurvives, publication
<1>10. publication # None => \A k \in DOMAIN c.spine : ~E!IsAbout(c.spine[k])
  <2>1. Shaped(c)
    BY <1>6, WholeLeads
  <2>2. \A k \in DOMAIN c.spine : c.spine[k] \in DOMAIN c.kind
    BY <2>1 DEF Shaped
  <2>3. publication # None => \A x \in DOMAIN c.kind : ~E!IsAbout(x)
    BY <1>6, <2>1 DEF Shaped
  <2> QED
    BY <2>2, <2>3
<1>11. E!Resolves(c)
  BY <1>6, WholeResolves
<1> QED
  BY <1>7, <1>8, <1>9, <1>10, <1>11 DEF E!CopyWhole, SameTexts, publication

LEMMA AttachmentsUsual ==
  ASSUME OriginalsAssumption, NEW i \in E!Number, NEW o \in E!Attachments(i), E!IsEPUB(o)
  PROVE  Usual(o)
<1>1. ASSUME NEW q \in Originals[i], E!IsEPUB(q)
      PROVE  Usual(q) /\ q # Failed
  <2>1. E!Authored(q)
    BY <1>1 DEF OriginalsAssumption, E!Number
  <2>2. E!Preface \in E!Generated /\ E!GeneratedNav \in E!Generated
    BY DEF E!Generated
  <2>3. IsFiniteSet(DOMAIN q.kind)
    BY <2>1 DEF E!Authored, E!IsFiniteSet, IsFiniteSet
  <2> QED
    BY <1>1, <2>1, <2>2, <2>3 DEF E!Authored, Usual, PlainNames, E!IsEPUB
<1>2. CASE o \in Originals[i]
  BY <1>1, <1>2
<1>3. ASSUME NEW q \in Originals[i], o \in E!Earlier(q) PROVE Usual(o)
  <2> DEFINE yes == TRUE
  <2>1. E!IsEPUB(q) /\ o # Failed
    BY <1>3 DEF E!Earlier
  <2>2. PICK publication : o = E!WithMetadata(q, publication, yes, yes, yes)
    BY <1>3 DEF E!Earlier
  <2>3. Usual(q)
    BY <1>1, <2>1
  <2> HIDE DEF yes
  <2>4. E!Whole(o) /\ Fits(o, q) /\ DOMAIN o.kind \subseteq DOMAIN q.kind \cup {E!Cover, E!About}
    BY <2>1, <2>2, <2>3, MetadataWhole DEF Usual
  <2>5. PlainNames(o)
    BY <2>3, <2>4, MetadataNames DEF Usual
  <2>6. IsFiniteSet(DOMAIN o.kind)
    <3> DEFINE more == {E!Cover, E!About}
               items == DOMAIN q.kind
    <3>1. IsFiniteSet({E!Cover}) /\ IsFiniteSet({E!About}) /\ more = {E!Cover} \cup {E!About}
      BY FS_Singleton
    <3>2. IsFiniteSet(more)
      BY <3>1, FS_Union
    <3>3. IsFiniteSet(items)
      BY <2>3 DEF Usual
    <3> HIDE DEF more, items
    <3>4. IsFiniteSet(items \cup more)
      BY <3>2, <3>3, FS_Union
    <3> QED
      BY <2>4, <3>4, FS_Subset DEF more, items
  <2>7. E!Unled(o)
    <3>1. Leads(q, DOMAIN q.kind \ E!OfKind(q, {"ncx"}))
      BY <2>3, UnledLeads DEF Usual
    <3>2. E!OfKind(q, {"ncx"}) \subseteq E!Navigation(q)
      BY DEF E!OfKind, E!Navigation
    <3>3. Leads(o, DOMAIN o.kind \ E!OfKind(o, {"ncx"}))
      BY <2>4, <3>1, <3>2 DEF Fits, SameDocs, StaysLed
    <3> QED
      BY <2>4, <3>3, UnledLeads
  <2>8. E!Preface \notin DOMAIN o.kind /\ E!GeneratedNav \notin DOMAIN o.kind
    <3>1. {E!Preface, E!GeneratedNav} \cap {E!Cover, E!About} = {}
      BY DEF E!Preface, E!GeneratedNav, E!Cover, E!About, E!Own
    <3> QED
      BY <2>3, <2>4, <3>1 DEF Usual
  <2> QED
    BY <2>4, <2>5, <2>6, <2>7, <2>8 DEF Usual
<1> QED
  BY <1>2, <1>3 DEF E!Attachments

-----------------------------------------------------------------------------
(* Edition: the parts of a volume.                                         *)

LEMMA FlattenedHead ==
  ASSUME NEW n \in Nat \ {0}, NEW T, NEW parts \in [1..n -> Seq(T)], parts[1] # <<>>
  PROVE  E!FlattenSeq(parts) # <<>> /\ E!FlattenSeq(parts)[1] = parts[1][1]
<1>1. PICK f : Flat(f, n, parts) /\ E!FlattenSeq(parts) = f[n]
  BY Flattened
<1>2. \A k \in 1..n : f[k] \in Seq(T) /\ parts[k] \in Seq(T)
  BY <1>1, FlatTyped
<1> DEFINE S == {k \in 1..n : f[k] # <<>> /\ f[k][1] = parts[1][1]}
<1>3. n > 0 => 1 \in S
  BY <1>1 DEF Flat
<1>4. ASSUME NEW k \in 2..n, k - 1 \in S PROVE k \in S
  <2>1. /\ k \in 1..n /\ k - 1 \in 1..n /\ f[k - 1] # <<>> /\ f[k - 1][1] = parts[1][1]
    BY <1>4
  <2>2. f[k] = f[k - 1] \o parts[k]
    BY <1>1 DEF Flat
  <2> DEFINE a == f[k - 1]
             b == parts[k]
  <2>3. a \in Seq(T) /\ b \in Seq(T) /\ a # <<>>
    BY <1>2, <2>1
  <2> HIDE DEF a, b
  <2>4. a \o b # <<>> /\ (a \o b)[1] = a[1]
    BY <2>3
  <2> QED
    BY <2>1, <2>2, <2>4 DEF a, b
<1> HIDE DEF S
<1>5. \A k \in 1..n : k \in S
  <2>1. n \in Nat /\ \A k \in 2..n : k - 1 \in S => k \in S
    BY <1>4
  <2> QED
    BY <1>3, <2>1, ByPositions
<1>6. n \in S
  BY <1>5
<1> QED
  BY <1>1, <1>6 DEF S

LEMMA FlattenedAims ==
  ASSUME NEW n \in Nat \ {0}, NEW S, NEW parts \in [1..n -> Seq(Lines(S))]
  PROVE  E!Aim(E!FlattenSeq(parts)) = E!FlattenSeq([i \in 1..n |-> E!Aim(parts[i])])
<1> DEFINE aims == [i \in 1..n |-> E!Aim(parts[i])]
<1>1. aims \in [1..n -> Seq(S)]
  BY AimTyped
<1>2. \A i \in 1..n : aims[i] = E!Aim(parts[i])
  OBVIOUS
<1> HIDE DEF aims
<1>3. PICK f : Flat(f, n, parts) /\ E!FlattenSeq(parts) = f[n]
  BY Flattened
<1>4. PICK h : Flat(h, n, aims) /\ E!FlattenSeq(aims) = h[n]
  BY <1>1, Flattened
<1>5. \A k \in 1..n : f[k] \in Seq(Lines(S)) /\ parts[k] \in Seq(Lines(S))
  BY <1>3, FlatTyped
<1> DEFINE R == {k \in 1..n : h[k] = E!Aim(f[k])}
<1>6. n > 0 => 1 \in R
  BY <1>2, <1>3, <1>4 DEF Flat
<1>7. ASSUME NEW k \in 2..n, k - 1 \in R PROVE k \in R
  <2>1. k \in 1..n /\ k - 1 \in 1..n /\ h[k - 1] = E!Aim(f[k - 1])
    BY <1>7
  <2>2. f[k] = Then(f[k - 1], parts[k]) /\ h[k] = Then(h[k - 1], aims[k])
    BY <1>3, <1>4 DEF Flat, Then
  <2>3. E!Aim(Then(f[k - 1], parts[k])) = Then(E!Aim(f[k - 1]), E!Aim(parts[k]))
    BY <1>5, <2>1, AimThen
  <2> QED
    BY <1>2, <2>1, <2>2, <2>3
<1> HIDE DEF R
<1>8. \A k \in 1..n : k \in R
  <2>1. n \in Nat /\ \A k \in 2..n : k - 1 \in R => k \in R
    BY <1>7
  <2> QED
    BY <1>6, <2>1, ByPositions
<1>9. n \in R
  BY <1>8
<1> QED
  BY <1>3, <1>4, <1>9 DEF R, aims

LEMMA PlaceOf ==
  ASSUME NEW i, NEW S
  PROVE  \A y : y \in E!Place(i, S) <=> \E x \in S : y = <<i, x[2]>>
BY DEF E!Place, E!Moved

LEMMA MovedLines ==
  ASSUME NEW S, NEW toc \in Seq(Lines(S)), NEW i, NEW r, r = E!MovedTOC(i, toc)
  PROVE  /\ r \in Seq(Lines(E!Place(i, S))) /\ Len(r) = Len(toc) /\ DOMAIN r = DOMAIN toc
         /\ \A k \in DOMAIN toc : r[k].depth = toc[k].depth /\ r[k].to = E!Moved(i, toc[k].to)
<1> DEFINE n == Len(toc)
           P == E!Place(i, S)
           line(k) == [toc[k] EXCEPT !.to = E!Moved(i, toc[k].to)]
<1>1. n \in Nat /\ DOMAIN toc = 1..n /\ \A k \in 1..n : toc[k] \in Lines(S)
  BY SeqByIndex
<1>2. r = [k \in 1..n |-> line(k)]
  BY <1>1 DEF E!MovedTOC
<1>3. ASSUME NEW k \in 1..n
      PROVE  line(k) \in Lines(P) /\ line(k).depth = toc[k].depth /\ line(k).to = E!Moved(i, toc[k].to)
  <2> DEFINE e == toc[k]
             y == E!Moved(i, e.to)
  <2>1. /\ e.depth \in Nat /\ e.label \in E!Wording /\ e.to \in S
        /\ e = [depth |-> e.depth, label |-> e.label, to |-> e.to]
    BY <1>1, LineParts
  <2>2. y \in P
    BY <2>1, PlaceOf DEF E!Moved
  <2> HIDE DEF e, y, P
  <2>3. [e EXCEPT !.to = y] = [depth |-> e.depth, label |-> e.label, to |-> y]
    BY <2>1
  <2>4. [e EXCEPT !.to = y] \in Lines(P) /\ [e EXCEPT !.to = y].depth = e.depth /\ [e EXCEPT !.to = y].to = y
    BY <2>1, <2>2, <2>3 DEF Lines
  <2> QED
    BY <2>4 DEF e, y
<1> HIDE DEF n, P, line
<1>4. r \in [1..n -> Lines(P)] /\ \A k \in 1..n : r[k] = line(k)
  BY <1>2, <1>3
<1>5. r \in Seq(Lines(P)) /\ Len(r) = n
  BY <1>1, <1>4, FunctionIsSeq
<1>6. DOMAIN r = 1..n
  BY <1>4
<1> QED
  BY <1>1, <1>3, <1>4, <1>5, <1>6 DEF n, P

LEMMA ListingMoved ==
  ASSUME NEW S, NEW toc, E!Listing(toc, S, {}), NEW i
  PROVE  E!Listing(E!MovedTOC(i, toc), E!Place(i, S), {})
<1> DEFINE r == E!MovedTOC(i, toc)
<1>1. toc \in Seq(Lines(S)) /\ (toc # <<>> => toc[1].depth = 0)
  BY ListingParts
<1>2. /\ r \in Seq(Lines(E!Place(i, S))) /\ Len(r) = Len(toc) /\ DOMAIN r = DOMAIN toc
      /\ \A k \in DOMAIN toc : r[k].depth = toc[k].depth
  BY <1>1, MovedLines
<1> HIDE DEF r
<1>3. r # <<>> => r[1].depth = 0
  <2> SUFFICES ASSUME r # <<>> PROVE r[1].depth = 0
    OBVIOUS
  <2>1. 1 \in DOMAIN toc /\ toc # <<>>
    BY <1>1, <1>2
  <2> QED
    BY <1>1, <1>2, <2>1
<1> QED
  BY <1>2, <1>3, ListingParts DEF r

LEMMA DeeperLines ==
  ASSUME NEW S, NEW toc \in Seq(Lines(S)), NEW r, r = E!Deeper(toc)
  PROVE  /\ r \in Seq(Lines(S)) /\ E!Aim(r) = E!Aim(toc)
         /\ \A k \in DOMAIN r : r[k].depth # 0
<1> DEFINE n == Len(toc)
           line(k) == [toc[k] EXCEPT !.depth = toc[k].depth + 1]
<1>1. n \in Nat /\ DOMAIN toc = 1..n /\ \A k \in 1..n : toc[k] \in Lines(S)
  BY SeqByIndex
<1>2. r = [k \in 1..n |-> line(k)]
  BY <1>1 DEF E!Deeper
<1>3. ASSUME NEW k \in 1..n
      PROVE  line(k) \in Lines(S) /\ line(k).depth # 0 /\ line(k).to = toc[k].to
  <2> DEFINE e == toc[k]
  <2>1. /\ e.depth \in Nat /\ e.label \in E!Wording /\ e.to \in S
        /\ e = [depth |-> e.depth, label |-> e.label, to |-> e.to]
    BY <1>1, LineParts
  <2> HIDE DEF e
  <2> DEFINE d == e.depth + 1
  <2>2. d \in Nat /\ d # 0
    BY <2>1
  <2> HIDE DEF d
  <2>3. [e EXCEPT !.depth = d] = [depth |-> d, label |-> e.label, to |-> e.to]
    BY <2>1
  <2>4. [e EXCEPT !.depth = d] \in Lines(S) /\ [e EXCEPT !.depth = d].depth = d /\ [e EXCEPT !.depth = d].to = e.to
    BY <2>1, <2>2, <2>3 DEF Lines
  <2> QED
    BY <2>2, <2>4 DEF e, d
<1> HIDE DEF n, line
<1>4. r \in [1..n -> Lines(S)] /\ \A k \in 1..n : r[k] = line(k)
  BY <1>2, <1>3
<1>5. r \in Seq(Lines(S)) /\ DOMAIN r = 1..n
  BY <1>1, <1>4, FunctionIsSeq
<1>6. E!Aim(r) = E!Aim(toc)
  BY <1>1, <1>3, <1>4, <1>5 DEF E!Aim
<1> QED
  BY <1>3, <1>4, <1>5, <1>6

\* A chapter and what is in it: one entry at the top, then those under it.
Headed(t, e, rest, S) ==
    /\ t = <<e>> \o rest /\ e \in Lines(S) /\ rest \in Seq(Lines(S))
    /\ \A k \in DOMAIN rest : rest[k].depth # 0

LEMMA NestedParts ==
  ASSUME NEW p, Shaped(p), Leads(p, DOMAIN p.kind), p.about = {}, NEW i,
         NEW P, P = E!Place(i, DOMAIN p.kind), NEW first, first = E!Moved(i, Head(p.spine)),
         NEW e, e = E!Entry(0, "chapter", first),
         NEW aims, aims = E!Aim(E!MovedTOC(i, E!Contents(p)))
  PROVE  /\ \E rest : Headed(E!Nested(i, p), e, rest, P)
         /\ E!Aim(E!Nested(i, p)) \in {aims, <<first>> \o aims}
<1> DEFINE own == E!Contents(p)
           toc == E!MovedTOC(i, own)
           items == DOMAIN p.kind
<1>1. E!Listing(own, items, {})
  <2>1. CASE own = <<>>
    BY <2>1, ListingNothing
  <2>2. ASSUME NEW d \in E!Navigation(p), own = p.toc[d] PROVE E!Listing(own, items, {})
    BY <2>2 DEF Leads
  <2>3. SameDocs(p, p)
    BY DEF SameDocs
  <2>4. own = <<>> \/ \E d \in E!Navigation(p) : own = p.toc[d]
    BY <2>3, ContentsOf
  <2> QED
    BY <2>1, <2>2, <2>4
<1>2. E!Listing(toc, P, {})
  BY <1>1, ListingMoved
<1>3. toc \in Seq(Lines(P)) /\ (toc # <<>> => toc[1].depth = 0)
  BY <1>2, ListingParts
<1>4. first \in P
  BY HeadOf, PlaceOf DEF E!Moved
<1>5. e \in Lines(P) /\ e.to = first
  <2>1. "chapter" \in E!Wording /\ 0 \in Nat
    BY DEF E!Wording
  <2> QED
    BY <1>4, <2>1, EntryParts
<1>6. E!Nested(i, p) = <<e>> \o (IF E!HoldsAll(toc, first) THEN Tail(toc) ELSE E!Deeper(toc))
  BY DEF E!Nested
<1>7. ASSUME NEW rest \in Seq(Lines(P))
      PROVE  E!Aim(<<e>> \o rest) = <<first>> \o E!Aim(rest)
  <2> DEFINE s == <<e>>
             one == <<first>>
  <2>1. s \in Seq(Lines(P)) /\ E!Aim(s) = one
    BY <1>5 DEF E!Aim
  <2> HIDE DEF s, one
  <2>2. E!Aim(Then(s, rest)) = Then(one, E!Aim(rest))
    BY <2>1, AimThen
  <2> QED
    BY <2>2 DEF Then, s, one
<1> HIDE DEF toc
<1>8. CASE E!HoldsAll(toc, first)
  <2> DEFINE rest == Tail(toc)
  <2>1. /\ toc # <<>> /\ Head(toc).to = first
        /\ \E k \in DOMAIN toc : \A j \in DOMAIN toc : toc[j].depth = 0 <=> j = k
    BY <1>8 DEF E!HoldsAll
  <2>2. 1 \in DOMAIN toc /\ Head(toc) = toc[1] /\ Len(toc) \in Nat /\ DOMAIN toc = 1..Len(toc)
    BY <1>3, <2>1
  <2>3. \A j \in DOMAIN toc : j # 1 => toc[j].depth # 0
    BY <1>3, <2>1, <2>2
  <2>4. /\ rest \in Seq(Lines(P)) /\ Len(rest) = Len(toc) - 1 /\ DOMAIN rest = 1..(Len(toc) - 1)
        /\ \A k \in 1..(Len(toc) - 1) : rest[k] = toc[k + 1]
    BY <1>3, <2>1, <2>2
  <2>5. \A k \in DOMAIN rest : rest[k].depth # 0
    <3> SUFFICES ASSUME NEW k \in 1..(Len(toc) - 1) PROVE rest[k].depth # 0
      BY <2>4
    <3>1. k + 1 \in DOMAIN toc /\ k + 1 # 1
      BY <2>2
    <3> QED
      BY <2>3, <2>4, <3>1
  <2>6. <<first>> \o E!Aim(rest) = E!Aim(toc)
    <3> DEFINE one == <<toc[1]>>
    <3>1. one \in Seq(Lines(P)) /\ toc = one \o rest
      BY <1>3, <2>2, <2>4
    <3>2. E!Aim(one) = <<first>>
      BY <2>1, <2>2 DEF E!Aim
    <3> HIDE DEF one, rest
    <3>3. E!Aim(Then(one, rest)) = Then(E!Aim(one), E!Aim(rest))
      BY <2>4, <3>1, AimThen
    <3> QED
      BY <3>1, <3>2, <3>3 DEF Then
  <2> HIDE DEF rest
  <2>7. E!Nested(i, p) = <<e>> \o rest
    BY <1>6, <1>8 DEF rest
  <2>8. E!Aim(E!Nested(i, p)) = aims
    BY <1>7, <2>4, <2>6, <2>7 DEF toc
  <2> QED
    BY <1>5, <2>4, <2>5, <2>7, <2>8 DEF Headed
<1>9. CASE ~E!HoldsAll(toc, first)
  <2> DEFINE rest == E!Deeper(toc)
  <2>1. rest \in Seq(Lines(P)) /\ E!Aim(rest) = E!Aim(toc) /\ \A k \in DOMAIN rest : rest[k].depth # 0
    BY <1>3, DeeperLines
  <2> HIDE DEF rest
  <2>2. E!Nested(i, p) = <<e>> \o rest
    BY <1>6, <1>9 DEF rest
  <2>3. E!Aim(E!Nested(i, p)) = <<first>> \o aims
    BY <1>7, <2>1, <2>2 DEF toc
  <2> QED
    BY <1>5, <2>1, <2>2, <2>3 DEF Headed
<1> QED
  BY <1>8, <1>9

-----------------------------------------------------------------------------
(* Edition: what binds the copies of a volume.                             *)

Gathered(m, n) ==
    /\ DOMAIN m = 1..n
    /\ \A i \in 1..n : E!Whole(m[i]) /\ PlainNames(m[i]) /\ m[i].about = {}

LEMMA ItemsOf ==
  ASSUME NEW n, NEW m, DOMAIN m = 1..n
  PROVE  /\ \A y : y \in E!Items(m) <=> \E i \in 1..n : \E x \in DOMAIN m[i].kind : y = <<i, x[2]>>
         /\ \A y : y \in E!OlderContents(m)
                     <=> \E i \in 1..n : \E x \in E!OfKind(m[i], {"ncx"}) : y = <<i, x[2]>>
<1>1. ASSUME NEW y
      PROVE  y \in E!Items(m) <=> \E i \in 1..n : \E x \in DOMAIN m[i].kind : y = <<i, x[2]>>
  <2>1. y \in E!Items(m) <=> \E i \in 1..n : y \in E!Place(i, DOMAIN m[i].kind)
    BY DEF E!Items
  <2> QED
    BY <2>1, PlaceOf
<1>2. ASSUME NEW y
      PROVE  y \in E!OlderContents(m) <=> \E i \in 1..n : \E x \in E!OfKind(m[i], {"ncx"}) : y = <<i, x[2]>>
  <2>1. y \in E!OlderContents(m) <=> \E i \in 1..n : y \in E!Place(i, E!OfKind(m[i], {"ncx"}))
    BY DEF E!OlderContents
  <2> QED
    BY <2>1, PlaceOf
<1> QED
  BY <1>1, <1>2

LEMMA KindThere ==
  ASSUME NEW m, NEW i, PlainNames(m[i]), NEW x \in DOMAIN m[i].kind
  PROVE  E!Was(m, <<i, x[2]>>) = m[i].kind[x]
<1>1. <<i, x[2]>>[1] = i /\ <<i, x[2]>>[2] = x[2] /\ E!Own(x[2]) = x
  BY DEF PlainNames
<1> QED
  BY <1>1 DEF E!Was

FrontMatter == {E!Own("contents"), E!Own("nav")}
Volumed(b, m) ==
    /\ DOMAIN b = E!Parts /\ b.version = 3
    /\ DOMAIN b.kind = FrontMatter \cup E!Items(m) /\ b.files = FrontMatter \cup E!Items(m)
    /\ b.kind[E!Own("nav")] = "nav" /\ b.kind[E!Own("contents")] = "page"
    /\ \A y \in E!Items(m) : b.kind[y] = E!KindIn(m, y)
    /\ b.spine = <<E!Own("contents")>> \o E!FlattenSeq(E!Spines(m))
    /\ DOMAIN b.toc = {E!Own("nav")} \cup E!OlderContents(m)
    /\ b.toc[E!Own("nav")] = E!FlattenSeq(E!Tables(m))
    /\ \A x \in E!OlderContents(m) : b.toc[x] = E!MovedTOC(x[1], m[x[1]].toc[E!Own(x[2])])
    /\ b.start = E!Moved(1, Head(m[1].spine)) /\ b.cover = {} /\ b.older = None /\ b.about = {}

LEMMA BoundFields ==
  ASSUME NEW n \in Nat \ {0}, NEW m, DOMAIN m = 1..n, NEW b, b = E!Bound(m)
  PROVE  Volumed(b, m) /\ b.toc = [d \in DOMAIN b.toc |-> b.toc[d]] /\ b.kind = [x \in DOMAIN b.kind |-> b.kind[x]]
<1> DEFINE frame == E!Built(<<"contents">>, <<"contents">>, E!Own("contents"))
           nav == E!Own("nav")
           page == E!Own("contents")
           items == E!Items(m)
           older == E!OlderContents(m)
           theirs(x) == E!MovedTOC(x[1], m[x[1]].toc[E!Own(x[2])])
           table == E!FlattenSeq(E!Tables(m))
           pages == E!FlattenSeq(E!Spines(m))
           start == E!Moved(1, Head(m[1].spine))
<1>1. \A x \in items \cup older : x[1] # 0
  BY ItemsOf
<1>2. nav # page /\ nav[1] = 0 /\ page[1] = 0
  BY DEF E!Own
<1>3. /\ DOMAIN frame = E!Parts /\ frame.version = 3 /\ frame.files = {page, nav}
      /\ frame.kind = [i \in {page, nav} |-> IF i = nav THEN "nav" ELSE "page"]
      /\ frame.spine = <<page>> /\ frame.cover = {} /\ frame.older = None /\ frame.about = {}
  <2>1. DOMAIN <<"contents">> = {1} /\ <<"contents">>[1] = "contents"
    OBVIOUS
  <2>2. {E!Own(<<"contents">>[k]) : k \in DOMAIN <<"contents">>} \cup {nav} = {page, nav}
    BY <2>1
  <2>3. [k \in DOMAIN <<"contents">> |-> E!Own(<<"contents">>[k])] = <<page>>
    BY <2>1
  <2>4. frame.spine = [k \in DOMAIN <<"contents">> |-> E!Own(<<"contents">>[k])]
    BY DEF E!Built
  <2>5. /\ frame.kind = [i \in {E!Own(<<"contents">>[k]) : k \in DOMAIN <<"contents">>} \cup {nav} |->
                           IF i = nav THEN "nav" ELSE "page"]
        /\ frame.files = {E!Own(<<"contents">>[k]) : k \in DOMAIN <<"contents">>} \cup {nav}
    BY DEF E!Built
  <2>6. /\ DOMAIN frame = E!Parts /\ frame.version = 3
        /\ frame.cover = {} /\ frame.older = None /\ frame.about = {}
    BY DEF E!Built, E!Parts
  <2> HIDE DEF frame, nav, page
  <2> QED
    BY <2>2, <2>3, <2>4, <2>5, <2>6
<1>4. b = [frame EXCEPT
              !.kind = [x \in DOMAIN frame.kind \cup items |->
                           IF x[1] = 0 THEN frame.kind[x] ELSE E!KindIn(m, x)],
              !.files = frame.files \cup items,
              !.spine = frame.spine \o pages,
              !.toc = [x \in {nav} \cup older |-> IF x[1] = 0 THEN table ELSE theirs(x)],
              !.start = start]
  BY DEF E!Bound
<1> HIDE DEF frame, nav, page, items, older, theirs, table, pages, start
<1>5. /\ DOMAIN b = E!Parts /\ b.version = 3 /\ b.cover = {} /\ b.older = None /\ b.about = {}
      /\ b.files = {page, nav} \cup items /\ b.spine = <<page>> \o pages /\ b.start = start
      /\ b.kind = [x \in DOMAIN frame.kind \cup items |-> IF x[1] = 0 THEN frame.kind[x] ELSE E!KindIn(m, x)]
      /\ b.toc = [x \in {nav} \cup older |-> IF x[1] = 0 THEN table ELSE theirs(x)]
  BY <1>3, <1>4 DEF E!Parts
<1>6. /\ DOMAIN b.kind = {page, nav} \cup items /\ b.kind[nav] = "nav" /\ b.kind[page] = "page"
      /\ \A y \in items : b.kind[y] = E!KindIn(m, y)
      /\ b.kind = [x \in DOMAIN b.kind |-> b.kind[x]]
  <2>1. /\ DOMAIN frame.kind = {page, nav} /\ frame.kind[nav] = "nav" /\ frame.kind[page] = "page"
    BY <1>2, <1>3
  <2> QED
    BY <1>1, <1>2, <1>5, <2>1
<1>7. /\ DOMAIN b.toc = {nav} \cup older /\ b.toc[nav] = table
      /\ \A x \in older : b.toc[x] = theirs(x)
      /\ b.toc = [d \in DOMAIN b.toc |-> b.toc[d]]
  BY <1>1, <1>2, <1>5
<1> QED
  BY <1>5, <1>6, <1>7 DEF Volumed, FrontMatter, nav, page, items, older, theirs, table, pages, start

LEMMA MovedPages ==
  ASSUME NEW S, NEW s \in Seq(S), NEW i
  PROVE  E!MovedSpine(i, s) \in Seq(E!Place(i, S))
<1> DEFINE P == E!Place(i, S)
<1>1. Len(s) \in Nat /\ DOMAIN s = 1..Len(s) /\ \A k \in 1..Len(s) : s[k] \in S
  BY SeqByIndex
<1>2. \A k \in 1..Len(s) : E!Moved(i, s[k]) \in P
  BY <1>1, PlaceOf DEF E!Moved
<1> HIDE DEF P
<1>3. E!MovedSpine(i, s) \in [1..Len(s) -> P]
  BY <1>1, <1>2 DEF E!MovedSpine
<1> QED
  BY <1>1, <1>3, FunctionIsSeq DEF P

LEMMA SpinesTyped ==
  ASSUME NEW n \in Nat \ {0}, NEW m, Gathered(m, n)
  PROVE  /\ E!Spines(m) \in [1..n -> Seq(E!Items(m))]
         /\ E!FlattenSeq(E!Spines(m)) \in Seq(E!Items(m))
<1> DEFINE items == E!Items(m)
<1>1. ASSUME NEW i \in 1..n PROVE E!MovedSpine(i, m[i].spine) \in Seq(items)
  <2>1. m[i].spine \in Seq(DOMAIN m[i].kind)
    BY WholeLeads DEF Gathered, Shaped
  <2>2. E!MovedSpine(i, m[i].spine) \in Seq(E!Place(i, DOMAIN m[i].kind))
    BY <2>1, MovedPages
  <2>3. E!Place(i, DOMAIN m[i].kind) \subseteq items
    BY ItemsOf, PlaceOf DEF Gathered
  <2> HIDE DEF items
  <2> QED
    BY <2>2, <2>3, SeqMore
<1> HIDE DEF items
<1>2. E!Spines(m) \in [1..n -> Seq(items)]
  BY <1>1 DEF E!Spines, Gathered
<1> QED
  BY <1>2, Flattened DEF items

\* The chapters' entries, each before what is in it.
LEMMA TablesTyped ==
  ASSUME NEW n \in Nat \ {0}, NEW m, Gathered(m, n)
  PROVE  /\ E!Tables(m) \in [1..n -> Seq(Lines(E!Items(m)))]
         /\ E!Listing(E!FlattenSeq(E!Tables(m)), E!Items(m), {})
<1> DEFINE items == E!Items(m)
           tables == E!Tables(m)
           head(i) == E!Entry(0, "chapter", E!Moved(i, Head(m[i].spine)))
<1>1. ASSUME NEW i \in 1..n
      PROVE  /\ E!Nested(i, m[i]) \in Seq(Lines(items)) /\ E!Nested(i, m[i]) # <<>>
             /\ E!Nested(i, m[i])[1] = head(i)
  <2> DEFINE P == E!Place(i, DOMAIN m[i].kind)
             t == E!Nested(i, m[i])
             e == head(i)
  <2>1. Shaped(m[i]) /\ Leads(m[i], DOMAIN m[i].kind) /\ m[i].about = {}
    BY WholeLeads DEF Gathered
  <2>2. PICK rest : Headed(t, e, rest, P)
    BY <2>1, NestedParts
  <2>3. P \subseteq items
    BY ItemsOf, PlaceOf DEF Gathered
  <2> HIDE DEF P, t, e, items
  <2>4. t = <<e>> \o rest /\ e \in Lines(P) /\ rest \in Seq(Lines(P))
    BY <2>2 DEF Headed
  <2>5. t \in Seq(Lines(P)) /\ t # <<>> /\ t[1] = e
    BY <2>4
  <2>6. t \in Seq(Lines(items))
    BY <2>3, <2>5, LinesMore
  <2> QED
    BY <2>5, <2>6 DEF t, e
<1>2. head(1).depth = 0
  BY DEF E!Entry
<1> HIDE DEF items, head
<1>3. tables \in [1..n -> Seq(Lines(items))] /\ tables[1] # <<>> /\ tables[1][1].depth = 0
  <2>1. tables = [i \in 1..n |-> E!Nested(i, m[i])]
    BY DEF E!Tables, Gathered
  <2>2. 1 \in 1..n
    OBVIOUS
  <2> HIDE DEF tables
  <2> QED
    BY <1>1, <1>2, <2>1, <2>2
<1> HIDE DEF tables
<1>4. E!FlattenSeq(tables) \in Seq(Lines(items)) /\ E!FlattenSeq(tables)[1] = tables[1][1]
  BY <1>3, Flattened, FlattenedHead
<1> QED
  BY <1>3, <1>4, ListingParts DEF items, tables

LEMMA BoundWhole ==
  ASSUME NEW n \in Nat \ {0}, NEW m, Gathered(m, n), NEW b, b = E!Bound(m)
  PROVE  /\ E!Whole(b) /\ E!Navigation(b) = {E!Own("nav")} \cup E!OlderContents(m)
         /\ b.about = {} /\ E!CoverOf(b) = {} /\ Volumed(b, m)
<1> DEFINE nav == E!Own("nav")
           page == E!Own("contents")
           items == E!Items(m)
           older == E!OlderContents(m)
           K == FrontMatter \cup items
           kinds == {"page", "image", "nav", "ncx"}
<1>1. Volumed(b, m) /\ b.toc = [d \in DOMAIN b.toc |-> b.toc[d]] /\ b.kind = [x \in DOMAIN b.kind |-> b.kind[x]]
  BY BoundFields DEF Gathered
<1>2. \A i \in 1..n : Shaped(m[i]) /\ Leads(m[i], DOMAIN m[i].kind) /\ m[i].about = {} /\ PlainNames(m[i])
  BY WholeLeads DEF Gathered
<1>3. /\ nav # page /\ nav \notin {E!Preface, E!About, E!Cover} /\ FrontMatter = {page, nav}
      /\ ~E!IsAbout(nav) /\ ~E!IsAbout(page) /\ nav[1] = 0 /\ page[1] = 0
  BY DEF E!Own, E!Preface, E!About, E!Cover, FrontMatter, E!IsAbout
<1>4. ASSUME NEW i \in 1..n, NEW x \in DOMAIN m[i].kind
      PROVE  /\ <<i, x[2]>> \in items /\ b.kind[<<i, x[2]>>] \in kinds \ {"nav"}
             /\ b.kind[<<i, x[2]>>] = "ncx" <=> x \in E!OfKind(m[i], {"ncx"})
             /\ ~E!IsAbout(<<i, x[2]>>) /\ <<i, x[2]>>[1] = i
  <2>1. <<i, x[2]>> \in items
    BY ItemsOf DEF Gathered
  <2>2. b.kind[<<i, x[2]>>] = IF m[i].kind[x] = "nav" THEN "page" ELSE m[i].kind[x]
    <3>1. E!Was(m, <<i, x[2]>>) = m[i].kind[x]
      BY <1>2, KindThere
    <3>2. b.kind[<<i, x[2]>>] = E!KindIn(m, <<i, x[2]>>)
      BY <1>1, <2>1 DEF Volumed
    <3> QED
      BY <3>1, <3>2 DEF E!KindIn
  <2>3. m[i].kind[x] \in kinds
    BY <1>2 DEF Shaped
  <2>4. ~E!IsAbout(<<i, x[2]>>)
    <3>1. ~E!IsAbout(x)
      BY <1>2 DEF Shaped
    <3> QED
      BY <3>1 DEF E!IsAbout
  <2>5. x \in E!OfKind(m[i], {"ncx"}) <=> m[i].kind[x] = "ncx"
    BY DEF E!OfKind
  <2> QED
    BY <2>1, <2>2, <2>3, <2>4, <2>5
<1>5. ASSUME NEW y \in items
      PROVE  /\ b.kind[y] \in kinds \ {"nav"} /\ (b.kind[y] = "ncx" <=> y \in older)
             /\ ~E!IsAbout(y) /\ y[1] # 0
  <2>1. PICK i \in 1..n : \E x \in DOMAIN m[i].kind : y = <<i, x[2]>>
    BY ItemsOf DEF Gathered
  <2>2. PICK x \in DOMAIN m[i].kind : y = <<i, x[2]>>
    BY <2>1
  <2>3. y \in older <=> x \in E!OfKind(m[i], {"ncx"})
    <3>1. x \in E!OfKind(m[i], {"ncx"}) => y \in older
      BY <2>2, ItemsOf DEF Gathered
    <3>2. ASSUME y \in older PROVE x \in E!OfKind(m[i], {"ncx"})
      <4>1. PICK j \in 1..n : \E z \in E!OfKind(m[j], {"ncx"}) : y = <<j, z[2]>>
        BY <3>2, ItemsOf DEF Gathered
      <4>2. PICK z \in E!OfKind(m[j], {"ncx"}) : y = <<j, z[2]>>
        BY <4>1
      <4>3. j = i /\ z[2] = x[2]
        BY <2>2, <4>2
      <4>4. z \in DOMAIN m[i].kind /\ z = E!Own(z[2]) /\ x = E!Own(x[2])
        BY <1>2, <4>2, <4>3 DEF E!OfKind, PlainNames
      <4> QED
        BY <4>2, <4>3, <4>4
    <3> QED
      BY <3>1, <3>2
  <2> QED
    BY <1>4, <2>2, <2>3
<1>6. older \subseteq items
  BY ItemsOf DEF Gathered, E!OfKind
<1>7. E!Navigation(b) = {nav} \cup older
  <2>1. DOMAIN b.kind = K /\ b.kind[nav] = "nav" /\ b.kind[page] = "page"
    BY <1>1 DEF Volumed
  <2>2. \A y : y \in E!Navigation(b) <=> y \in K /\ b.kind[y] \in {"nav", "ncx"}
    BY <2>1 DEF E!Navigation, E!OfKind
  <2> HIDE DEF items, older, nav, page
  <2> QED
    BY <1>3, <1>5, <1>6, <2>1, <2>2
<1>8. Shaped(b)
  <2>1. b.kind \in [K -> kinds]
    <3>1. \A y \in K : b.kind[y] \in kinds
      BY <1>1, <1>3, <1>5 DEF Volumed
    <3>2. DOMAIN b.kind = K
      BY <1>1 DEF Volumed
    <3> HIDE DEF K, kinds
    <3> QED
      BY <1>1, <3>1, <3>2
  <2>2. b.spine \in Seq(K) /\ b.spine # <<>>
    <3> DEFINE s == E!FlattenSeq(E!Spines(m))
    <3>1. s \in Seq(items)
      BY SpinesTyped
    <3>2. page \in K /\ items \subseteq K
      BY <1>3
    <3>3. b.spine = <<page>> \o s
      BY <1>1 DEF Volumed
    <3> HIDE DEF s, items, page, K
    <3>4. s \in Seq(K)
      BY <3>1, <3>2, SeqMore
    <3> QED
      BY <3>2, <3>3, <3>4
  <2>3. {y \in K : E!IsAbout(y)} = {}
    BY <1>3, <1>5
  <2>4. E!Navigation(b) \cap {E!Preface, E!About, E!Cover} = {}
    <3>1. E!Preface[1] = 0 /\ E!About[1] = 0 /\ E!Cover[1] = 0
      BY DEF E!Own, E!Preface, E!About, E!Cover
    <3> QED
      BY <1>3, <1>5, <1>6, <1>7, <3>1
  <2> HIDE DEF K
  <2> QED
    BY <1>1, <2>1, <2>2, <2>3, <2>4 DEF Shaped, Volumed, K
<1>9. E!CoverOf(b) = {}
  BY <1>1 DEF Volumed, E!CoverOf
<1>10. Leads(b, K)
  <2>1. b.toc = [d \in E!Navigation(b) |-> b.toc[d]]
    BY <1>1, <1>7 DEF Volumed
  <2>2. E!Listing(b.toc[nav], K, {})
    <3>1. E!Listing(E!FlattenSeq(E!Tables(m)), items, {})
      BY TablesTyped
    <3>2. items \subseteq K
      OBVIOUS
    <3> QED
      BY <1>1, <3>1, <3>2, ListingMore DEF Volumed
  <2>3. ASSUME NEW y \in older PROVE E!Listing(b.toc[y], K, {})
    <3>1. PICK i \in 1..n : \E x \in E!OfKind(m[i], {"ncx"}) : y = <<i, x[2]>>
      BY ItemsOf DEF Gathered
    <3>2. PICK x \in E!OfKind(m[i], {"ncx"}) : y = <<i, x[2]>>
      BY <3>1
    <3> DEFINE table == m[i].toc[x]
               its == DOMAIN m[i].kind
    <3>3. E!Listing(table, its, {})
      <4>1. x \in E!Navigation(m[i])
        BY DEF E!OfKind, E!Navigation
      <4> QED
        BY <1>2, <4>1 DEF Leads
    <3>4. b.toc[y] = E!MovedTOC(i, table)
      <4>1. y[1] = i /\ E!Own(y[2]) = x
        BY <1>2, <3>2 DEF E!OfKind, PlainNames
      <4> QED
        BY <1>1, <4>1 DEF Volumed
    <3>5. E!Place(i, its) \subseteq K
      BY ItemsOf, PlaceOf DEF Gathered
    <3> HIDE DEF table, its, K
    <3> QED
      BY <3>3, <3>4, <3>5, ListingMoved, ListingMore
  <2>4. b.start \in K
    <3>1. 1 \in 1..n
      OBVIOUS
    <3>2. Head(m[1].spine) \in DOMAIN m[1].kind
      BY <1>2, <3>1, HeadOf
    <3> QED
      BY <1>1, <1>4, <3>1, <3>2 DEF Volumed, E!Moved
  <2>5. b.about = {}
    BY <1>1 DEF Volumed
  <2> HIDE DEF K
  <2> QED
    BY <1>7, <1>9, <2>1, <2>2, <2>3, <2>4, <2>5 DEF Leads
<1>11. E!Whole(b)
  BY <1>1, <1>8, <1>10, WholeLeads DEF Volumed
<1> QED
  BY <1>1, <1>7, <1>9, <1>11 DEF Volumed

-----------------------------------------------------------------------------
(* Edition: how a volume ends.                                             *)

LEMMA NothingToTake ==
  ASSUME NEW p, Shaped(p), NEW S, Leads(p, S), p.about = {}, NEW r, r = E!WithoutAbout(p)
  PROVE  /\ DOMAIN r = E!Parts /\ r.toc = p.toc /\ r.spine = p.spine /\ r.files = p.files
         /\ SameCovers(r, p) /\ r.about = {}
<1>1. AboutTaken(r, p)
  BY WithoutAboutFields DEF Shaped
<1>2. p.toc = [d \in E!Navigation(p) |-> p.toc[d]]
  BY DEF Leads
<1>3. \A d \in DOMAIN p.toc : E!WithoutEntries(p.toc[d], p.about) = p.toc[d]
  <2> SUFFICES ASSUME NEW d \in E!Navigation(p) PROVE E!WithoutEntries(p.toc[d], {}) = p.toc[d]
    BY <1>2
  <2> DEFINE toc == p.toc[d]
             marks == E!Aim(toc)
             none == {}
  <2>1. toc \in Seq(Lines(S))
    BY LeadsTypes
  <2>2. \A k \in DOMAIN toc : marks[k] \notin none
    OBVIOUS
  <2> HIDE DEF toc, marks, none
  <2>3. Left(toc, marks, none) = toc
    BY <2>1, <2>2, LeftAll
  <2> QED
    BY <2>3, EntriesLeft DEF marks, none, toc
<1>4. E!WithoutPages(p.spine, p.about) = p.spine
  <2> DEFINE s == p.spine
             none == {}
  <2>1. s \in Seq(DOMAIN p.kind) /\ \A k \in DOMAIN s : s[k] \notin none
    BY DEF Shaped
  <2> HIDE DEF s, none
  <2>2. Left(s, s, none) = s
    BY <2>1, LeftAll
  <2> QED
    BY <2>2, PagesLeft DEF s, none
<1>5. [d \in DOMAIN p.toc |-> E!WithoutEntries(p.toc[d], p.about)] = p.toc
  BY <1>2, <1>3
<1> QED
  BY <1>1, <1>4, <1>5 DEF AboutTaken

\* With or without a page About at the end.
Ended(v, b) ==
    \/ v.about = {} /\ v.spine = b.spine /\ v.toc = b.toc
    \/ /\ v.about = {E!About} /\ v.spine = Append(b.spine, E!About)
       /\ v.toc = [d \in DOMAIN b.toc |-> E!WithEntry(b.toc[d])]

LEMMA VolumeEnds ==
  ASSUME NEW b, E!Whole(b), b.about = {}, E!CoverOf(b) = {}, NEW publication, NEW preserve, NEW about,
         NEW chapter, ~chapter, NEW v, v = E!WithMetadata(b, publication, preserve, chapter, about), v # Failed
  PROVE  /\ E!Whole(v) /\ Fits(v, b) /\ Ended(v, b) /\ E!CoverOf(v) \subseteq {E!Cover}
         /\ b.files \subseteq v.files /\ v.files \subseteq b.files \cup {E!Cover} \cup v.about
<1> DEFINE shown == [b EXCEPT !.identity = E!Identified(b, publication, preserve)]
           cleared == E!WithoutAbout(shown)
           covered == E!Covered(cleared, publication)
<1>1. E!Whole(v) /\ Fits(v, b)
  BY MetadataWhole
<1>2. v = IF publication = None THEN shown
          ELSE IF about THEN E!WithAbout(covered, publication) ELSE covered
  BY DEF E!WithMetadata, E!Written, E!Decorated
<1>3. Shaped(b) /\ Leads(b, DOMAIN b.kind)
  BY WholeLeads
<1>4. Fits(shown, b) /\ Stored(shown, b) /\ shown.toc = b.toc /\ SameCovers(shown, b) /\ Pages(shown, b)
  BY <1>3, NamedWhole, NamedFields DEF Shaped
<1> HIDE DEF shown
<1>5. E!Whole(shown)
  BY <1>3, <1>4, FitsWhole
<1>6. /\ DOMAIN cleared = E!Parts /\ cleared.toc = b.toc /\ cleared.spine = b.spine /\ cleared.files = b.files
      /\ SameCovers(cleared, b) /\ cleared.about = {}
  <2>1. Shaped(shown) /\ Leads(shown, DOMAIN shown.kind) /\ shown.about = {}
    BY <1>4, <1>5, WholeLeads DEF Pages
  <2> DEFINE S == DOMAIN shown.kind
  <2> HIDE DEF S
  <2>2. /\ DOMAIN cleared = E!Parts /\ cleared.toc = shown.toc /\ cleared.spine = shown.spine
        /\ cleared.files = shown.files /\ SameCovers(cleared, shown) /\ cleared.about = {}
    BY <2>1, NothingToTake DEF S
  <2> QED
    BY <1>4, <2>2 DEF Stored, Pages, SameCovers
<1> HIDE DEF cleared
<1>7. /\ DOMAIN covered = E!Parts /\ covered.toc = b.toc /\ covered.spine = b.spine /\ covered.about = {}
      /\ b.files \subseteq covered.files /\ covered.files \subseteq b.files \cup {E!Cover}
      /\ E!CoverOf(covered) \subseteq {E!Cover}
  <2>1. CASE covered = cleared
    BY <1>6, <2>1 DEF SameCovers, E!CoverOf
  <2>2. CASE CoverAdded(covered, cleared)
    BY <1>6, <2>2 DEF CoverAdded, Pages, E!CoverOf
  <2> QED
    BY <1>6, <2>1, <2>2, CoveredFields
<1> HIDE DEF covered
<1>8. CASE v = shown
  BY <1>1, <1>4, <1>8 DEF Ended, Stored, Pages, SameCovers, E!CoverOf
<1>9. CASE v = covered
  BY <1>1, <1>7, <1>9 DEF Ended
<1>10. CASE v = E!WithAbout(covered, publication)
  <2>1. v = covered \/ AboutAdded(v, covered)
    BY <1>7, <1>10, WithAboutFields
  <2>2. CASE AboutAdded(v, covered)
    BY <1>1, <1>7, <2>2 DEF AboutAdded, Ended, SameCovers, E!CoverOf
  <2> QED
    BY <1>9, <2>1, <2>2
<1> QED
  BY <1>2, <1>8, <1>9, <1>10

LEMMA AppendLast ==
  ASSUME NEW T, NEW s \in Seq(T), NEW x, NEW A, x \in A, \A k \in DOMAIN s : s[k] \notin A
  PROVE  /\ {k \in DOMAIN Append(s, x) : Append(s, x)[k] \in A} = {Len(Append(s, x))}
         /\ Append(s, x)[Len(Append(s, x))] = x
<1> DEFINE S == T \cup {x}
           r == Append(s, x)
           n == Len(s)
<1>1. s \in Seq(S) /\ x \in S
  BY SeqMore
<1> HIDE DEF S
<1>2. /\ n \in Nat /\ DOMAIN s = 1..n /\ Len(r) = n + 1 /\ DOMAIN r = 1..(n + 1)
      /\ r[n + 1] = x /\ \A k \in 1..n : r[k] = s[k]
  BY <1>1
<1> HIDE DEF r, n
<1>3. \A k \in 1..(n + 1) : r[k] \in A <=> k = n + 1
  <2> SUFFICES ASSUME NEW k \in 1..(n + 1) PROVE r[k] \in A <=> k = n + 1
    OBVIOUS
  <2>1. k # n + 1 => k \in 1..n
    BY <1>2
  <2> QED
    BY <1>2, <2>1
<1>4. n + 1 \in 1..(n + 1)
  BY <1>2
<1> QED
  BY <1>2, <1>3, <1>4 DEF r

LEMMA VolumeAbout ==
  ASSUME NEW b, E!Whole(b), b.about = {}, b.files \subseteq DOMAIN b.kind,
         NEW v, E!Whole(v), Ended(v, b), DOMAIN v.toc = DOMAIN b.toc,
         b.files \subseteq v.files, v.files \subseteq b.files \cup {E!Cover} \cup v.about,
         v.about \subseteq v.files
  PROVE  E!OneAbout(v)
<1> DEFINE A == {x \in DOMAIN v.kind : E!IsAbout(x)}
           pages == {k \in DOMAIN v.spine : E!IsAbout(v.spine[k])}
<1>1. Shaped(v) /\ Leads(v, DOMAIN v.kind) /\ Shaped(b) /\ Leads(b, DOMAIN b.kind)
  BY WholeLeads
<1>2. ~E!IsAbout(E!Cover) /\ E!IsAbout(E!About)
  BY DEF E!IsAbout, E!Cover, E!About, E!Own
<1>3. \A x \in DOMAIN b.kind : ~E!IsAbout(x)
  BY <1>1 DEF Shaped
<1>4. {x \in v.files : E!IsAbout(x)} = v.about
  <2>1. \A x \in v.about : E!IsAbout(x)
    BY <1>1 DEF Shaped
  <2>2. \A x \in b.files \cup {E!Cover} : ~E!IsAbout(x)
    BY <1>2, <1>3
  <2> QED
    BY <2>1, <2>2
<1>5. \A k \in DOMAIN b.spine : ~E!IsAbout(b.spine[k])
  BY <1>1, <1>3 DEF Shaped
<1>6. ASSUME NEW d \in DOMAIN b.toc
      PROVE  /\ b.toc[d] \in Seq(Lines(DOMAIN b.kind))
             /\ \A k \in DOMAIN b.toc[d] : ~E!IsAbout(b.toc[d][k].to)
  <2>1. d \in E!Navigation(b)
    <3>1. b.toc = [e \in E!Navigation(b) |-> b.toc[e]]
      BY <1>1 DEF Leads
    <3> QED
      BY <3>1
  <2>2. E!Listing(b.toc[d], DOMAIN b.kind, {})
    BY <1>1, <2>1 DEF Leads
  <2>3. \A k \in DOMAIN b.toc[d] : b.toc[d][k].to \in DOMAIN b.kind
    BY <2>2, ListingAims
  <2> QED
    BY <1>3, <2>2, <2>3, ListingParts
<1>7. CASE v.about = {} /\ v.spine = b.spine /\ v.toc = b.toc
  <2>1. pages = {}
    BY <1>5, <1>7
  <2>2. {v.spine[k] : k \in pages} = {}
    BY <2>1
  <2>3. \A d \in DOMAIN v.toc : {k \in DOMAIN v.toc[d] : E!IsAbout(v.toc[d][k].to)} = {}
    BY <1>6, <1>7
  <2> QED
    BY <1>4, <1>7, <2>1, <2>2, <2>3 DEF E!OneAbout
<1>8. CASE /\ v.about = {E!About} /\ v.spine = Append(b.spine, E!About)
           /\ v.toc = [d \in DOMAIN b.toc |-> E!WithEntry(b.toc[d])]
  <2>1. pages = {Len(v.spine)} /\ v.spine[Len(v.spine)] = E!About
    <3> DEFINE s == b.spine
               x == E!About
               its == DOMAIN b.kind
               M == {x} \cup {y \in DOMAIN v.kind : E!IsAbout(y)}
    <3>1. s \in Seq(its) /\ x \in M /\ \A k \in DOMAIN s : s[k] \notin M
      BY <1>1, <1>2, <1>5 DEF Shaped
    <3>2. \A k \in DOMAIN v.spine : v.spine[k] \in M <=> E!IsAbout(v.spine[k])
      <4>1. \A k \in DOMAIN v.spine : v.spine[k] \in DOMAIN v.kind
        BY <1>1 DEF Shaped
      <4> QED
        BY <1>2, <4>1
    <3> HIDE DEF s, x, its, M
    <3>3. /\ {k \in DOMAIN Append(s, x) : Append(s, x)[k] \in M} = {Len(Append(s, x))}
          /\ Append(s, x)[Len(Append(s, x))] = x
      BY <3>1, AppendLast
    <3>4. v.spine = Append(s, x)
      BY <1>8 DEF s, x
    <3> QED
      BY <3>2, <3>3, <3>4 DEF x
  <2>2. {v.spine[k] : k \in pages} = {E!About} /\ pages # {}
    BY <2>1
  <2>3. ASSUME NEW d \in DOMAIN v.toc
        PROVE  {k \in DOMAIN v.toc[d] : E!IsAbout(v.toc[d][k].to)} = {Len(v.toc[d])}
    <3> DEFINE s == b.toc[d]
               e == E!Entry(0, "about", E!About)
               S == Lines(DOMAIN b.kind)
               M == {e} \cup {s[k] : k \in {j \in DOMAIN s : E!IsAbout(s[j].to)}}
    <3>1. s \in Seq(S) /\ {j \in DOMAIN s : E!IsAbout(s[j].to)} = {}
      BY <1>6
    <3>2. E!IsAbout(e.to)
      BY <1>2 DEF E!Entry
    <3>3. M = {e}
      BY <3>1
    <3>4. \A k \in DOMAIN s : ~E!IsAbout(s[k].to)
      BY <1>6
    <3>5. v.toc[d] = Append(s, e)
      BY <1>8 DEF E!WithEntry
    <3> HIDE DEF s, e, S, M
    <3>6. \A k \in DOMAIN s : s[k] \notin M
      BY <3>2, <3>3, <3>4
    <3>7. {k \in DOMAIN Append(s, e) : Append(s, e)[k] \in M} = {Len(Append(s, e))}
      BY <3>1, <3>3, <3>6, AppendLast
    <3>8. \A k \in DOMAIN Append(s, e) : Append(s, e)[k] = e \/ \E j \in DOMAIN s : Append(s, e)[k] = s[j]
      <4>1. s \in Seq(S \cup {e})
        BY <3>1, SeqMore
      <4>2. Len(s) \in Nat /\ DOMAIN s = 1..Len(s) /\ DOMAIN Append(s, e) = 1..(Len(s) + 1)
            /\ Append(s, e)[Len(s) + 1] = e /\ \A k \in 1..Len(s) : Append(s, e)[k] = s[k]
        BY <4>1
      <4>3. \A k \in 1..(Len(s) + 1) : k = Len(s) + 1 \/ k \in 1..Len(s)
        BY <4>2
      <4> QED
        BY <4>2, <4>3
    <3>9. \A k \in DOMAIN Append(s, e) : Append(s, e)[k] \in M <=> E!IsAbout(Append(s, e)[k].to)
      BY <3>2, <3>3, <3>4, <3>8
    <3> QED
      BY <3>5, <3>7, <3>9
  <2> QED
    BY <1>4, <1>8, <2>1, <2>2, <2>3 DEF E!OneAbout
<1> QED
  BY <1>7, <1>8 DEF Ended

-----------------------------------------------------------------------------
(* Edition: what a volume has of its chapters.                             *)

LEMMA LeftMiddle ==
  ASSUME NEW T, NEW a \in Seq(T), NEW s \in Seq(T), NEW z \in Seq(T), NEW gone,
         NEW U, NEW before \in Seq(U), NEW marks \in Seq(U), NEW after \in Seq(U),
         Alike(a, before), Alike(s, marks), Alike(z, after),
         \A k \in DOMAIN a : before[k] \in gone, \A k \in DOMAIN z : after[k] \in gone
  PROVE  Left(Then(Then(a, s), z), Then(Then(before, marks), after), gone) = Left(s, marks, gone)
<1> DEFINE front == Then(a, s)
           told == Then(before, marks)
<1>1. front \in Seq(T) /\ told \in Seq(U) /\ Alike(front, told)
  <2>1. /\ DOMAIN a = 1..Len(a) /\ DOMAIN s = 1..Len(s) /\ DOMAIN before = 1..Len(before)
        /\ DOMAIN marks = 1..Len(marks) /\ Len(front) = Len(a) + Len(s)
        /\ Len(told) = Len(before) + Len(marks)
        /\ front \in Seq(T) /\ told \in Seq(U)
    BY DEF Then
  <2>2. DOMAIN front = 1..Len(front) /\ DOMAIN told = 1..Len(told)
    BY <2>1
  <2> HIDE DEF front, told
  <2> QED
    BY <2>1, <2>2 DEF Alike
<1>2. Left(front, told, gone) = Then(Left(a, before, gone), Left(s, marks, gone))
  BY LeftJoin
<1> HIDE DEF front, told
<1>3. Left(Then(front, z), Then(told, after), gone) = Then(Left(front, told, gone), Left(z, after, gone))
  BY <1>1, LeftJoin
<1>4. Left(a, before, gone) = <<>> /\ Left(z, after, gone) = <<>>
  BY LeftNone
<1>5. Left(s, marks, gone) \in Seq(T)
  BY LeftTyped
<1>6. Then(Then(<<>>, Left(s, marks, gone)), <<>>) = Left(s, marks, gone)
  BY <1>5 DEF Then
<1> QED
  BY <1>2, <1>3, <1>4, <1>6 DEF front, told

\* What a volume may add after its chapters.
AboutEntry == E!Entry(0, "about", E!About)

LEMMA EndedBy ==
  ASSUME NEW b, E!Whole(b), NEW v, Ended(v, b), NEW d \in DOMAIN b.toc
  PROVE  /\ \E z \in {<<>>, <<E!About>>} : v.spine = Then(b.spine, z)
         /\ \E z \in {<<>>, <<AboutEntry>>} : v.toc[d] = Then(b.toc[d], z)
<1> DEFINE S == DOMAIN b.kind
           page == E!About
           more == AboutEntry
<1>1. Shaped(b) /\ Leads(b, S)
  BY WholeLeads
<1>2. b.spine \in Seq(S)
  BY <1>1 DEF Shaped
<1>3. b.toc[d] \in Seq(Lines(S))
  <2>1. b.toc = [x \in E!Navigation(b) |-> b.toc[x]]
    BY <1>1 DEF Leads
  <2>2. d \in E!Navigation(b)
    BY <2>1
  <2> QED
    BY <1>1, <2>2, LeadsTypes
<1> HIDE DEF S, page, more
<1>4. Then(b.spine, <<>>) = b.spine /\ Append(b.spine, page) = Then(b.spine, <<page>>)
  BY <1>2 DEF Then
<1>5. Then(b.toc[d], <<>>) = b.toc[d] /\ Append(b.toc[d], more) = Then(b.toc[d], <<more>>)
  BY <1>3 DEF Then
<1>6. CASE v.spine = b.spine /\ v.toc = b.toc
  BY <1>4, <1>5, <1>6
<1>7. CASE /\ v.spine = Append(b.spine, page)
           /\ v.toc = [x \in DOMAIN b.toc |-> E!WithEntry(b.toc[x])]
  <2>1. v.toc[d] = Append(b.toc[d], more)
    BY <1>7 DEF E!WithEntry, more, AboutEntry
  <2> QED
    BY <1>4, <1>5, <1>7, <2>1 DEF page, more
<1> QED
  BY <1>6, <1>7 DEF Ended, page

\* The pages that are a chapter's.
ChaptersPages(s) == E!Only(s, {k \in DOMAIN s : s[k][1] # 0})

\* Every page of every chapter, in order, between the front and the end.
LEMMA PagesBound ==
  ASSUME NEW n \in Nat \ {0}, NEW m, Gathered(m, n), NEW b, Volumed(b, m),
         NEW z \in {<<>>, <<E!About>>}, NEW s, s = Then(b.spine, z)
  PROVE  ChaptersPages(s) = E!FlattenSeq(E!Spines(m))
<1> DEFINE pages == E!FlattenSeq(E!Spines(m))
           items == E!Items(m)
           T == items \cup {E!Own("contents"), E!About}
           gone == {y \in T : y[1] = 0}
           front == <<E!Own("contents")>>
<1>1. pages \in Seq(items)
  BY SpinesTyped
<1>2. \A y \in items : y[1] # 0
  BY ItemsOf DEF Gathered
<1>3. E!Own("contents")[1] = 0 /\ E!About[1] = 0
  BY DEF E!Own, E!About
<1>4. items \subseteq T /\ E!Own("contents") \in gone /\ E!About \in gone /\ gone \subseteq T
      /\ \A y \in T : y \notin gone <=> y[1] # 0
  BY <1>3
<1>5. b.spine = Then(front, pages)
  BY DEF Volumed, Then
<1> HIDE DEF pages, items, T, gone
<1>6. pages \in Seq(T)
  BY <1>1, <1>4, SeqMore
<1>7. front \in Seq(T) /\ \A k \in DOMAIN front : front[k] \in gone
  BY <1>4
<1>8. z \in Seq(T) /\ \A k \in DOMAIN z : z[k] \in gone
  <2>1. CASE z = <<>>
    BY <2>1
  <2>2. CASE z = <<E!About>>
    BY <1>4, <2>2
  <2> QED
    BY <2>1, <2>2
<1> HIDE DEF front
<1>9. Alike(front, front) /\ Alike(pages, pages) /\ Alike(z, z)
  BY DEF Alike
<1>10. Left(s, s, gone) = Left(pages, pages, gone)
  BY <1>5, <1>6, <1>7, <1>8, <1>9, LeftMiddle
<1>11. \A k \in DOMAIN pages : pages[k] \notin gone
  <2>1. \A k \in DOMAIN pages : pages[k] \in items
    BY <1>1
  <2> QED
    BY <1>2, <1>4, <2>1
<1>12. Left(pages, pages, gone) = pages
  BY <1>6, <1>11, LeftAll
<1>13. s \in Seq(T)
  BY <1>5, <1>6, <1>7, <1>8 DEF Then
<1>14. \A k \in DOMAIN s : s[k] \in T
  BY <1>13
<1>15. {k \in DOMAIN s : s[k][1] # 0} = Staying(s, s, gone)
  BY <1>4, <1>14 DEF Staying
<1> QED
  BY <1>10, <1>12, <1>15 DEF Left, pages, ChaptersPages

\* A chapter's entries and what they lead to.
LEMMA NestedTyped ==
  ASSUME NEW n \in Nat \ {0}, NEW m, Gathered(m, n), NEW i \in 1..n,
         NEW P, P = E!Place(i, DOMAIN m[i].kind), NEW first, first = E!Moved(i, Head(m[i].spine)),
         NEW e, e = E!Entry(0, "chapter", first), NEW t, t = E!Nested(i, m[i]),
         NEW aims, aims = E!Aim(E!MovedTOC(i, E!Contents(m[i])))
  PROVE  /\ \E rest : Headed(t, e, rest, P)
         /\ t \in Seq(Lines(P)) /\ P \subseteq E!Items(m) /\ \A y \in P : y[1] = i
         /\ E!Aim(t) \in {aims, <<first>> \o aims}
<1> DEFINE p == m[i]
<1>1. Shaped(p) /\ Leads(p, DOMAIN p.kind) /\ p.about = {}
  BY WholeLeads DEF Gathered
<1>2. /\ P = E!Place(i, DOMAIN p.kind) /\ first = E!Moved(i, Head(p.spine)) /\ t = E!Nested(i, p)
      /\ aims = E!Aim(E!MovedTOC(i, E!Contents(p)))
  OBVIOUS
<1>3. P \subseteq E!Items(m) /\ \A y \in P : y[1] = i
  BY ItemsOf, PlaceOf DEF Gathered
<1> HIDE DEF p
<1>4. (\E rest : Headed(t, e, rest, P)) /\ E!Aim(t) \in {aims, <<first>> \o aims}
  <2>1. (\E rest : Headed(E!Nested(i, p), e, rest, P)) /\ E!Aim(E!Nested(i, p)) \in {aims, <<first>> \o aims}
    BY <1>1, <1>2, NestedParts
  <2> QED
    BY <1>2, <2>1
<1>5. PICK rest : Headed(t, e, rest, P)
  BY <1>4
<1>6. t \in Seq(Lines(P))
  <2>1. t = <<e>> \o rest /\ e \in Lines(P) /\ rest \in Seq(Lines(P))
    BY <1>5 DEF Headed
  <2> QED
    BY <2>1
<1> QED
  BY <1>3, <1>4, <1>6

\* All of a chapter's entries are its own, whatever stands between.
LEMMA EntriesUnder ==
  ASSUME NEW n \in Nat \ {0}, NEW m, Gathered(m, n), NEW z \in {<<>>, <<AboutEntry>>},
         NEW nav, nav = Then(E!FlattenSeq(E!Tables(m)), z), NEW i \in 1..n
  PROVE  E!Only(E!Aim(nav), {k \in DOMAIN nav : nav[k].to[1] = i}) = E!Aim(E!Nested(i, m[i]))
<1> DEFINE tables == E!Tables(m)
           table == E!FlattenSeq(tables)
           items == E!Items(m)
           T == items \cup {E!About}
           gone == {y \in T : y[1] # i}
           aims == [j \in 1..n |-> E!Aim(tables[j])]
           left == [j \in 1..n |-> Left(aims[j], aims[j], gone)]
<1>1. tables \in [1..n -> Seq(Lines(items))]
  BY TablesTyped
<1>2. ASSUME NEW j \in 1..n
      PROVE  /\ tables[j] = E!Nested(j, m[j]) /\ aims[j] \in Seq(items)
             /\ \A k \in DOMAIN aims[j] : aims[j][k] \in items /\ aims[j][k][1] = j
  <2> DEFINE t == E!Nested(j, m[j])
             P == E!Place(j, DOMAIN m[j].kind)
             first == E!Moved(j, Head(m[j].spine))
             e == E!Entry(0, "chapter", first)
             its == E!Aim(E!MovedTOC(j, E!Contents(m[j])))
  <2>1. t \in Seq(Lines(P)) /\ P \subseteq items /\ \A y \in P : y[1] = j
    <3>1. /\ P = E!Place(j, DOMAIN m[j].kind) /\ first = E!Moved(j, Head(m[j].spine))
          /\ e = E!Entry(0, "chapter", first) /\ t = E!Nested(j, m[j])
          /\ its = E!Aim(E!MovedTOC(j, E!Contents(m[j])))
      OBVIOUS
    <3>2. j \in 1..n /\ n \in Nat \ {0} /\ Gathered(m, n)
      OBVIOUS
    <3> HIDE DEF P, first, e, t, its, items
    <3>3. /\ \E rest : Headed(t, e, rest, P)
          /\ t \in Seq(Lines(P)) /\ P \subseteq E!Items(m) /\ \A y \in P : y[1] = j
          /\ E!Aim(t) \in {its, <<first>> \o its}
      BY ONLY <3>1, <3>2, NestedTyped
    <3> QED
      BY <3>3 DEF items
  <2>2. tables[j] = t /\ aims[j] = E!Aim(t)
    BY DEF E!Tables, Gathered
  <2> HIDE DEF t, P, aims, tables, items
  <2>3. E!Aim(t) \in Seq(P)
    BY <2>1, AimTyped
  <2>4. E!Aim(t) \in Seq(items)
    BY <2>1, <2>3, SeqMore
  <2>5. \A k \in DOMAIN E!Aim(t) : E!Aim(t)[k] \in P
    BY <2>3
  <2> QED
    BY <2>1, <2>2, <2>4, <2>5 DEF t
<1>3. E!About \in T /\ E!About[1] = 0 /\ items \subseteq T /\ i # 0
  BY DEF E!About, E!Own
<1>4. /\ E!About \in gone /\ \A y \in T : y \in gone <=> y[1] # i
  BY <1>3
<1> HIDE DEF items, T, gone, tables
<1>5. aims \in [1..n -> Seq(items)]
  BY <1>2
<1>6. E!Aim(table) = E!FlattenSeq(aims)
  BY <1>1, FlattenedAims
<1>7. table \in Seq(Lines(items))
  BY <1>1, Flattened
<1> HIDE DEF table
<1>8. table \in Seq(Lines(T))
  BY <1>3, <1>7, LinesMore
<1>9. z \in Seq(Lines(T)) /\ \A k \in DOMAIN z : z[k].to \in gone
  <2>1. "about" \in E!Wording
    BY DEF E!Wording
  <2>2. AboutEntry \in Lines(T) /\ AboutEntry.to = E!About
    BY <1>3, <2>1, EntryParts DEF AboutEntry
  <2>3. CASE z = <<>>
    BY <2>3
  <2>4. CASE z = <<AboutEntry>>
    BY <1>4, <2>2, <2>4
  <2> QED
    BY <2>3, <2>4
<1>10. nav \in Seq(Lines(T)) /\ E!Aim(nav) = Then(E!Aim(table), E!Aim(z))
  BY <1>8, <1>9, AimThen DEF table, tables
<1>11. /\ E!Aim(nav) \in Seq(T) /\ DOMAIN E!Aim(nav) = DOMAIN nav
       /\ \A k \in DOMAIN nav : E!Aim(nav)[k] = nav[k].to
  BY <1>10, AimTyped DEF Alike
<1>12. {k \in DOMAIN nav : nav[k].to[1] = i} = Staying(E!Aim(nav), E!Aim(nav), gone)
  <2>1. \A k \in DOMAIN nav : nav[k].to \in T
    BY <1>11
  <2> QED
    BY <1>4, <1>11, <2>1 DEF Staying
<1>13. Left(E!Aim(nav), E!Aim(nav), gone) = Left(E!Aim(table), E!Aim(table), gone)
  <2> DEFINE a == E!Aim(table)
             c == E!Aim(z)
  <2>1. a \in Seq(T) /\ c \in Seq(T) /\ \A k \in DOMAIN c : c[k] \in gone
    BY <1>8, <1>9, AimTyped DEF Alike
  <2> HIDE DEF a, c
  <2>2. Left(Then(a, c), Then(a, c), gone) = Then(Left(a, a, gone), Left(c, c, gone))
    BY <2>1, LeftJoin DEF Alike
  <2>3. Left(c, c, gone) = <<>>
    BY <2>1, LeftNone
  <2>4. Left(a, a, gone) \in Seq(T)
    BY <2>1, LeftTyped
  <2>5. Then(Left(a, a, gone), <<>>) = Left(a, a, gone)
    BY <2>4 DEF Then
  <2> QED
    BY <1>10, <2>2, <2>3, <2>5 DEF a, c
<1> HIDE DEF aims
<1>14. left \in [1..n -> Seq(items)] /\ left[i] = aims[i] /\ \A j \in 1..n : j # i => left[j] = <<>>
  <2>1. ASSUME NEW j \in 1..n PROVE Left(aims[j], aims[j], gone) \in Seq(items)
    BY <1>2, LeftTyped
  <2>2. Left(aims[i], aims[i], gone) = aims[i]
    <3>1. \A k \in DOMAIN aims[i] : aims[i][k] \notin gone
      BY <1>2, <1>3, <1>4
    <3> QED
      BY <1>2, <3>1, LeftAll
  <2>3. ASSUME NEW j \in 1..n, j # i PROVE Left(aims[j], aims[j], gone) = <<>>
    <3>1. \A k \in DOMAIN aims[j] : aims[j][k] \in gone
      BY <1>2, <1>3, <1>4, <2>3
    <3> QED
      BY <3>1, LeftNone
  <2> QED
    BY <2>1, <2>2, <2>3
<1>15. \A j \in 1..n : left[j] = Left(aims[j], aims[j], gone)
  OBVIOUS
<1> HIDE DEF left
<1>16. E!FlattenSeq(left) = aims[i] /\ Left(E!FlattenSeq(aims), E!FlattenSeq(aims), gone) = E!FlattenSeq(left)
  <2>1. E!FlattenSeq(left) = aims[i]
    BY <1>14, FlattenedOne
  <2>2. Left(E!FlattenSeq(aims), E!FlattenSeq(aims), gone) = E!FlattenSeq(left)
    <3>1. SequencesOf(aims, n, items) /\ SequencesOf(left, n, items) /\ LeftOfEach(left, aims, n, gone)
      BY <1>5, <1>14, <1>15 DEF SequencesOf, LeftOfEach
    <3> QED
      BY <3>1, FlattenedLeft
  <2> QED
    BY <2>1, <2>2
<1>17. aims[i] = E!Aim(E!Nested(i, m[i]))
  BY <1>2 DEF aims
<1> QED
  BY <1>6, <1>12, <1>13, <1>16, <1>17 DEF Left

\* At the top are the chapters, each once and in order.
LEMMA ChaptersOnTop ==
  ASSUME NEW n \in Nat \ {0}, NEW m, Gathered(m, n), NEW z \in {<<>>, <<AboutEntry>>},
         NEW nav, nav = Then(E!FlattenSeq(E!Tables(m)), z)
  PROVE  E!Only(nav, {k \in DOMAIN nav : nav[k].depth = 0 /\ nav[k].to[1] # 0})
           = [i \in 1..n |-> E!Entry(0, "chapter", E!Moved(i, Head(m[i].spine)))]
<1> DEFINE tables == E!Tables(m)
           table == E!FlattenSeq(tables)
           items == E!Items(m)
           T == items \cup {E!About}
           gone == {x \in Lines(T) : ~(x.depth = 0 /\ x.to[1] # 0)}
           top(i) == E!Entry(0, "chapter", E!Moved(i, Head(m[i].spine)))
           tops == [i \in 1..n |-> top(i)]
           left == [i \in 1..n |-> Left(tables[i], tables[i], gone)]
<1>1. tables \in [1..n -> Seq(Lines(items))]
  BY TablesTyped
<1>2. E!About \in T /\ E!About[1] = 0 /\ items \subseteq T /\ \A y \in items : y[1] # 0
  BY ItemsOf DEF E!About, E!Own, Gathered
<1>3. \A x \in Lines(T) : x \in gone <=> ~(x.depth = 0 /\ x.to[1] # 0)
  OBVIOUS
<1>4. Lines(items) \subseteq Lines(T)
  BY <1>2, LinesMore
<1> HIDE DEF items, T, gone
<1>5. ASSUME NEW i \in 1..n
      PROVE  Left(tables[i], tables[i], gone) = <<top(i)>> /\ top(i) \in Lines(T)
  <2> DEFINE t == E!Nested(i, m[i])
             P == E!Place(i, DOMAIN m[i].kind)
             first == E!Moved(i, Head(m[i].spine))
             e == top(i)
             one == <<e>>
             its == E!Aim(E!MovedTOC(i, E!Contents(m[i])))
  <2>1. tables[i] = t
    BY DEF E!Tables, Gathered
  <2>2. e.depth = 0 /\ e.to = first
    BY DEF E!Entry
  <2>3. P \subseteq items /\ \E rest : Headed(t, e, rest, P)
    <3>1. /\ P = E!Place(i, DOMAIN m[i].kind) /\ first = E!Moved(i, Head(m[i].spine))
          /\ e = E!Entry(0, "chapter", first) /\ t = E!Nested(i, m[i])
          /\ its = E!Aim(E!MovedTOC(i, E!Contents(m[i])))
      BY DEF top
    <3>2. i \in 1..n /\ n \in Nat \ {0} /\ Gathered(m, n)
      OBVIOUS
    <3> HIDE DEF P, first, e, t, its
    <3>3. /\ \E rest : Headed(t, e, rest, P)
          /\ t \in Seq(Lines(P)) /\ P \subseteq E!Items(m) /\ \A y \in P : y[1] = i
          /\ E!Aim(t) \in {its, <<first>> \o its}
      BY ONLY <3>1, <3>2, NestedTyped
    <3> QED
      BY <3>3 DEF items
  <2>4. PICK rest : Headed(t, e, rest, P)
    BY <2>3
  <2> HIDE DEF t, P, first, e, tables
  <2>5. t = <<e>> \o rest /\ e \in Lines(P) /\ rest \in Seq(Lines(P)) /\ \A k \in DOMAIN rest : rest[k].depth # 0
    BY <2>4 DEF Headed
  <2>6. Lines(P) \subseteq Lines(T) /\ Lines(P) \subseteq Lines(items)
    BY <1>4, <2>3, LinesMore
  <2>7. e \in Lines(T) /\ e.to[1] # 0 /\ rest \in Seq(Lines(T))
    <3>1. e \in Lines(items)
      BY <2>5, <2>6
    <3>2. e.to \in items
      BY <3>1, LineParts
    <3>3. rest \in Seq(Lines(T))
      BY <2>5, <2>6, SeqMore
    <3> QED
      BY <1>2, <1>4, <3>1, <3>2, <3>3
  <2>8. e \notin gone
    BY <1>3, <2>2, <2>7
  <2>9. \A k \in DOMAIN rest : rest[k] \in gone
    <3>1. \A k \in DOMAIN rest : rest[k] \in Lines(T)
      BY <2>7
    <3> QED
      BY <1>3, <2>5, <3>1
  <2>10. one \in Seq(Lines(T)) /\ \A k \in DOMAIN one : one[k] \notin gone
    BY <2>7, <2>8
  <2>11. t = Then(one, rest)
    BY <2>5 DEF Then
  <2> HIDE DEF one
  <2>12. Left(t, t, gone) = Then(Left(one, one, gone), Left(rest, rest, gone))
    BY <2>7, <2>10, <2>11, LeftJoin DEF Alike
  <2>13. Left(one, one, gone) = one /\ Left(rest, rest, gone) = <<>>
    BY <2>9, <2>10, LeftAll, LeftNone
  <2>14. Then(one, <<>>) = one
    BY <2>10 DEF Then
  <2> QED
    BY <2>1, <2>7, <2>12, <2>13, <2>14 DEF one, e
<1> HIDE DEF tables, top
<1>6. table \in Seq(Lines(T))
  <2>1. table \in Seq(Lines(items))
    BY <1>1, Flattened
  <2> HIDE DEF table
  <2> QED
    BY <1>4, <2>1, SeqMore
<1>7. z \in Seq(Lines(T)) /\ \A k \in DOMAIN z : z[k] \in gone
  <2>1. "about" \in E!Wording
    BY DEF E!Wording
  <2>2. AboutEntry \in Lines(T) /\ AboutEntry.to = E!About
    BY <1>2, <2>1, EntryParts DEF AboutEntry
  <2>3. CASE z = <<>>
    BY <2>3
  <2>4. CASE z = <<AboutEntry>>
    BY <1>2, <1>3, <2>2, <2>4
  <2> QED
    BY <2>3, <2>4
<1>8. Left(table, table, gone) = E!FlattenSeq(left)
  <2>1. /\ \A i \in 1..n : left[i] = Left(tables[i], tables[i], gone)
        /\ left \in [1..n -> Seq(Lines(T))] /\ tables \in [1..n -> Seq(Lines(T))]
    <3>1. \A i \in 1..n : left[i] \in Seq(Lines(T)) /\ left[i] = Left(tables[i], tables[i], gone)
      <4> SUFFICES ASSUME NEW i \in 1..n PROVE left[i] \in Seq(Lines(T)) /\ left[i] = Left(tables[i], tables[i], gone)
        OBVIOUS
      <4>1. left[i] = Left(tables[i], tables[i], gone)
        OBVIOUS
      <4>2. Left(tables[i], tables[i], gone) = <<top(i)>> /\ top(i) \in Lines(T)
        BY <1>5
      <4> HIDE DEF left
      <4>3. <<top(i)>> \in Seq(Lines(T))
        BY <4>2
      <4> QED
        BY <4>1, <4>2, <4>3
    <3>2. \A i \in 1..n : tables[i] \in Seq(Lines(T))
      BY <1>1, <1>4, SeqMore
    <3> QED
      BY <1>1, <3>1, <3>2
  <2>2. table = E!FlattenSeq(tables)
    OBVIOUS
  <2> HIDE DEF left, table
  <2>3. Left(E!FlattenSeq(tables), E!FlattenSeq(tables), gone) = E!FlattenSeq(left)
    <3> DEFINE lines == Lines(T)
    <3>1. SequencesOf(tables, n, lines) /\ SequencesOf(left, n, lines) /\ LeftOfEach(left, tables, n, gone)
      BY <2>1 DEF SequencesOf, LeftOfEach
    <3> HIDE DEF lines
    <3> QED
      BY <3>1, FlattenedLeft
  <2> QED
    BY <2>2, <2>3
<1>9. E!FlattenSeq(left) = tops
  <2>1. left = [i \in 1..n |-> <<tops[i]>>]
    BY <1>5
  <2>2. tops \in [1..n -> Lines(T)]
    BY <1>5
  <2> HIDE DEF tops, left
  <2> QED
    BY <2>1, <2>2, FlattenedSingles
<1> HIDE DEF table, left
<1>10. nav = Then(table, z) /\ nav \in Seq(Lines(T))
  BY <1>6, <1>7 DEF Then, table, tables
<1>11. Left(nav, nav, gone) = Left(table, table, gone)
  <2>1. Left(Then(table, z), Then(table, z), gone) = Then(Left(table, table, gone), Left(z, z, gone))
    BY <1>6, <1>7, LeftJoin DEF Alike
  <2>2. Left(z, z, gone) = <<>>
    BY <1>7, LeftNone
  <2>3. Left(table, table, gone) \in Seq(Lines(T))
    BY <1>6, LeftTyped
  <2>4. Then(Left(table, table, gone), <<>>) = Left(table, table, gone)
    BY <2>3 DEF Then
  <2> QED
    BY <1>10, <2>1, <2>2, <2>4
<1>12. {k \in DOMAIN nav : nav[k].depth = 0 /\ nav[k].to[1] # 0} = Staying(nav, nav, gone)
  <2>1. \A k \in DOMAIN nav : nav[k] \in Lines(T)
    BY <1>10
  <2> QED
    BY <1>3, <2>1 DEF Staying
<1> QED
  BY <1>8, <1>9, <1>11, <1>12 DEF Left, top

-----------------------------------------------------------------------------
(* Edition: volumes, and the editions of every history.                    *)

LEMMA MembersGathered ==
  ASSUME NEW n, NEW f, DOMAIN f = 1..n, \A i \in 1..n : E!Whole(f[i]) /\ PlainNames(f[i])
  PROVE  Gathered(E!Members(f), n)
<1> DEFINE m == E!Members(f)
<1>1. DOMAIN m = 1..n /\ \A i \in 1..n : m[i] = E!WithoutAbout(f[i])
  BY DEF E!Members
<1> HIDE DEF m
<1>2. ASSUME NEW i \in 1..n
      PROVE  E!Whole(m[i]) /\ PlainNames(m[i]) /\ m[i].about = {}
  <2> DEFINE p == f[i]
             r == m[i]
  <2>1. r = E!WithoutAbout(p) /\ E!Whole(p) /\ PlainNames(p)
    BY <1>1
  <2> HIDE DEF p, r
  <2>2. Shaped(p) /\ Leads(p, DOMAIN p.kind)
    BY <2>1, WholeLeads
  <2>3. Fits(r, p) /\ r.about = {} /\ DOMAIN r.kind = DOMAIN p.kind \ p.about
    BY <2>1, <2>2, WithoutAboutWhole
  <2>4. E!Whole(r)
    BY <2>2, <2>3, FitsWhole
  <2>5. PlainNames(r)
    BY <2>1, <2>3 DEF PlainNames
  <2> QED
    BY <2>3, <2>4, <2>5 DEF r
<1> QED
  BY <1>1, <1>2 DEF Gathered, m

\* A volume bound of whole copies has all that is in them.
LEMMA VolumeKept ==
  ASSUME Bundled \in Nat \ {0}, NEW f, DOMAIN f = 1..Bundled,
         \A i \in 1..Bundled : E!Whole(f[i]) /\ PlainNames(f[i]),
         NEW publication, NEW v, v = E!Assembled(f, publication), v # Failed
  PROVE  E!VolumeWhole(f, v) /\ E!OneAbout(v)
<1> DEFINE n == Bundled
           m == E!Members(f)
           b == E!Bound(m)
           no == FALSE
           yes == TRUE
           nav == E!Own("nav")
<1>1. Gathered(m, n)
  BY MembersGathered
<1>2. v = E!WithMetadata(b, publication, no, no, yes) /\ E!Valid(b)
  BY DEF E!Assembled
<1>3. ~no
  OBVIOUS
<1> HIDE DEF m, no, yes, n
<1>4. n \in Nat \ {0}
  BY DEF n
<1>5. b = E!Bound(m)
  OBVIOUS
<1> HIDE DEF b
<1>6. /\ E!Whole(b) /\ E!Navigation(b) = {nav} \cup E!OlderContents(m)
      /\ b.about = {} /\ E!CoverOf(b) = {} /\ Volumed(b, m)
  BY <1>1, <1>4, <1>5, BoundWhole
<1>7. /\ E!Whole(v) /\ Fits(v, b) /\ Ended(v, b) /\ E!CoverOf(v) \subseteq {E!Cover}
      /\ b.files \subseteq v.files /\ v.files \subseteq b.files \cup {E!Cover} \cup v.about
  BY <1>2, <1>3, <1>6, VolumeEnds
<1>8. DOMAIN v.toc = DOMAIN b.toc
  BY <1>7 DEF Ended
<1>9. v.about \subseteq v.files
  <2>1. E!Valid(v)
    BY <1>2 DEF E!WithMetadata, E!Written
  <2>2. v.about \subseteq DOMAIN v.kind
    BY <1>7, WholeLeads DEF Shaped
  <2> QED
    BY <2>1, <2>2 DEF E!Valid
<1>10. E!OneAbout(v)
  <2>1. b.files \subseteq DOMAIN b.kind
    BY <1>6 DEF Volumed
  <2> QED
    BY <1>6, <1>7, <1>8, <1>9, <2>1, VolumeAbout
<1>11. nav \in DOMAIN b.toc /\ b.toc[nav] = E!FlattenSeq(E!Tables(m))
  BY <1>6 DEF Volumed
<1>12. /\ \E z \in {<<>>, <<E!About>>} : v.spine = Then(b.spine, z)
       /\ \E z \in {<<>>, <<AboutEntry>>} : v.toc[nav] = Then(b.toc[nav], z)
  <2> HIDE DEF nav
  <2> QED
    BY <1>6, <1>7, <1>11, EndedBy
<1>13. E!Only(v.spine, {k \in DOMAIN v.spine : v.spine[k][1] # 0}) = E!FlattenSeq(E!Spines(m))
  <2> DEFINE s == v.spine
  <2>1. PICK z \in {<<>>, <<E!About>>} : s = Then(b.spine, z)
    BY <1>12
  <2>2. z \in {<<>>, <<E!About>>} /\ s = Then(b.spine, z) /\ Volumed(b, m)
    BY <1>6, <2>1
  <2> HIDE DEF s
  <2>3. ChaptersPages(s) = E!FlattenSeq(E!Spines(m))
    BY <1>1, <1>4, <2>2, PagesBound
  <2> QED
    BY <2>3 DEF s, ChaptersPages
<1>14. PICK z \in {<<>>, <<AboutEntry>>} : v.toc[nav] = Then(E!FlattenSeq(E!Tables(m)), z)
  BY <1>11, <1>12
<1> DEFINE t == v.toc[nav]
           first(i) == E!Moved(i, Head(m[i].spine))
           theirs(i) == E!Aim(E!MovedTOC(i, E!Contents(m[i])))
           under(i) == E!Only(E!Aim(t), {k \in DOMAIN t : t[k].to[1] = i})
<1>15. E!Only(t, {k \in DOMAIN t : t[k].depth = 0 /\ t[k].to[1] # 0})
         = [i \in 1..n |-> E!Entry(0, "chapter", first(i))]
  <2>1. t = Then(E!FlattenSeq(E!Tables(m)), z)
    BY <1>14
  <2> HIDE DEF t
  <2> QED
    BY <1>1, <1>4, <2>1, ChaptersOnTop
<1>16. ASSUME NEW i \in 1..n PROVE under(i) \in {theirs(i), <<first(i)>> \o theirs(i)}
  <2> DEFINE own == theirs(i)
             page == first(i)
             nested == E!Nested(i, m[i])
             P == E!Place(i, DOMAIN m[i].kind)
             e == E!Entry(0, "chapter", page)
  <2>1. t = Then(E!FlattenSeq(E!Tables(m)), z)
    BY <1>14
  <2> HIDE DEF t
  <2>2. under(i) = E!Aim(nested)
    BY <1>1, <1>4, <2>1, EntriesUnder
  <2>3. /\ P = E!Place(i, DOMAIN m[i].kind) /\ page = E!Moved(i, Head(m[i].spine))
        /\ e = E!Entry(0, "chapter", page) /\ nested = E!Nested(i, m[i])
        /\ own = E!Aim(E!MovedTOC(i, E!Contents(m[i])))
    OBVIOUS
  <2>4. i \in 1..n
    OBVIOUS
  <2> HIDE DEF P, page, e, nested, own
  <2>5. E!Aim(nested) \in {own, <<page>> \o own}
    BY ONLY <1>1, <1>4, <2>3, <2>4, NestedTyped
  <2> QED
    BY <2>2, <2>5 DEF own, page
<1>17. ASSUME NEW i \in 1..n, NEW x \in DOMAIN m[i].kind PROVE E!Moved(i, x) \in v.files
  <2>1. E!Moved(i, x) \in E!Items(m)
    BY <1>1, ItemsOf DEF Gathered, E!Moved
  <2> QED
    BY <1>6, <1>7, <2>1 DEF Volumed
<1>18. E!Resolves(v)
  BY <1>7, WholeResolves
<1>19. E!Number = 1..n
  BY DEF E!Number, n
<1> HIDE DEF first, theirs, under, t, nav
<1>20. E!VolumeWhole(f, v)
  BY <1>7, <1>13, <1>15, <1>16, <1>17, <1>18, <1>19 DEF E!VolumeWhole, m, t, nav, first, theirs, under
<1> QED
  BY <1>10, <1>20

\* A copy is what its original and its setting make it, and the volume what
\* the copies make it; nothing they are made of changes afterwards.
EditionInv ==
    /\ original = [i \in E!Number |-> original[i]]
    /\ setting = [i \in E!Number |-> setting[i]]
    /\ copy = [i \in E!Number |-> copy[i]]
    /\ \A i \in E!Number :
          /\ original[i] # None => original[i] \in E!Attachments(i)
          /\ copy[i] # None => original[i] # None /\ copy[i] = E!Rendered(original[i], setting[i])
    /\ volume # None =>
          /\ \A i \in E!Number : copy[i] # None
          /\ \E publication \in Publications : volume = E!Assembled(copy, publication)

LEMMA EditionStarts == E!Init => EditionInv
BY DEF E!Init, EditionInv

LEMMA RetainKeeps ==
  ASSUME EditionInv, NEW i \in E!Number, NEW o \in E!Attachments(i), E!Retain(i, o)
  PROVE  EditionInv'
<1>1. copy[i] = None /\ volume = None
  BY DEF EditionInv, E!Retain
<1>2. /\ copy' = copy /\ setting' = setting /\ volume' = volume
      /\ original' = [j \in E!Number |-> IF j = i THEN o ELSE original[j]]
  BY DEF EditionInv, E!Retain
<1>3. \A j \in E!Number : original'[j] = IF j = i THEN o ELSE original[j]
  BY <1>2
<1>4. original' = [j \in E!Number |-> original'[j]]
  BY <1>2
<1> QED
  BY <1>1, <1>2, <1>3, <1>4 DEF EditionInv

LEMMA RenderKeeps ==
  ASSUME EditionInv, NEW i \in E!Number, NEW d, E!Render(i, d)
  PROVE  EditionInv'
<1> DEFINE c == E!Rendered(original[i], d)
<1>1. original[i] # None /\ copy[i] = None /\ volume = None
  BY DEF EditionInv, E!Render
<1>2. /\ original' = original /\ volume' = volume
      /\ copy' = [j \in E!Number |-> IF j = i THEN c ELSE copy[j]]
      /\ setting' = [j \in E!Number |-> IF j = i THEN d ELSE setting[j]]
  BY DEF EditionInv, E!Render
<1>3. \A j \in E!Number : /\ copy'[j] = IF j = i THEN c ELSE copy[j]
                          /\ setting'[j] = IF j = i THEN d ELSE setting[j]
  BY <1>2
<1>4. copy' = [j \in E!Number |-> copy'[j]] /\ setting' = [j \in E!Number |-> setting'[j]]
  BY <1>2
<1>5. \A j \in E!Number : copy'[j] # None =>
        original[j] # None /\ copy'[j] = E!Rendered(original[j], setting'[j])
  <2> SUFFICES ASSUME NEW j \in E!Number, copy'[j] # None
               PROVE  original[j] # None /\ copy'[j] = E!Rendered(original[j], setting'[j])
    OBVIOUS
  <2>1. CASE j = i
    BY <1>1, <1>3, <2>1
  <2>2. CASE j # i
    BY <1>3, <2>2 DEF EditionInv
  <2> QED
    BY <2>1, <2>2
<1> HIDE DEF c
<1> QED
  BY <1>1, <1>2, <1>4, <1>5 DEF EditionInv

LEMMA VolumeKeeps ==
  ASSUME EditionInv, NEW publication \in Publications, E!BuildVolume(publication)
  PROVE  EditionInv'
<1>1. /\ original' = original /\ setting' = setting /\ copy' = copy
      /\ volume' = E!Assembled(copy, publication) /\ \A i \in E!Number : copy[i] # None
  BY DEF E!BuildVolume
<1> QED
  BY <1>1 DEF EditionInv

LEMMA EditionSays ==
  ASSUME OriginalsAssumption, EditionInv
  PROVE  EditionsWhole
<1>1. \A i \in E!Number : E!IsEPUB(original[i]) => original[i] \in E!Attachments(i) /\ Usual(original[i])
  BY AttachmentsUsual DEF EditionInv, E!IsEPUB
<1>2. ASSUME NEW i \in E!Number, E!IsEPUB(original[i]), copy[i] \notin {None, Failed}
      PROVE  E!CopyWhole(original[i], setting[i], copy[i])
  <2> DEFINE o == original[i]
             d == setting[i]
             c == copy[i]
  <2>1. E!IsEPUB(o) /\ Usual(o) /\ c = E!Rendered(o, d) /\ c # Failed
    BY <1>1, <1>2 DEF EditionInv
  <2> HIDE DEF o, d, c
  <2>2. E!CopyWhole(o, d, c)
    BY <2>1, CopyKept
  <2> QED
    BY <2>2 DEF o, d, c
<1>3. ASSUME volume \notin {None, Failed}
      PROVE  E!VolumeWhole(copy, volume) /\ E!OneAbout(volume)
  <2>1. PICK publication : volume = E!Assembled(copy, publication)
    BY <1>3 DEF EditionInv
  <2>2. E!Number = 1..Bundled /\ Bundled \in Nat \ {0}
    BY DEF E!Number, OriginalsAssumption
  <2>3. DOMAIN copy = 1..Bundled
    BY <2>2 DEF EditionInv
  <2>4. ASSUME NEW i \in 1..Bundled PROVE E!Whole(copy[i]) /\ PlainNames(copy[i])
    <3> DEFINE o == original[i]
               d == setting[i]
               c == copy[i]
    <3>1. E!IsEPUB(c)
      BY <1>3, <2>1, <2>3 DEF E!Assembled, E!Usable
    <3>2. c = E!Rendered(o, d) /\ (E!IsEPUB(o) => Usual(o))
      BY <1>1, <1>3, <2>2 DEF EditionInv
    <3> HIDE DEF o, d, c
    <3>3. E!Whole(c) /\ PlainNames(c)
      BY <3>1, <3>2, RenderedWhole
    <3> QED
      BY <3>3 DEF c
  <2> DEFINE f == copy
             v == volume
  <2>5. DOMAIN f = 1..Bundled /\ v = E!Assembled(f, publication) /\ v # Failed
    BY <1>3, <2>1, <2>3
  <2> HIDE DEF f, v
  <2>6. E!VolumeWhole(f, v) /\ E!OneAbout(v)
    BY <2>2, <2>4, <2>5, VolumeKept DEF f
  <2> QED
    BY <2>6 DEF f, v
<1> QED
  BY <1>2, <1>3 DEF EditionsWhole, E!EditionsWhole

(* Nothing of an author's EPUB is lost on its way into a copy or a volume, *)
(* whatever it is published as, however copies are configured and however  *)
(* many chapters there are: its pages keep their order, its contents their *)
(* entries, and a volume ends with at most one page of the program's own.  *)
THEOREM EditionsAreWhole == E!Spec => []EditionsWhole
<1>1. EditionInv /\ [E!Next]_(E!vars) => EditionInv'
  <2> SUFFICES ASSUME EditionInv, [E!Next]_(E!vars) PROVE EditionInv'
    OBVIOUS
  <2>1. CASE E!Next
    <3>1. CASE \E i \in E!Number : \E o \in E!Attachments(i) : E!Retain(i, o)
      BY <3>1, RetainKeeps
    <3>2. CASE \E i \in E!Number : \E d \in Settings[i] : E!Render(i, d)
      BY <3>2, RenderKeeps
    <3>3. CASE \E publication \in Publications : E!BuildVolume(publication)
      BY <3>3, VolumeKeeps
    <3> QED
      BY <2>1, <3>1, <3>2, <3>3 DEF E!Next
  <2>2. CASE UNCHANGED E!vars
    BY <2>2 DEF E!vars, EditionInv
  <2> QED
    BY <2>1, <2>2
<1>2. EditionInv => EditionsWhole
  BY OriginalsAssumption, EditionSays
<1> QED
  BY EditionStarts, <1>1, <1>2, PTL DEF E!Spec

-----------------------------------------------------------------------------
(* Workspace, for every set of refreshes and creators and every number of  *)
(* power losses.                                                           *)

Steps == {"off", "mark", "capture", "look", "link", "sync", "rename", "settle", "done", "failed"}
Bytes == {"none", "written", "synced", "torn"}
Refreshing == [pc : Steps, left : SUBSET Creator, busy : SUBSET Creator, broken : BOOLEAN, installed : BOOLEAN]
Synced(p) == \A f \in W!File : gen[p][f] = "synced"

(* A generation is synced as a whole before the manifest names it, and who *)
(* was named knows it: that is what keeps a failing refresh from removing  *)
(* what readers may hold, and a power loss from tearing it.                *)
WorkspaceInv ==
    /\ gen \in [Refresh -> [W!File -> Bytes]]
    /\ refreshing \in [Refresh -> Refreshing]
    /\ named \subseteq Refresh
    /\ \A p \in Refresh : refreshing[p].pc = "rename" => Synced(p)
    /\ \A p \in named : /\ refreshing[p].pc \in {"settle", "done", "failed"}
                        /\ refreshing[p].installed
                        /\ Synced(p)

RefreshStep(p) ==
    \/ W!Create(p) \/ W!Mark(p) \/ W!Begin(p) \/ W!WriteSources(p) \/ W!Look(p) \/ W!Link(p)
    \/ W!SyncCapture(p) \/ W!Rename(p) \/ W!SyncRoot(p) \/ W!Fails(p) \/ W!Dies(p)
    \/ \E c \in Creator : W!Fetch(p, c) \/ W!Capture(p, c) \/ W!WorkerFails(p, c)

LEMMA RefreshUpdates ==
  ASSUME NEW w \in Refreshing
  PROVE  /\ \A l \in Steps : [w EXCEPT !.pc = l] \in Refreshing
         /\ \A l \in Steps, b \in BOOLEAN : [w EXCEPT !.pc = l, !.installed = b] \in Refreshing
         /\ \A l \in Steps, s \in SUBSET Creator : [w EXCEPT !.pc = l, !.busy = s] \in Refreshing
         /\ \A s, u \in SUBSET Creator : [w EXCEPT !.left = s, !.busy = u] \in Refreshing
         /\ \A s \in SUBSET Creator : [w EXCEPT !.busy = s] \in Refreshing
         /\ \A s \in SUBSET Creator, b \in BOOLEAN : [w EXCEPT !.busy = s, !.broken = b] \in Refreshing
BY DEF Refreshing

(* A step of a refresh moves only this refresh, and only forward.          *)
LEMMA RefreshMoves ==
  ASSUME WorkspaceInv, NEW p \in Refresh, RefreshStep(p)
  PROVE  /\ refreshing' \in [Refresh -> Refreshing]
         /\ \A q \in Refresh \ {p} : refreshing'[q] = refreshing[q]
         /\ refreshing[p].pc \in {"settle", "done", "failed"} =>
              refreshing'[p].pc \in {"settle", "done", "failed"}
         /\ refreshing[p].installed => refreshing'[p].installed
         /\ refreshing'[p].pc = "rename" => W!SyncCapture(p)
         /\ W!Rename(p) => refreshing[p].pc = "rename" /\ refreshing'[p].pc = "settle" /\ refreshing'[p].installed
<1> USE DEF W!At, W!Running
<1>0. refreshing \in [Refresh -> Refreshing] /\ refreshing[p] \in Refreshing
  BY DEF WorkspaceInv
<1> DEFINE Moves(w) ==
        /\ w \in Refreshing /\ refreshing' = [refreshing EXCEPT ![p] = w]
        /\ refreshing[p].pc \in {"settle", "done", "failed"} => w.pc \in {"settle", "done", "failed"}
        /\ refreshing[p].installed => w.installed
        /\ w.pc = "rename" => W!SyncCapture(p)
        /\ W!Rename(p) => refreshing[p].pc = "rename" /\ w.pc = "settle" /\ w.installed
<1>1. ASSUME NEW l \in Steps, W!Goto(p, l), l = "rename" => W!SyncCapture(p), ~W!Rename(p),
             refreshing[p].pc \in {"settle", "done", "failed"} => l \in {"settle", "done", "failed"}
      PROVE  \E w : Moves(w)
  <2> DEFINE v == [refreshing[p] EXCEPT !.pc = l]
  <2>1. v \in Refreshing /\ v.pc = l /\ v.installed = refreshing[p].installed
    BY <1>0, RefreshUpdates DEF Refreshing
  <2>2. refreshing' = [refreshing EXCEPT ![p] = v]
    BY <1>1 DEF W!Goto
  <2> QED
    BY <1>1, <2>1, <2>2
<1>2. \A l \in {"mark", "capture", "look", "link", "sync", "rename", "settle", "done", "failed"} : l \in Steps
  BY DEF Steps
<1>3. ASSUME W!Rename(p) \/ W!SyncRoot(p) \/ W!Dies(p) PROVE \E w : Moves(w)
  <2>1. CASE W!Rename(p)
    <3> DEFINE v == [refreshing[p] EXCEPT !.pc = "settle", !.installed = TRUE]
    <3>1. v \in Refreshing /\ v.pc = "settle" /\ v.installed = TRUE
      BY <1>0, <1>2, RefreshUpdates DEF Refreshing
    <3>2. refreshing' = [refreshing EXCEPT ![p] = v]
      BY <2>1, <1>0 DEF W!Rename
    <3> QED
      BY <2>1, <3>1, <3>2 DEF W!Rename
  <2>2. CASE W!SyncRoot(p) /\ ~W!Rename(p)
    <3> DEFINE v == [refreshing[p] EXCEPT !.pc = "done", !.installed = TRUE]
    <3>1. v \in Refreshing /\ v.pc = "done" /\ v.installed = TRUE
      BY <1>0, <1>2, RefreshUpdates DEF Refreshing
    <3>2. refreshing' = [refreshing EXCEPT ![p] = v]
      BY <2>2, <1>0 DEF W!SyncRoot
    <3> QED
      BY <2>2, <3>1, <3>2
  <2>3. CASE W!Dies(p) /\ ~W!Rename(p)
    <3> DEFINE v == [refreshing[p] EXCEPT !.pc = "failed", !.busy = {}]
    <3>1. v \in Refreshing /\ v.pc = "failed" /\ v.installed = refreshing[p].installed
      BY <1>0, <1>2, RefreshUpdates DEF Refreshing
    <3>2. refreshing' = [refreshing EXCEPT ![p] = v]
      BY <2>3, <1>0 DEF W!Dies
    <3> QED
      BY <2>3, <3>1, <3>2
  <2> QED
    BY <1>3, <2>1, <2>2, <2>3
<1>4. ASSUME NEW c \in Creator, W!Fetch(p, c) \/ W!Capture(p, c) \/ W!WorkerFails(p, c), ~W!Rename(p)
      PROVE  \E w : Moves(w)
  <2>0. refreshing[p].busy \in SUBSET Creator /\ refreshing[p].left \in SUBSET Creator /\ refreshing[p].pc = "capture"
    BY <1>0, <1>4 DEF Refreshing, W!Fetch, W!Capture, W!WorkerFails
  <2>1. CASE W!Fetch(p, c)
    <3> DEFINE v == [refreshing[p] EXCEPT !.left = refreshing[p].left \ {c}, !.busy = refreshing[p].busy \cup {c}]
    <3>1. v \in Refreshing /\ v.pc = "capture" /\ v.installed = refreshing[p].installed
      BY <1>0, <2>0, RefreshUpdates DEF Refreshing
    <3>2. refreshing' = [refreshing EXCEPT ![p] = v]
      BY <2>1, <1>0 DEF W!Fetch
    <3> QED
      BY <1>4, <2>0, <3>1, <3>2
  <2>2. CASE W!Capture(p, c)
    <3> DEFINE v == [refreshing[p] EXCEPT !.busy = refreshing[p].busy \ {c}]
    <3>1. v \in Refreshing /\ v.pc = "capture" /\ v.installed = refreshing[p].installed
      BY <1>0, <2>0, RefreshUpdates DEF Refreshing
    <3>2. refreshing' = [refreshing EXCEPT ![p] = v]
      BY <2>2, <1>0 DEF W!Capture
    <3> QED
      BY <1>4, <2>0, <3>1, <3>2
  <2>3. CASE W!WorkerFails(p, c)
    <3> DEFINE v == [refreshing[p] EXCEPT !.busy = refreshing[p].busy \ {c}, !.broken = TRUE]
    <3>1. v \in Refreshing /\ v.pc = "capture" /\ v.installed = refreshing[p].installed
      BY <1>0, <2>0, RefreshUpdates DEF Refreshing
    <3>2. refreshing' = [refreshing EXCEPT ![p] = v]
      BY <2>3, <1>0 DEF W!WorkerFails
    <3> QED
      BY <1>4, <2>0, <3>1, <3>2
  <2> QED
    BY <1>4, <2>1, <2>2, <2>3
<1>5. ASSUME ~W!Rename(p), \/ W!Create(p) \/ W!Mark(p) \/ W!Begin(p) \/ W!WriteSources(p) \/ W!Look(p) \/ W!Link(p)
                           \/ W!SyncCapture(p) \/ W!Fails(p)
      PROVE  \E w : Moves(w)
  <2> HIDE DEF Moves
  <2> QED
    BY <1>1, <1>2, <1>5
       DEF W!Create, W!Mark, W!Begin, W!WriteSources, W!Look, W!Link, W!SyncCapture, W!Fails
<1>6. \E w : Moves(w)
  <2> HIDE DEF Moves
  <2> QED
    BY <1>3, <1>4, <1>5 DEF RefreshStep
<1> QED
  BY <1>0, <1>6

LEMMA NamedStay ==
  ASSUME WorkspaceInv, NEW p \in Refresh, RefreshStep(p)
  PROVE  WorkspaceInv'
<1> USE DEF W!At, W!Goto, W!Running
<1>0. /\ refreshing' \in [Refresh -> Refreshing]
      /\ \A q \in Refresh \ {p} : refreshing'[q] = refreshing[q]
      /\ gen \in [Refresh -> [W!File -> Bytes]]
  BY RefreshMoves DEF WorkspaceInv
<1>1. CASE W!Rename(p)
  <2>1. named' = named \cup {p} /\ gen' = gen
    BY <1>1 DEF W!Rename
  <2>2. refreshing[p].pc = "rename" /\ refreshing'[p].pc = "settle" /\ refreshing'[p].installed
    BY <1>1, RefreshMoves
  <2> QED
    BY <1>0, <2>1, <2>2 DEF WorkspaceInv, Synced
<1>2. CASE W!SyncCapture(p)
  <2>1. named' = named /\ gen' = [gen EXCEPT ![p] = [f \in W!File |-> "synced"]] /\ refreshing[p].pc = "sync"
    BY <1>2 DEF W!SyncCapture
  <2>2. gen' \in [Refresh -> [W!File -> Bytes]]
    BY <1>0, <2>1 DEF Bytes
  <2>3. Synced(p)' /\ \A q \in Refresh \ {p} : Synced(q)' = Synced(q)
    BY <1>0, <2>1 DEF Synced
  <2>4. p \notin named
    BY <2>1 DEF WorkspaceInv
  <2> QED
    BY <1>0, <2>1, <2>2, <2>3, <2>4 DEF WorkspaceInv
<1>3. CASE ~W!Rename(p) /\ ~W!SyncCapture(p)
  <2>1. named' = named
    BY <1>3 DEF RefreshStep, W!Create, W!Mark, W!Begin, W!WriteSources, W!Look, W!Link, W!SyncRoot, W!Fails, W!Dies,
                W!Fetch, W!Capture, W!WorkerFails, W!disk
  <2>2. gen' \in [Refresh -> [W!File -> Bytes]] /\ \A q \in Refresh \ {p} : gen'[q] = gen[q]
    <3>1. CASE W!WriteSources(p)
      BY <1>0, <3>1 DEF W!WriteSources, Bytes
    <3>2. ASSUME NEW c \in Creator, W!Capture(p, c)
          PROVE  gen' \in [Refresh -> [W!File -> Bytes]] /\ \A q \in Refresh \ {p} : gen'[q] = gen[q]
      BY <1>0, <3>2 DEF W!Capture, Bytes
    <3>3. CASE W!Fails(p)
      BY <1>0, <3>3 DEF W!Fails, W!Empty, Bytes
    <3>4. CASE gen' = gen
      BY <1>0, <3>4
    <3> QED
      BY <1>3, <3>1, <3>2, <3>3, <3>4
         DEF RefreshStep, W!Create, W!Mark, W!Begin, W!Look, W!Link, W!SyncRoot, W!Dies, W!Fetch, W!WorkerFails, W!disk
  <2>3. p \in named => gen' = gen
    <3> SUFFICES ASSUME p \in named PROVE gen' = gen
      OBVIOUS
    <3>1. refreshing[p].pc \in {"settle", "done", "failed"} /\ refreshing[p].installed
      BY DEF WorkspaceInv
    <3> QED
      BY <1>3, <3>1 DEF RefreshStep, W!Create, W!Mark, W!Begin, W!WriteSources, W!Look, W!Link, W!SyncRoot, W!Fails,
                        W!Dies, W!Fetch, W!Capture, W!WorkerFails, W!disk
  <2>4. p \in named => refreshing'[p].pc \in {"settle", "done", "failed"} /\ refreshing'[p].installed
    BY RefreshMoves DEF WorkspaceInv
  <2>5. refreshing'[p].pc # "rename"
    BY <1>3, RefreshMoves
  <2>6. \A q \in Refresh \ {p} : Synced(q)' = Synced(q)
    BY <2>2 DEF Synced
  <2>7. p \in named => Synced(p)' = Synced(p)
    BY <2>3 DEF Synced
  <2> QED
    BY <1>0, <2>1, <2>2, <2>4, <2>5, <2>6, <2>7 DEF WorkspaceInv
<1> QED
  BY <1>1, <1>2, <1>3

LEMMA WorkspaceStays == WorkspaceInv /\ [W!Next]_(W!vars) => WorkspaceInv'
<1> SUFFICES ASSUME WorkspaceInv, [W!Next]_(W!vars) PROVE WorkspaceInv'
  OBVIOUS
<1>1. CASE W!PowerLoss
  <2>0. gen \in [Refresh -> [W!File -> Bytes]] /\ refreshing \in [Refresh -> Refreshing]
    BY DEF WorkspaceInv
  <2>1. named' = named
    BY <1>1 DEF W!PowerLoss
  <2>2. gen' \in [Refresh -> [W!File -> Bytes]] /\ \A q \in Refresh : Synced(q) => Synced(q)'
    BY <1>1, <2>0 DEF W!PowerLoss, Bytes, Synced
  <2>3. ASSUME NEW q \in Refresh
        PROVE  /\ refreshing'[q] \in Refreshing /\ refreshing'[q].installed = refreshing[q].installed
               /\ refreshing'[q].pc = IF W!Running(q) THEN "failed" ELSE refreshing[q].pc
    <3>1. refreshing[q] \in Refreshing /\ "failed" \in Steps
      BY <2>0 DEF Steps
    <3>2. refreshing'[q] = IF W!Running(q) THEN [refreshing[q] EXCEPT !.pc = "failed", !.busy = {}] ELSE refreshing[q]
      BY <1>1 DEF W!PowerLoss
    <3>3. [refreshing[q] EXCEPT !.pc = "failed", !.busy = {}] \in Refreshing
      BY <3>1, RefreshUpdates
    <3> QED
      BY <3>1, <3>2, <3>3 DEF Refreshing
  <2>4. refreshing' \in [Refresh -> Refreshing]
    BY <1>1, <2>3 DEF W!PowerLoss
  <2>5. ASSUME NEW q \in Refresh
        PROVE  /\ refreshing'[q].pc # "rename"
               /\ refreshing[q].pc \in {"settle", "done", "failed"} =>
                    refreshing'[q].pc \in {"settle", "done", "failed"}
    BY <2>3 DEF W!Running
  <2> QED
    BY <2>1, <2>2, <2>3, <2>4, <2>5 DEF WorkspaceInv
<1>2. CASE W!Author \/ UNCHANGED W!vars
  BY <1>2 DEF W!Author, W!vars, WorkspaceInv, Synced
<1> QED
  BY <1>1, <1>2, NamedStay DEF W!Next, RefreshStep

(* Whatever fails, dies or loses power: a generation that the manifest has *)
(* ever named keeps all its files.                                         *)
THEOREM NamedGenerationsStayWhole == W!Spec => []CaptureWhole
<1>1. W!Init => WorkspaceInv
  BY DEF W!Init, W!Empty, WorkspaceInv, Refreshing, Steps, Bytes
<1>2. WorkspaceInv => CaptureWhole
  BY DEF WorkspaceInv, Synced, CaptureWhole, W!CaptureWhole
<1> QED
  BY <1>1, <1>2, WorkspaceStays, PTL DEF W!Spec

(* No step of a refresh replaces the operator's series file.               *)
THEOREM OperatorKeepsSeriesFile == W!Spec => AuthoredKept
<1>1. [W!Next]_(W!vars) => [authored = "operator" => authored' \in {"operator", "none"}]_(W!vars)
  <2> SUFFICES ASSUME W!Next, authored = "operator" PROVE authored' \in {"operator", "none"}
    OBVIOUS
  <2> QED
    BY DEF W!Next, W!Create, W!Mark, W!Begin, W!WriteSources, W!Look, W!Link, W!SyncCapture, W!Rename, W!SyncRoot,
           W!Fails, W!Dies, W!Fetch, W!Capture, W!WorkerFails, W!PowerLoss, W!Author, W!disk
<1> QED
  BY <1>1, PTL DEF W!Spec, AuthoredKept, W!AuthoredKept

-----------------------------------------------------------------------------
(* Handoff, for every library in which no two chapters share a file name.  *)

HandSteps == {"off", "plan", "deliver", "copy", "record", "retire", "superseded"}
Carrying == {"deliver", "copy", "record", "retire", "superseded"}
PlanSet == [id : Nat, scope : Nat, editions : [Chapter -> Edition]]
Deliverer ==
    [pc : HandSteps, attempt : 0..2, failed : BOOLEAN, selected : [Chapter -> Edition],
     plan : PlanSet, todo : SUBSET Chapter, retire : SUBSET H!Artifact,
     at : SUBSET (Chapter \cup H!Artifact), fresh : BOOLEAN]
Statuses == {"none", "publishing", "published", "failed", "superseded"}

HandTyped ==
    /\ kind \in Kind
    /\ edition \in [Chapter -> Edition]
    /\ record \in [H!Artifact -> Statuses]
    /\ plans \in Nat
    /\ saved \in PlanSet /\ saved.id <= plans
    /\ run \in Deliverer
    /\ folder \in [H!Name -> SUBSET H!Artifact]
    /\ landed \subseteq H!Artifact
    /\ copies \in [Chapter -> Nat]
    /\ cut \in [Chapter -> Nat]
    /\ library \in [H!Name -> SUBSET H!Artifact]

Taken(r) == \E v \in Edition : record[<<r, v>>] = "published"
Current(a) == a[2] = saved.editions[a[1]]

(* A delivery under way carries out the saved plan: what it has left to    *)
(* deliver is not covered, and unless something failed the rest is.        *)
UnderWay ==
    /\ run.pc \in Carrying => saved.id # 0 /\ run.plan = saved
    /\ run.pc \in {"deliver", "copy", "record"} =>
         \A r \in run.todo : ~H!Covered(r, saved.editions)
    /\ run.pc \in Carrying /\ ~run.failed =>
         \A r \in Chapter \ run.todo : H!Covered(r, saved.editions)
    /\ run.pc \in {"retire", "superseded"} => \A r \in Chapter : H!Covered(r, saved.editions)
    /\ run.pc \in Carrying => run.retire \subseteq H!Retirements(saved.editions)
    /\ run.pc \in Carrying /\ ~run.failed => H!Retirements(saved.editions) \subseteq run.retire
    /\ run.pc \in {"copy", "record"} => \E r \in run.todo : run.at = {r}
    /\ run.pc = "copy" => kind = "drop"
    /\ run.pc = "superseded" => kind = "exec" /\ \E a \in run.retire : run.at = {a}
    /\ run.fresh => run.pc = "record" /\ kind = "drop"

(* A copy that is not recorded yet is accounted for: by the copy under way *)
(* or by one that was cut short, and it is of the edition of the saved     *)
(* plan.                                                                   *)
Dropped ==
    kind = "drop" =>
        \A r \in Chapter :
            /\ copies[r] <= cut[r] + IF Taken(r) \/ (run.fresh /\ run.at = {r}) THEN 1 ELSE 0
            /\ \A v \in Edition : <<r, v>> \in landed =>
                  Taken(r) \/ (saved.id # 0 /\ saved.editions[r] = v)
            /\ \A v, w \in Edition : <<r, v>> \in landed /\ <<r, w>> \in landed => v = w

(* The command has applied what it has seen, once, and the ids of what it  *)
(* has seen are of plans that were made.                                   *)
Hooked ==
    /\ applied = seen /\ ~repeated
    /\ saved.scope = saved.id
    /\ seen \subseteq (1..plans) \X {"publish", "supersede"} \X H!Artifact
    /\ \A n \in H!Name : \A a \in library[n] : NameOf[a] = n

(* While a plan is pending the command's library may be ahead of the       *)
(* records by what the plan says, and what it has seen of the plan still   *)
(* holds; with none pending the two agree.                                 *)
In(a) == a \in library[NameOf[a]]
Followed ==
    kind = "exec" =>
        /\ landed = {} /\ copies = [r \in Chapter |-> 0]
        /\ saved.id # 0 => \A a \in H!Artifact :
             /\ In(a) => Current(a) \/ record[a] = "published"
             /\ record[a] = "published" /\ Current(a) => In(a)
             /\ <<saved.id, "publish", a>> \in seen => In(a) /\ Current(a)
             /\ <<saved.id, "supersede", a>> \in seen => ~In(a) /\ ~Current(a)
        /\ run.pc = "record" => \A r \in Chapter : run.at = {r} => In(<<r, saved.editions[r]>>)
        /\ run.pc = "superseded" => \A a \in H!Artifact : run.at = {a} => ~In(a)
        /\ saved.id = 0 => \A a \in H!Artifact : In(a) <=> record[a] = "published"

HandInv == HandTyped /\ UnderWay /\ Dropped /\ Hooked /\ Followed


LEMMA DelivererUpdates ==
  ASSUME NEW w \in Deliverer
  PROVE  /\ \A l \in HandSteps, s \in SUBSET (Chapter \cup H!Artifact) :
              [w EXCEPT !.pc = l, !.at = s] \in Deliverer
         /\ \A l \in HandSteps, b \in BOOLEAN : [w EXCEPT !.pc = l, !.fresh = b] \in Deliverer
         /\ \A l \in HandSteps, t \in SUBSET Chapter, s \in SUBSET (Chapter \cup H!Artifact), b \in BOOLEAN :
              /\ [w EXCEPT !.pc = l, !.todo = t, !.at = s, !.failed = b] \in Deliverer
              /\ [w EXCEPT !.pc = l, !.todo = t, !.at = s, !.fresh = b] \in Deliverer
         /\ \A t \in SUBSET Chapter : [w EXCEPT !.todo = t, !.failed = TRUE] \in Deliverer
         /\ \A l \in HandSteps : [w EXCEPT !.pc = l] \in Deliverer
         /\ \A l \in HandSteps, t \in SUBSET H!Artifact, s \in SUBSET (Chapter \cup H!Artifact) :
              [w EXCEPT !.pc = l, !.retire = t, !.at = s] \in Deliverer
         /\ \A t \in SUBSET H!Artifact : [w EXCEPT !.retire = t, !.failed = TRUE] \in Deliverer
         /\ \A l \in HandSteps, p \in PlanSet, t \in SUBSET Chapter, u \in SUBSET H!Artifact :
              [w EXCEPT !.pc = l, !.plan = p, !.todo = t, !.retire = u] \in Deliverer
         /\ \A l \in HandSteps, k \in 0..2, e \in [Chapter -> Edition] :
              [w EXCEPT !.pc = l, !.attempt = k, !.selected = e] \in Deliverer
BY DEF Deliverer

LEMMA HandConstants ==
  /\ First \in Edition
  /\ H!NoPlan \in PlanSet /\ H!NoPlan.id = 0 /\ H!NoPlan.scope = 0
  /\ H!Off \in Deliverer /\ H!Off.pc = "off" /\ H!Off.fresh = FALSE
  /\ \A a \in H!Artifact : /\ a[1] \in Chapter /\ a[2] \in Edition /\ a = <<a[1], a[2]>>
                           /\ NameOf[a] \in H!Name
  /\ \A r \in Chapter, v \in Edition : <<r, v>> \in H!Artifact
BY NamesAssumption DEF H!NoPlan, H!Off, PlanSet, Deliverer, HandSteps, H!Artifact, H!Name

LEMMA SavedPlanIsPlan ==
  ASSUME HandInv, run.pc \in Carrying
  PROVE  \A r \in Chapter : H!Planned(r) = <<r, saved.editions[r]>> /\ H!Planned(r) \in H!Artifact
BY HandConstants DEF HandInv, HandTyped, UnderWay, PlanSet, H!Planned

LEMMA HandTypedStays ==
  ASSUME HandInv, H!Next PROVE HandTyped'
<1> USE DEF H!At, H!Fault, H!catalog, H!watched, H!hook
<1>0. /\ run \in Deliverer /\ saved \in PlanSet /\ edition \in [Chapter -> Edition]
      /\ \A l \in Carrying \cup {"off", "plan"} : l \in HandSteps
      /\ 1 \in 0..2 /\ 2 \in 0..2 /\ run.selected \in [Chapter -> Edition]
      /\ run.todo \in SUBSET Chapter /\ run.retire \in SUBSET H!Artifact
  BY DEF HandInv, HandTyped, Deliverer, HandSteps, Carrying
<1>1. ASSUME NEW p \in PlanSet, H!PlanFor(p) PROVE run' \in Deliverer
  <2>1. H!Deliveries(p.editions) \in SUBSET Chapter /\ H!Retirements(p.editions) \in SUBSET H!Artifact
    BY DEF H!Deliveries, H!Retirements, H!Published
  <2> QED
    BY <1>0, <1>1, <2>1, DelivererUpdates DEF H!PlanFor, Carrying
<1>2. ASSUME NEW action \in {"publish", "supersede"}, NEW a \in H!Artifact,
             H!Apply(action, a) \/ UNCHANGED H!hook
      PROVE  library' \in [H!Name -> SUBSET H!Artifact]
  BY <1>2 DEF H!Apply, HandInv, HandTyped
<1>3. CASE H!Begin
  BY <1>0, <1>3, HandConstants, DelivererUpdates DEF H!Begin, HandInv, HandTyped
<1>4. CASE H!Resume
  BY <1>0, <1>1, <1>4 DEF H!Resume, H!Resumed, HandInv, HandTyped
<1>5. CASE H!Plan
  <2>1. saved' \in PlanSet /\ saved'.id <= plans' /\ plans' \in Nat
    BY <1>0, <1>5 DEF H!Plan, HandInv, HandTyped, PlanSet
  <2>2. run' \in Deliverer
    BY <1>0, <1>1, <1>5, <2>1 DEF H!Plan
  <2> QED
    BY <1>5, <2>1, <2>2 DEF H!Plan, HandInv, HandTyped
<1>6. CASE H!NothingToDo \/ H!EndDeliveries \/ H!GiveUp \/ H!Dies
  <2>1. run' \in Deliverer
    <3>1. [run EXCEPT !.pc = "retire"] \in Deliverer
      BY <1>0, DelivererUpdates DEF Carrying
    <3> QED
      BY <1>6, <3>1, HandConstants DEF H!NothingToDo, H!EndDeliveries, H!GiveUp, H!Dies
  <2>2. cut' \in [Chapter -> Nat]
    BY <1>6 DEF H!NothingToDo, H!EndDeliveries, H!GiveUp, H!Dies, HandInv, HandTyped
  <2> QED
    BY <1>6, <2>1, <2>2 DEF H!NothingToDo, H!EndDeliveries, H!GiveUp, H!Dies, HandInv, HandTyped
<1>7. CASE H!Complete
  <2>1. run' \in Deliverer
    <3>1. [H!Off EXCEPT !.pc = "plan", !.attempt = 2, !.selected = run.selected] \in Deliverer
      BY <1>0, HandConstants, DelivererUpdates
    <3> QED
      BY <1>7, <3>1, HandConstants DEF H!Complete
  <2> QED
    BY <1>7, <2>1, HandConstants DEF H!Complete, HandInv, HandTyped
<1>8. ASSUME NEW r \in Chapter, H!Mark(r) \/ H!Copy(r) \/ H!CopyFails(r) PROVE HandTyped'
  <2>0. /\ run.pc \in Carrying /\ H!Planned(r) \in H!Artifact /\ H!Planned(r)[1] = r
        /\ {r} \in SUBSET (Chapter \cup H!Artifact) /\ {} \in SUBSET (Chapter \cup H!Artifact)
        /\ run.todo \ {r} \in SUBSET Chapter
    BY <1>0, <1>8, SavedPlanIsPlan DEF Carrying, H!Mark, H!Copy, H!CopyFails
  <2>1. run' \in Deliverer
    <3>1. CASE H!Mark(r)
      BY <1>0, <2>0, <3>1, DelivererUpdates DEF H!Mark, Carrying
    <3>2. CASE H!Copy(r)
      <4>1. (copies' # copies) \in BOOLEAN
        OBVIOUS
      <4> QED
        BY <1>0, <3>2, <4>1, DelivererUpdates DEF H!Copy, Carrying
    <3>3. CASE H!CopyFails(r)
      <4>1. run' = [run EXCEPT !.pc = "deliver", !.todo = run.todo \ {r}, !.at = {}, !.failed = TRUE]
        BY <3>3 DEF H!CopyFails
      <4> QED
        BY <1>0, <2>0, <4>1, DelivererUpdates DEF Carrying
    <3> QED
      BY <1>8, <3>1, <3>2, <3>3
  <2>2. record' \in [H!Artifact -> Statuses]
    BY <1>8, <2>0 DEF H!Mark, H!Copy, H!CopyFails, HandInv, HandTyped, Statuses
  <2>3. /\ folder' \in [H!Name -> SUBSET H!Artifact] /\ landed' \subseteq H!Artifact
        /\ copies' \in [Chapter -> Nat] /\ cut' \in [Chapter -> Nat]
    BY <1>8, <2>0 DEF H!Mark, H!Copy, H!CopyFails, H!Land, HandInv, HandTyped
  <2> QED
    BY <1>8, <2>1, <2>2, <2>3 DEF H!Mark, H!Copy, H!CopyFails, HandInv, HandTyped
<1>9. ASSUME NEW r \in Chapter, H!Call(r) \/ H!CallFails(r) \/ H!Record(r) PROVE HandTyped'
  <2>0. /\ run.pc \in Carrying /\ H!Planned(r) \in H!Artifact
        /\ {r} \in SUBSET (Chapter \cup H!Artifact) /\ {} \in SUBSET (Chapter \cup H!Artifact)
        /\ run.todo \ {r} \in SUBSET Chapter
    BY <1>0, <1>9, SavedPlanIsPlan DEF Carrying, H!Call, H!CallFails, H!Record
  <2>1. run' \in Deliverer
    <3>1. CASE H!Call(r)
      BY <1>0, <2>0, <3>1, DelivererUpdates DEF H!Call, Carrying
    <3>2. CASE H!CallFails(r)
      <4>1. run' = [run EXCEPT !.todo = run.todo \ {r}, !.failed = TRUE]
        BY <3>2 DEF H!CallFails
      <4> QED
        BY <1>0, <2>0, <4>1, DelivererUpdates
    <3>3. CASE H!Record(r)
      <4>1. run' = [run EXCEPT !.pc = "deliver", !.todo = run.todo \ {r}, !.at = {}, !.fresh = FALSE]
        BY <3>3 DEF H!Record
      <4> QED
        BY <1>0, <2>0, <4>1, DelivererUpdates DEF Carrying
    <3> QED
      BY <1>9, <3>1, <3>2, <3>3
  <2>2. record' \in [H!Artifact -> Statuses]
    BY <1>9, <2>0 DEF H!Call, H!CallFails, H!Record, HandInv, HandTyped, Statuses
  <2>3. library' \in [H!Name -> SUBSET H!Artifact]
    BY <1>2, <1>9, <2>0 DEF H!Call, H!CallFails, H!Record
  <2> QED
    BY <1>9, <2>1, <2>2, <2>3 DEF H!Call, H!CallFails, H!Record, HandInv, HandTyped
<1>10. ASSUME NEW a \in H!Artifact, H!Supersede(a) \/ H!RecordSuperseded(a) \/ H!SupersedeFails(a)
       PROVE HandTyped'
  <2>0. /\ {a} \in SUBSET (Chapter \cup H!Artifact) /\ {} \in SUBSET (Chapter \cup H!Artifact)
        /\ run.retire \ {a} \in SUBSET H!Artifact
    BY <1>0
  <2>1. run' \in Deliverer
    <3>1. CASE H!Supersede(a)
      BY <1>0, <2>0, <3>1, DelivererUpdates DEF H!Supersede, Carrying
    <3>2. CASE H!RecordSuperseded(a)
      <4>1. run' = [run EXCEPT !.pc = "retire", !.retire = run.retire \ {a}, !.at = {}]
        BY <3>2 DEF H!RecordSuperseded
      <4> QED
        BY <1>0, <2>0, <4>1, DelivererUpdates DEF Carrying
    <3>3. CASE H!SupersedeFails(a)
      <4>1. run' = [run EXCEPT !.retire = run.retire \ {a}, !.failed = TRUE]
        BY <3>3 DEF H!SupersedeFails
      <4> QED
        BY <1>0, <2>0, <4>1, DelivererUpdates
    <3> QED
      BY <1>10, <3>1, <3>2, <3>3
  <2>2. record' \in [H!Artifact -> Statuses]
    BY <1>10 DEF H!Supersede, H!RecordSuperseded, H!SupersedeFails, HandInv, HandTyped, Statuses
  <2>3. library' \in [H!Name -> SUBSET H!Artifact]
    BY <1>2, <1>10 DEF H!Supersede, H!RecordSuperseded, H!SupersedeFails
  <2> QED
    BY <1>10, <2>1, <2>2, <2>3 DEF H!Supersede, H!RecordSuperseded, H!SupersedeFails, HandInv, HandTyped
<1>11. ASSUME NEW r \in Chapter, NEW v \in Edition, H!Correct(r, v) PROVE HandTyped'
  BY <1>11 DEF H!Correct, HandInv, HandTyped
<1>12. ASSUME NEW n \in H!Name, H!Take(n) PROVE HandTyped'
  BY <1>12 DEF H!Take, HandInv, HandTyped
<1> QED
  BY <1>3, <1>4, <1>5, <1>6, <1>7, <1>8, <1>9, <1>10, <1>11, <1>12 DEF H!Next

LEMMA CoverStays ==
  ASSUME UNCHANGED <<kind, record, saved>>
  PROVE  /\ H!Retirements(saved.editions)' = H!Retirements(saved.editions)
         /\ \A r \in Chapter : H!Covered(r, saved.editions)' = H!Covered(r, saved.editions)
BY DEF H!Retirements, H!Covered, H!Published

(* A plan that is taken up has everything left that is not covered.        *)
LEMMA PlanTakenUp ==
  ASSUME HandTyped, HandTyped', saved'.id # 0, UNCHANGED <<kind, record>>, H!PlanFor(saved'),
         run.fresh = FALSE
  PROVE  UnderWay'
<1>0. run \in Deliverer /\ saved' \in PlanSet
  BY DEF HandTyped
<1>1. /\ run'.pc = "deliver" /\ run'.plan = saved' /\ run'.todo = H!Deliveries(saved'.editions)
      /\ run'.retire = H!Retirements(saved'.editions) /\ run'.failed = run.failed /\ run'.fresh = run.fresh
  BY <1>0 DEF H!PlanFor, Deliverer
<1>2. /\ run'.retire = H!Retirements(saved.editions)'
      /\ \A r \in Chapter : r \in run'.todo <=> ~H!Covered(r, saved.editions)'
  BY <1>1 DEF H!Deliveries, H!Retirements, H!Covered, H!Published
<1>3. run'.todo \subseteq Chapter
  BY <1>1 DEF H!Deliveries
<1> QED
  BY <1>1, <1>2, <1>3 DEF UnderWay

LEMMA UnderWayStays ==
  ASSUME NamesAssumption, HandInv, HandTyped', H!Next PROVE UnderWay'
<1> USE DEF H!At, H!Fault, H!catalog, H!watched, H!hook
<1>0. /\ run \in Deliverer /\ saved \in PlanSet /\ edition \in [Chapter -> Edition]
      /\ record \in [H!Artifact -> Statuses] /\ saved.editions \in [Chapter -> Edition]
      /\ run.todo \in SUBSET Chapter /\ run.retire \in SUBSET H!Artifact
  BY DEF HandInv, HandTyped, Deliverer, PlanSet
<1>1. UnderWay
  BY DEF HandInv
<1>2. ASSUME run'.pc \notin Carrying, ~run'.fresh PROVE UnderWay'
  BY <1>2 DEF UnderWay, Carrying
<1>3. CASE H!Begin \/ H!NothingToDo \/ H!GiveUp \/ H!Dies \/ H!Complete
  <2>1. CASE H!Begin
    BY <1>2, <2>1, HandConstants DEF H!Begin, Deliverer, Carrying
  <2>2. CASE H!NothingToDo \/ H!GiveUp \/ H!Dies
    BY <1>2, <2>2, HandConstants DEF H!NothingToDo, H!GiveUp, H!Dies, Carrying
  <2>3. CASE H!Complete
    <3>1. [H!Off EXCEPT !.pc = "plan", !.attempt = 2, !.selected = run.selected].pc = "plan"
      BY HandConstants DEF Deliverer
    <3>2. [H!Off EXCEPT !.pc = "plan", !.attempt = 2, !.selected = run.selected].fresh = FALSE
      BY HandConstants DEF Deliverer
    <3> QED
      BY <1>2, <2>3, <3>1, <3>2, HandConstants DEF H!Complete, Carrying
  <2> QED
    BY <1>3, <2>1, <2>2, <2>3
<1>4. CASE H!Resume
  <2>1. run.fresh = FALSE
    BY <1>0, <1>1, <1>4 DEF H!Resume, UnderWay, Deliverer
  <2> QED
    BY <1>4, <2>1, PlanTakenUp DEF H!Resume, H!Resumed, HandInv
<1>5. CASE H!Plan
  <2>1. saved'.id # 0 /\ plans' = plans + 1 /\ plans \in Nat
    BY <1>5 DEF H!Plan, HandInv, HandTyped
  <2>2. run.fresh = FALSE
    BY <1>0, <1>1, <1>5 DEF H!Plan, UnderWay, Deliverer
  <2> QED
    BY <1>5, <2>1, <2>2, PlanTakenUp DEF H!Plan, HandInv
<1>6. CASE H!EndDeliveries
  <2>1. CASE run.failed
    BY <1>2, <1>6, <2>1, HandConstants DEF H!EndDeliveries, Carrying
  <2>2. CASE ~run.failed
    <3>1. /\ run'.pc = "retire" /\ run'.plan = run.plan /\ run'.retire = run.retire /\ run'.todo = {}
          /\ run'.failed = run.failed /\ run'.fresh = run.fresh /\ run.pc = "deliver" /\ run.todo = {}
          /\ UNCHANGED <<kind, record, saved>>
      BY <1>0, <1>6, <2>2 DEF H!EndDeliveries, Deliverer
    <3>2. \A r \in Chapter : H!Covered(r, saved.editions)
      BY <1>1, <2>2, <3>1 DEF UnderWay, Carrying
    <3>3. ~run.fresh /\ saved.id # 0 /\ run.plan = saved /\ run.retire = H!Retirements(saved.editions)
      BY <1>1, <2>2, <3>1 DEF UnderWay, Carrying
    <3>4. /\ \A r \in Chapter : H!Covered(r, saved.editions)'
          /\ run'.retire = H!Retirements(saved.editions)'
      BY <3>1, <3>2, <3>3, CoverStays
    <3> QED
      BY <3>1, <3>3, <3>4 DEF UnderWay, Carrying
  <2> QED
    BY <2>1, <2>2
<1>7. ASSUME NEW r \in Chapter, H!Mark(r) PROVE UnderWay'
  <2>1. /\ run'.pc = "copy" /\ run'.plan = run.plan /\ run'.retire = run.retire /\ run'.todo = run.todo
        /\ run'.failed = run.failed /\ run'.fresh = run.fresh /\ run.pc = "deliver" /\ r \in run.todo
        /\ run'.at = {r} /\ kind = "drop" /\ UNCHANGED <<kind, saved>>
    BY <1>0, <1>7 DEF H!Mark, Deliverer
  <2>2. ~H!Covered(r, saved.editions) /\ H!Planned(r) = <<r, saved.editions[r]>> /\ H!Planned(r) \in H!Artifact
    BY <1>1, <2>1, SavedPlanIsPlan DEF UnderWay, Carrying
  <2>3. \A a \in H!Artifact : (record[a] = "published") <=> (record'[a] = "published")
    BY <1>0, <1>7, <2>2 DEF H!Mark, H!Covered, H!Published
  <2>4. /\ H!Retirements(saved.editions)' = H!Retirements(saved.editions)
        /\ \A s \in Chapter : H!Covered(s, saved.editions)' = H!Covered(s, saved.editions)
    BY <1>0, <2>1, <2>3, HandConstants DEF H!Retirements, H!Covered, H!Published
  <2> QED
    BY <1>0, <1>1, <2>1, <2>4 DEF UnderWay, Carrying
<1>8. ASSUME NEW r \in Chapter, H!Copy(r) \/ H!CopyFails(r) \/ H!Call(r) PROVE UnderWay'
  <2>1. UNCHANGED <<kind, saved, record>>
    BY <1>8 DEF H!Copy, H!CopyFails, H!Call
  <2>2. CASE H!Copy(r)
    <3>1. /\ run'.pc = "record" /\ run'.plan = run.plan /\ run'.retire = run.retire /\ run'.todo = run.todo
          /\ run'.failed = run.failed /\ run.pc = "copy" /\ run'.at = run.at
      BY <1>0, <2>2 DEF H!Copy, Deliverer
    <3> QED
      BY <1>0, <1>1, <2>1, <3>1, CoverStays DEF UnderWay, Carrying
  <2>3. CASE H!CopyFails(r)
    <3>1. /\ run'.pc = "deliver" /\ run'.plan = run.plan /\ run'.retire = run.retire /\ run'.todo = run.todo \ {r}
          /\ run'.failed = TRUE /\ run.pc = "copy" /\ run'.fresh = run.fresh
      BY <1>0, <2>3 DEF H!CopyFails, Deliverer
    <3> QED
      BY <1>0, <1>1, <2>1, <3>1, CoverStays DEF UnderWay, Carrying
  <2>4. CASE H!Call(r)
    <3>1. /\ run'.pc = "record" /\ run'.plan = run.plan /\ run'.retire = run.retire /\ run'.todo = run.todo
          /\ run'.failed = run.failed /\ run.pc = "deliver" /\ run'.at = {r} /\ r \in run.todo
          /\ run'.fresh = run.fresh
      BY <1>0, <2>4 DEF H!Call, Deliverer
    <3> QED
      BY <1>0, <1>1, <2>1, <3>1, CoverStays DEF UnderWay, Carrying
  <2> QED
    BY <1>8, <2>2, <2>3, <2>4
<1>9. ASSUME NEW r \in Chapter, H!CallFails(r) PROVE UnderWay'
  <2>1. /\ run'.pc = "deliver" /\ run'.plan = run.plan /\ run'.retire = run.retire /\ run'.todo = run.todo \ {r}
        /\ run'.failed = TRUE /\ run'.fresh = run.fresh /\ run.pc = "deliver" /\ r \in run.todo
        /\ kind = "exec" /\ UNCHANGED <<kind, saved>>
    BY <1>0, <1>9 DEF H!CallFails, Deliverer
  <2>2. ~H!Covered(r, saved.editions) /\ H!Planned(r) = <<r, saved.editions[r]>> /\ H!Planned(r) \in H!Artifact
    BY <1>1, <2>1, SavedPlanIsPlan DEF UnderWay, Carrying
  <2>3. \A a \in H!Artifact : (record[a] = "published") <=> (record'[a] = "published")
    BY <1>0, <1>9, <2>2 DEF H!CallFails, H!Covered, H!Published
  <2>4. /\ H!Retirements(saved.editions)' = H!Retirements(saved.editions)
        /\ \A s \in Chapter : H!Covered(s, saved.editions)' = H!Covered(s, saved.editions)
    BY <1>0, <2>1, <2>3, HandConstants DEF H!Retirements, H!Covered, H!Published
  <2> QED
    BY <1>0, <1>1, <2>1, <2>4 DEF UnderWay, Carrying
<1>10. ASSUME NEW r \in Chapter, H!Record(r) PROVE UnderWay'
  <2>1. /\ run'.pc = "deliver" /\ run'.plan = run.plan /\ run'.retire = run.retire /\ run'.todo = run.todo \ {r}
        /\ run'.failed = run.failed /\ run'.fresh = FALSE /\ run.pc = "record" /\ run.at = {r}
        /\ UNCHANGED <<kind, saved>>
    BY <1>0, <1>10 DEF H!Record, Deliverer
  <2>2. r \in run.todo /\ H!Planned(r) = <<r, saved.editions[r]>> /\ H!Planned(r) \in H!Artifact
    BY <1>1, <2>1, SavedPlanIsPlan DEF UnderWay, Carrying
  <2>3. \A a \in H!Artifact : (record'[a] = "published") <=> (record[a] = "published" \/ a = H!Planned(r))
    BY <1>0, <1>10, <2>2 DEF H!Record
  <2>4. H!Retirements(saved.editions)' = H!Retirements(saved.editions)
    BY <1>0, <2>1, <2>2, <2>3, HandConstants DEF H!Retirements, H!Published
  <2>5. \A s \in Chapter : H!Covered(s, saved.editions)' = (H!Covered(s, saved.editions) \/ s = r)
    <3> SUFFICES ASSUME NEW s \in Chapter
                 PROVE  H!Covered(s, saved.editions)' <=> H!Covered(s, saved.editions) \/ s = r
      BY DEF H!Covered
    <3>1. \A v \in Edition : (record'[<<s, v>>] = "published") <=>
                                (record[<<s, v>>] = "published" \/ (s = r /\ v = saved.editions[r]))
      BY <2>2, <2>3, HandConstants
    <3> QED
      BY <1>0, <2>1, <3>1, HandConstants DEF H!Covered, H!Published
  <2>6. /\ \A s \in run'.todo : ~H!Covered(s, saved.editions)'
        /\ ~run'.failed => \A s \in Chapter \ run'.todo : H!Covered(s, saved.editions)'
    BY <1>0, <1>1, <2>1, <2>5 DEF UnderWay, Carrying
  <2> QED
    BY <1>0, <1>1, <2>1, <2>2, <2>4, <2>6 DEF UnderWay, Carrying
<1>11. ASSUME NEW a \in H!Artifact, H!Supersede(a) \/ H!SupersedeFails(a) PROVE UnderWay'
  <2>1. UNCHANGED <<kind, saved, record>> /\ run.pc = "retire" /\ a \in run.retire
    BY <1>11 DEF H!Supersede, H!SupersedeFails
  <2>2. kind = "exec"
    BY <1>1, <2>1 DEF UnderWay, Carrying, H!Retirements
  <2>3. CASE H!Supersede(a)
    <3>1. /\ run'.pc = "superseded" /\ run'.plan = run.plan /\ run'.retire = run.retire /\ run'.todo = run.todo
          /\ run'.failed = run.failed /\ run'.at = {a} /\ run'.fresh = run.fresh
      BY <1>0, <2>3 DEF H!Supersede, Deliverer
    <3> QED
      BY <1>0, <1>1, <2>1, <2>2, <3>1, CoverStays DEF UnderWay, Carrying
  <2>4. CASE H!SupersedeFails(a)
    <3>1. /\ run'.pc = "retire" /\ run'.plan = run.plan /\ run'.retire = run.retire \ {a} /\ run'.todo = run.todo
          /\ run'.failed = TRUE /\ run'.fresh = run.fresh
      BY <1>0, <2>1, <2>4 DEF H!SupersedeFails, Deliverer
    <3> QED
      BY <1>0, <1>1, <2>1, <2>2, <3>1, CoverStays DEF UnderWay, Carrying
  <2> QED
    BY <1>11, <2>3, <2>4
<1>12. ASSUME NEW a \in H!Artifact, H!RecordSuperseded(a) PROVE UnderWay'
  <2>1. /\ run'.pc = "retire" /\ run'.plan = run.plan /\ run'.retire = run.retire \ {a} /\ run'.todo = run.todo
        /\ run'.failed = run.failed /\ run'.fresh = run.fresh /\ run.pc = "superseded" /\ run.at = {a}
        /\ UNCHANGED <<kind, saved>>
    BY <1>0, <1>12 DEF H!RecordSuperseded, Deliverer
  <2>2. a \in run.retire /\ kind = "exec" /\ a \in H!Retirements(saved.editions)
    BY <1>1, <2>1 DEF UnderWay, Carrying
  <2>3. \A b \in H!Artifact : (record'[b] = "published") <=> (record[b] = "published" /\ b # a)
    BY <1>0, <1>12 DEF H!RecordSuperseded
  <2>4. H!Retirements(saved.editions)' = H!Retirements(saved.editions) \ {a}
    BY <1>0, <2>1, <2>3 DEF H!Retirements, H!Published
  <2>5. \A s \in Chapter : H!Covered(s, saved.editions)' = H!Covered(s, saved.editions)
    BY <1>0, <2>1, <2>2, <2>3, HandConstants DEF H!Covered, H!Published, H!Retirements
  <2> QED
    BY <1>0, <1>1, <2>1, <2>2, <2>4, <2>5 DEF UnderWay, Carrying
<1>13. ASSUME (\E r \in Chapter, v \in Edition : H!Correct(r, v)) \/ (\E n \in H!Name : H!Take(n)) PROVE UnderWay'
  <2>1. UNCHANGED <<kind, saved, record, run>>
    BY <1>13 DEF H!Correct, H!Take
  <2> QED
    BY <1>0, <1>1, <2>1, CoverStays DEF UnderWay
<1> QED
  BY <1>3, <1>4, <1>5, <1>6, <1>7, <1>8, <1>9, <1>10, <1>11, <1>12, <1>13 DEF H!Next

LEMMA DroppedStays ==
  ASSUME NamesAssumption, HandInv, HandTyped', H!Next PROVE Dropped'
<1> USE DEF H!At, H!Fault, H!catalog, H!watched, H!hook
<1>0. /\ run \in Deliverer /\ saved \in PlanSet /\ saved.editions \in [Chapter -> Edition]
      /\ record \in [H!Artifact -> Statuses] /\ landed \subseteq H!Artifact
      /\ copies \in [Chapter -> Nat] /\ cut \in [Chapter -> Nat]
      /\ run.todo \in SUBSET Chapter
  BY DEF HandInv, HandTyped, Deliverer, PlanSet
<1>1. UnderWay /\ Dropped
  BY DEF HandInv
<1> SUFFICES ASSUME kind = "drop", kind' = "drop" PROVE Dropped'
  BY DEF Dropped, H!Next, H!Begin, H!Resume, H!Plan, H!NothingToDo, H!EndDeliveries, H!GiveUp, H!Complete,
         H!Dies, H!Mark, H!Copy, H!CopyFails, H!Call, H!CallFails, H!Record, H!Correct, H!Supersede,
         H!RecordSuperseded, H!SupersedeFails, H!Take
<1>2. ASSUME UNCHANGED <<record, landed, copies, cut>>, run.fresh => run'.fresh /\ run'.at = run.at,
             \/ saved' = saved
             \/ saved.id = 0
             \/ \A r \in Chapter : Taken(r)
      PROVE  Dropped'
  <2> SUFFICES ASSUME NEW r \in Chapter
               PROVE  /\ (copies[r] <= cut[r] + IF Taken(r) \/ (run.fresh /\ run.at = {r}) THEN 1 ELSE 0)'
                      /\ \A v \in Edition : <<r, v>> \in landed =>
                            Taken(r)' \/ (saved'.id # 0 /\ saved'.editions[r] = v)
                      /\ \A v, w \in Edition : <<r, v>> \in landed /\ <<r, w>> \in landed => v = w
    BY <1>2 DEF Dropped
  <2>1. Taken(r)' <=> Taken(r)
    BY <1>2 DEF Taken
  <2> QED
    BY <1>0, <1>1, <1>2, <2>1 DEF Dropped
<1>3. CASE H!Begin \/ H!Resume \/ H!Plan \/ H!NothingToDo \/ H!EndDeliveries \/ H!GiveUp \/ H!Complete
  <2>1. UNCHANGED <<record, landed, copies, cut>>
    BY <1>3 DEF H!Begin, H!Resume, H!Plan, H!NothingToDo, H!EndDeliveries, H!GiveUp, H!Complete
  <2>2. ~run.fresh
    BY <1>1, <1>3 DEF H!Begin, H!Resume, H!Plan, H!NothingToDo, H!EndDeliveries, H!GiveUp, H!Complete, UnderWay
  <2>3. \/ saved' = saved \/ saved.id = 0 \/ \A r \in Chapter : Taken(r)
    <3>1. CASE H!Complete
      <4>1. \A r \in Chapter : H!Covered(r, saved.editions)
        BY <1>1, <3>1 DEF H!Complete, UnderWay
      <4> QED
        BY <1>0, <4>1, HandConstants DEF H!Covered, H!Published, Taken
    <3> QED
      BY <1>3, <3>1 DEF H!Begin, H!Resume, H!Plan, H!NothingToDo, H!EndDeliveries, H!GiveUp
  <2> QED
    BY <1>2, <2>1, <2>2, <2>3
<1>4. CASE \/ \E r \in Chapter : H!Call(r) \/ H!CallFails(r) \/ \E v \in Edition : H!Correct(r, v)
           \/ \E a \in H!Artifact : H!Supersede(a) \/ H!RecordSuperseded(a) \/ H!SupersedeFails(a)
           \/ \E n \in H!Name : H!Take(n)
  <2>1. \/ \E r \in Chapter, v \in Edition : H!Correct(r, v)
        \/ \E n \in H!Name : H!Take(n)
    <3>1. ASSUME NEW a \in H!Artifact, H!Supersede(a) \/ H!RecordSuperseded(a) \/ H!SupersedeFails(a) PROVE FALSE
      BY <1>1, <3>1 DEF H!Supersede, H!RecordSuperseded, H!SupersedeFails, UnderWay, Carrying, H!Retirements
    <3> QED
      BY <1>4, <3>1 DEF H!Call, H!CallFails
  <2> QED
    BY <1>2, <2>1 DEF H!Correct, H!Take
<1>5. CASE H!Dies
  <2>1. UNCHANGED <<record, landed, copies, saved>> /\ run' = H!Off
    BY <1>5 DEF H!Dies
  <2> SUFFICES ASSUME NEW r \in Chapter
               PROVE  /\ (copies[r] <= cut[r] + IF Taken(r) \/ (run.fresh /\ run.at = {r}) THEN 1 ELSE 0)'
                      /\ \A v \in Edition : <<r, v>> \in landed =>
                            Taken(r)' \/ (saved'.id # 0 /\ saved'.editions[r] = v)
                      /\ \A v, w \in Edition : <<r, v>> \in landed /\ <<r, w>> \in landed => v = w
    BY <2>1 DEF Dropped
  <2>2. Taken(r)' <=> Taken(r)
    BY <2>1 DEF Taken
  <2>3. cut'[r] = cut[r] + IF run.fresh /\ run.at = {r} THEN 1 ELSE 0
    BY <1>5 DEF H!Dies
  <2> QED
    BY <1>0, <1>1, <2>1, <2>2, <2>3, HandConstants DEF Dropped
<1>6. ASSUME NEW r \in Chapter, H!Mark(r) PROVE Dropped'
  <2>0. ~H!Covered(r, saved.editions) /\ run.pc = "deliver"
    BY <1>1, <1>6 DEF H!Mark, UnderWay
  <2>1. ~Taken(r) /\ H!Planned(r) = <<r, saved.editions[r]>> /\ H!Planned(r) \in H!Artifact
    BY <2>0, HandConstants, SavedPlanIsPlan DEF Carrying, H!Covered, H!Published, Taken
  <2>2. \A s \in Chapter : Taken(s)' <=> Taken(s)
    <3>1. \A a \in H!Artifact : (record'[a] = "published") <=> (record[a] = "published")
      BY <1>0, <1>6, <2>1, HandConstants DEF H!Mark, Taken
    <3> QED
      BY <3>1, HandConstants DEF Taken
  <2>3. ~run.fresh /\ ~run'.fresh
    BY <1>0, <1>1, <1>6, <2>0 DEF H!Mark, UnderWay, Deliverer
  <2> QED
    BY <1>0, <1>1, <1>6, <2>2, <2>3 DEF Dropped, H!Mark
<1>7. ASSUME NEW r \in Chapter, H!Record(r) PROVE Dropped'
  <2>1. H!Planned(r) = <<r, saved.editions[r]>> /\ H!Planned(r) \in H!Artifact /\ run.at = {r}
    BY <1>7, SavedPlanIsPlan DEF H!Record, Carrying
  <2>2. Taken(r)' /\ \A s \in Chapter \ {r} : Taken(s)' <=> Taken(s)
    BY <1>0, <1>7, <2>1, HandConstants DEF H!Record, Taken
  <2>3. ~run'.fresh /\ \A s \in Chapter \ {r} : run.at # {s}
    BY <1>0, <1>7, <2>1 DEF H!Record, Deliverer
  <2>4. UNCHANGED <<landed, copies, cut, saved>>
    BY <1>7 DEF H!Record
  <2> QED
    BY <1>0, <1>1, <2>1, <2>2, <2>3, <2>4 DEF Dropped
<1>8. ASSUME NEW r \in Chapter, H!Land(H!Planned(r)), run.at = {r}, run.pc = "copy"
      PROVE  /\ ~Taken(r) /\ copies[r] <= cut[r] /\ copies'[r] = copies[r] + 1
             /\ \A s \in Chapter \ {r} : copies'[s] = copies[s]
             /\ \A s \in Chapter \ {r}, v \in Edition : <<s, v>> \in landed' => <<s, v>> \in landed
             /\ \A v \in Edition : <<r, v>> \in landed' => saved.id # 0 /\ saved.editions[r] = v
  <2>1. ~H!Covered(r, saved.editions) /\ saved.id # 0 /\ ~run.fresh
    BY <1>0, <1>1, <1>8 DEF UnderWay, Carrying
  <2>2. ~Taken(r) /\ H!Planned(r) = <<r, saved.editions[r]>>
    BY <1>8, <2>1, HandConstants, SavedPlanIsPlan DEF Carrying, H!Covered, H!Published, Taken
  <2>3. copies[r] <= cut[r] /\ \A v \in Edition : <<r, v>> \in landed => saved.editions[r] = v
    BY <1>0, <1>1, <2>1, <2>2 DEF Dropped
  <2>4. landed' = landed \cup {<<r, saved.editions[r]>>} /\ copies' = [copies EXCEPT ![r] = copies[r] + 1]
    BY <1>8, <2>2 DEF H!Land
  <2> QED
    BY <1>0, <2>1, <2>2, <2>3, <2>4
<1>9. ASSUME NEW r \in Chapter, H!Copy(r) \/ H!CopyFails(r) PROVE Dropped'
  <2>1. UNCHANGED <<record, saved>> /\ run.at = {r} /\ run.pc = "copy" /\ ~run.fresh
    BY <1>1, <1>9 DEF H!Copy, H!CopyFails, UnderWay
  <2>2. \A s \in Chapter : (Taken(s)' <=> Taken(s)) /\ (run.at = {s} <=> s = r)
    BY <2>1 DEF Taken
  <2>3. CASE UNCHANGED <<landed, copies, cut>>
    BY <1>2, <2>1, <2>3
  <2>4. CASE H!Copy(r) /\ H!Land(H!Planned(r))
    <3>1. copies' # copies
      BY <1>0, <1>8, <2>1, <2>4
    <3>2. run'.fresh /\ run'.at = {r} /\ cut' = cut
      BY <1>0, <2>1, <2>4, <3>1 DEF H!Copy, Deliverer
    <3> QED
      BY <1>0, <1>1, <1>8, <2>1, <2>2, <2>4, <3>2 DEF Dropped
  <2>5. CASE H!CopyFails(r) /\ H!Land(H!Planned(r)) /\ cut' = [cut EXCEPT ![r] = @ + 1]
    <3>1. cut'[r] = cut[r] + 1 /\ (\A s \in Chapter \ {r} : cut'[s] = cut[s]) /\ cut' \in [Chapter -> Nat]
      BY <1>0, <2>5
    <3> QED
      BY <1>0, <1>1, <1>8, <2>1, <2>2, <2>5, <3>1 DEF Dropped
  <2> QED
    BY <1>9, <2>3, <2>4, <2>5 DEF H!Copy, H!CopyFails
<1> QED
  BY <1>3, <1>4, <1>5, <1>6, <1>7, <1>9 DEF H!Next

(* What the command does with an event of the saved plan.                  *)
LEMMA Applied ==
  ASSUME HandInv, run.pc \in Carrying, NEW action \in {"publish", "supersede"}, NEW a \in H!Artifact,
         H!Apply(action, a)
  PROVE  /\ applied' = seen' /\ ~repeated'
         /\ seen' = seen \cup {<<saved.id, action, a>>}
         /\ \A n \in H!Name : \A b \in library'[n] : NameOf[b] = n
         /\ <<saved.id, action, a>> \in seen => library' = library
         /\ <<saved.id, action, a>> \notin seen => \A b \in H!Artifact :
              In(b)' <=> IF action = "publish"
                         THEN b = a \/ (In(b) /\ NameOf[b] # NameOf[a])
                         ELSE In(b) /\ b # a
<1> DEFINE e == <<saved.id, action, a>>
<1>1. /\ run.plan = saved /\ saved.scope = saved.id /\ applied = seen /\ ~repeated
      /\ library \in [H!Name -> SUBSET H!Artifact] /\ NameOf[a] \in H!Name
      /\ \A n \in H!Name : \A b \in library[n] : NameOf[b] = n
  BY HandConstants DEF HandInv, UnderWay, Hooked, HandTyped
<1>2. H!Event(action, a) = e
  BY <1>1 DEF H!Event
<1>3. CASE e \in seen
  BY <1>1, <1>2, <1>3 DEF H!Apply, H!hook
<1>4. CASE e \notin seen
  <2>1. /\ seen' = seen \cup {e} /\ applied' = applied \cup {e}
        /\ repeated' = (repeated \/ applied' = applied)
        /\ library' = [library EXCEPT ![NameOf[a]] = IF action = "publish" THEN {a} ELSE library[NameOf[a]] \ {a}]
    BY <1>1, <1>2, <1>4 DEF H!Apply
  <2>2. applied' # applied
    BY <1>1, <1>4, <2>1
  <2>3. /\ \A n \in H!Name : n # NameOf[a] => library'[n] = library[n]
        /\ action = "publish" => library'[NameOf[a]] = {a}
        /\ action # "publish" => library'[NameOf[a]] = library[NameOf[a]] \ {a}
    BY <1>1, <2>1
  <2>4. \A b \in H!Artifact : In(b)' <=> b \in library'[NameOf[b]]
    BY DEF In
  <2> HIDE DEF e
  <2>5. \A b \in H!Artifact : In(b)' <=> IF action = "publish"
                         THEN b = a \/ (In(b) /\ NameOf[b] # NameOf[a])
                         ELSE In(b) /\ b # a
    BY <2>3, <2>4, HandConstants DEF In
  <2>6. \A n \in H!Name : \A b \in library'[n] : NameOf[b] = n
    <3> SUFFICES ASSUME NEW n \in H!Name, NEW b \in library'[n] PROVE NameOf[b] = n
      OBVIOUS
    <3>1. b \in library[n] \/ (n = NameOf[a] /\ b = a)
      <4>1. CASE n = NameOf[a]
        BY <2>3, <4>1
      <4>2. CASE n # NameOf[a]
        BY <2>3, <4>2
      <4> QED
        BY <4>1, <4>2
    <3> QED
      BY <1>1, <3>1
  <2> QED
    BY <1>1, <1>4, <2>1, <2>2, <2>5, <2>6 DEF e
<1> QED
  BY <1>3, <1>4

LEMMA HookedStays ==
  ASSUME NamesAssumption, HandInv, HandTyped', H!Next PROVE Hooked'
<1> USE DEF H!At, H!Fault, H!catalog, H!watched, H!hook
<1>0. Hooked /\ plans \in Nat
  BY DEF HandInv, HandTyped
<1>1. ASSUME UNCHANGED <<library, seen, applied, repeated>>, plans' \in {plans, plans + 1},
             saved'.scope = saved'.id
      PROVE  Hooked'
  BY <1>0, <1>1 DEF Hooked
<1>2. ASSUME NEW action \in {"publish", "supersede"}, NEW a \in H!Artifact, run.pc \in Carrying,
             H!Apply(action, a) \/ UNCHANGED H!hook, UNCHANGED <<plans, saved>>
      PROVE  Hooked'
  <2>1. saved.id \in 1..plans
    BY <1>2 DEF HandInv, HandTyped, UnderWay, PlanSet
  <2>2. CASE H!Apply(action, a)
    <3>1. /\ applied' = seen' /\ ~repeated' /\ seen' = seen \cup {<<saved.id, action, a>>}
          /\ \A n \in H!Name : \A b \in library'[n] : NameOf[b] = n
      BY <1>2, <2>2, Applied
    <3>2. <<saved.id, action, a>> \in (1..plans) \X {"publish", "supersede"} \X H!Artifact
      BY <2>1
    <3> QED
      BY <1>0, <1>2, <3>1, <3>2 DEF Hooked
  <2> QED
    BY <1>0, <1>1, <1>2, <2>2 DEF Hooked
<1>3. CASE H!Begin \/ H!Resume \/ H!Plan \/ H!NothingToDo \/ H!EndDeliveries \/ H!GiveUp \/ H!Complete \/ H!Dies
  <2>1. UNCHANGED <<library, seen, applied, repeated>> /\ plans' \in {plans, plans + 1}
    BY <1>3 DEF H!Begin, H!Resume, H!Plan, H!NothingToDo, H!EndDeliveries, H!GiveUp, H!Complete, H!Dies
  <2>2. saved'.scope = saved'.id
    BY <1>0, <1>3, HandConstants
       DEF H!Begin, H!Resume, H!Plan, H!NothingToDo, H!EndDeliveries, H!GiveUp, H!Complete, H!Dies, Hooked
  <2> QED
    BY <1>1, <2>1, <2>2
<1>4. ASSUME NEW r \in Chapter, H!Mark(r) \/ H!Copy(r) \/ H!CopyFails(r) \/ H!Record(r) PROVE Hooked'
  BY <1>0, <1>1, <1>4 DEF H!Mark, H!Copy, H!CopyFails, H!Record, Hooked
<1>5. ASSUME NEW r \in Chapter, H!Call(r) \/ H!CallFails(r) PROVE Hooked'
  <2>1. run.pc \in Carrying /\ H!Planned(r) \in H!Artifact
    BY <1>5, SavedPlanIsPlan DEF H!Call, H!CallFails, Carrying
  <2> QED
    BY <1>2, <1>5, <2>1 DEF H!Call, H!CallFails
<1>6. ASSUME NEW a \in H!Artifact, H!Supersede(a) \/ H!SupersedeFails(a) PROVE Hooked'
  BY <1>2, <1>6 DEF H!Supersede, H!SupersedeFails, Carrying
<1>7. ASSUME \/ \E a \in H!Artifact : H!RecordSuperseded(a)
             \/ \E r \in Chapter, v \in Edition : H!Correct(r, v)
             \/ \E n \in H!Name : H!Take(n)
      PROVE  Hooked'
  BY <1>0, <1>1, <1>7 DEF H!RecordSuperseded, H!Correct, H!Take, Hooked
<1> QED
  BY <1>3, <1>4, <1>5, <1>6, <1>7 DEF H!Next

(* Two editions of the plan under one name are of one chapter, so the same.*)
LEMMA OneCurrent ==
  ASSUME NamesAssumption,
         NEW a \in H!Artifact, NEW b \in H!Artifact, Current(a), Current(b), NameOf[a] = NameOf[b]
  PROVE  a = b
<1>1. a[1] = b[1]
  BY NamesAssumption DEF H!Artifact
<1> QED
  BY <1>1, HandConstants DEF Current

(* What is pending of the saved plan holds after each event of it.         *)
LEMMA EventKeeps ==
  ASSUME NamesAssumption, HandInv, kind = "exec", run.pc \in Carrying, saved.id # 0,
         NEW action \in {"publish", "supersede"}, NEW a \in H!Artifact,
         action = "publish" => Current(a), action = "supersede" => ~Current(a) /\ record[a] = "published",
         H!Apply(action, a), NEW b \in H!Artifact
  PROVE  /\ In(b)' => Current(b) \/ record[b] = "published"
         /\ record[b] = "published" /\ Current(b) => In(b)'
         /\ <<saved.id, "publish", b>> \in seen' => In(b)' /\ Current(b)
         /\ <<saved.id, "supersede", b>> \in seen' => ~In(b)' /\ ~Current(b)
         /\ b = a => IF action = "publish" THEN In(b)' ELSE ~In(b)'
<1>1. /\ In(b) => Current(b) \/ record[b] = "published"
      /\ record[b] = "published" /\ Current(b) => In(b)
      /\ <<saved.id, "publish", b>> \in seen => In(b) /\ Current(b)
      /\ <<saved.id, "supersede", b>> \in seen => ~In(b) /\ ~Current(b)
  BY DEF HandInv, Followed
<1>2. seen' = seen \cup {<<saved.id, action, a>>}
  BY Applied
<1>3. CASE <<saved.id, action, a>> \in seen
  <2>1. In(b)' <=> In(b)
    BY <1>3, Applied DEF In
  <2>2. seen' = seen
    BY <1>2, <1>3
  <2> QED
    BY <1>1, <1>3, <2>1, <2>2
<1>4. CASE <<saved.id, action, a>> \notin seen /\ action = "publish"
  <2>1. In(b)' <=> b = a \/ (In(b) /\ NameOf[b] # NameOf[a])
    BY <1>4, Applied
  <2>2. Current(a)
    BY <1>4
  <2>3. Current(b) /\ NameOf[b] = NameOf[a] => b = a
    BY <2>2, OneCurrent
  <2>4. /\ <<saved.id, "publish", b>> \in seen' <=> <<saved.id, "publish", b>> \in seen \/ b = a
        /\ <<saved.id, "supersede", b>> \in seen' <=> <<saved.id, "supersede", b>> \in seen
    BY <1>2, <1>4
  <2> QED
    BY <1>1, <1>4, <2>1, <2>2, <2>3, <2>4
<1>5. CASE <<saved.id, action, a>> \notin seen /\ action = "supersede"
  <2>1. In(b)' <=> In(b) /\ b # a
    BY <1>5, Applied
  <2>2. ~Current(a)
    BY <1>5
  <2>3. /\ <<saved.id, "publish", b>> \in seen' <=> <<saved.id, "publish", b>> \in seen
        /\ <<saved.id, "supersede", b>> \in seen' <=> <<saved.id, "supersede", b>> \in seen \/ b = a
    BY <1>2, <1>5
  <2> QED
    BY <1>1, <1>5, <2>1, <2>2, <2>3
<1> QED
  BY <1>3, <1>4, <1>5

LEMMA FollowedStays ==
  ASSUME NamesAssumption, HandInv, HandTyped', H!Next PROVE Followed'
<1> USE DEF H!At, H!Fault, H!catalog, H!watched, H!hook
<1>0. /\ run \in Deliverer /\ saved \in PlanSet /\ saved.editions \in [Chapter -> Edition]
      /\ record \in [H!Artifact -> Statuses] /\ run.todo \in SUBSET Chapter
      /\ UnderWay /\ Hooked /\ Followed
  BY DEF HandInv, HandTyped, Deliverer, PlanSet
<1> SUFFICES ASSUME kind = "exec", kind' = "exec" PROVE Followed'
  BY DEF Followed, H!Next, H!Begin, H!Resume, H!Plan, H!NothingToDo, H!EndDeliveries, H!GiveUp, H!Complete,
         H!Dies, H!Mark, H!Copy, H!CopyFails, H!Call, H!CallFails, H!Record, H!Correct, H!Supersede,
         H!RecordSuperseded, H!SupersedeFails, H!Take
<1>1. ASSUME UNCHANGED <<landed, copies, library, seen, record, saved>>,
             run'.pc \in {"record", "superseded"} => UNCHANGED run
      PROVE  Followed'
  <2>1. \A a \in H!Artifact : (In(a)' <=> In(a)) /\ (Current(a)' <=> Current(a))
    BY <1>1 DEF In, Current
  <2>2. \A r \in Chapter : In(<<r, saved.editions[r]>>)' <=> In(<<r, saved.editions[r]>>)
    BY <1>1 DEF In
  <2> QED
    BY <1>0, <1>1, <2>1, <2>2 DEF Followed
<1>2. CASE H!Begin \/ H!Resume \/ H!NothingToDo \/ H!EndDeliveries \/ H!GiveUp \/ H!Dies
  <2>1. UNCHANGED <<landed, copies, library, seen, record, saved>>
    BY <1>2 DEF H!Begin, H!Resume, H!NothingToDo, H!EndDeliveries, H!GiveUp, H!Dies
  <2>2. run'.pc \in {"off", "plan", "deliver", "retire"}
    BY <1>0, <1>2, HandConstants
       DEF H!Begin, H!Resume, H!NothingToDo, H!EndDeliveries, H!GiveUp, H!Dies, H!PlanFor, Deliverer
  <2> QED
    BY <1>1, <2>1, <2>2
<1>3. CASE H!Plan
  <2>1. /\ UNCHANGED <<landed, copies, library, seen, record>> /\ saved.id = 0
        /\ saved'.id = plans + 1 /\ saved'.editions = run.selected
    BY <1>3 DEF H!Plan
  <2>2. run'.pc = "deliver"
    BY <1>0, <1>3 DEF H!Plan, H!PlanFor, Deliverer
  <2>3. \A a \in H!Artifact : (In(a)' <=> In(a)) /\ (In(a) <=> record[a] = "published")
    BY <1>0, <2>1 DEF In, Followed
  <2>4. plans \in Nat /\ \A action, a : <<saved'.id, action, a>> \notin seen
    BY <1>0, <2>1 DEF Hooked, HandInv, HandTyped
  <2>5. saved'.id # 0 /\ landed = {} /\ copies = [r \in Chapter |-> 0]
    BY <1>0, <2>1, <2>4 DEF Followed
  <2> QED
    BY <2>1, <2>2, <2>3, <2>4, <2>5 DEF Followed
<1>4. CASE H!Complete
  <2>1. /\ UNCHANGED <<landed, copies, library, seen, record>> /\ run.pc = "retire" /\ ~run.failed
        /\ run.retire = {} /\ saved' = H!NoPlan
    BY <1>4 DEF H!Complete
  <2>2. run'.pc \in {"off", "plan"}
    <3>1. [H!Off EXCEPT !.pc = "plan", !.attempt = 2, !.selected = run.selected].pc = "plan"
      BY HandConstants DEF Deliverer
    <3> QED
      BY <1>4, <3>1, HandConstants DEF H!Complete
  <2>3. saved.id # 0 /\ saved'.id = 0 /\ H!Retirements(saved.editions) = {}
        /\ \A r \in Chapter : H!Covered(r, saved.editions)
    BY <1>0, <2>1, HandConstants DEF UnderWay, Carrying
  <2>4. \A a \in H!Artifact : record[a] = "published" <=> Current(a)
    <3> SUFFICES ASSUME NEW a \in H!Artifact PROVE record[a] = "published" <=> Current(a)
      OBVIOUS
    <3>1. record[a] = "published" => Current(a)
      BY <2>3 DEF H!Retirements, H!Published, Current
    <3>2. record[<<a[1], saved.editions[a[1]]>>] = "published"
      BY <2>3, HandConstants DEF H!Covered, H!Published
    <3> QED
      BY <3>1, <3>2, HandConstants DEF Current
  <2>5. \A a \in H!Artifact : In(a) <=> record[a] = "published"
    BY <1>0, <2>3, <2>4 DEF Followed
  <2>6. \A a \in H!Artifact : In(a)' <=> In(a)
    BY <2>1 DEF In
  <2> QED
    BY <1>0, <2>1, <2>2, <2>3, <2>5, <2>6 DEF Followed
<1>5. ASSUME NEW r \in Chapter, H!Mark(r) \/ H!Copy(r) \/ H!CopyFails(r) PROVE FALSE
  BY <1>0, <1>5 DEF H!Mark, H!Copy, H!CopyFails, UnderWay
<1>6. ASSUME NEW r \in Chapter, r \in run.todo, run.pc = "deliver"
      PROVE  /\ H!Planned(r) = <<r, saved.editions[r]>> /\ H!Planned(r) \in H!Artifact
             /\ Current(H!Planned(r)) /\ record[H!Planned(r)] # "published" /\ saved.id # 0
  <2>1. /\ ~H!Covered(r, saved.editions) /\ saved.id # 0
        /\ H!Planned(r) = <<r, saved.editions[r]>> /\ H!Planned(r) \in H!Artifact
    BY <1>0, <1>6, SavedPlanIsPlan DEF UnderWay, Carrying
  <2> QED
    BY <2>1, HandConstants DEF H!Covered, H!Published, Current
<1>7. ASSUME NEW r \in Chapter, H!Call(r) \/ H!CallFails(r) PROVE Followed'
  <2> DEFINE a == H!Planned(r)
  <2>1. /\ a = <<r, saved.editions[r]>> /\ a \in H!Artifact /\ Current(a) /\ record[a] # "published"
        /\ saved.id # 0 /\ run.pc = "deliver" /\ run.pc \in Carrying
    BY <1>6, <1>7 DEF H!Call, H!CallFails, Carrying
  <2> HIDE DEF a
  <2>2. UNCHANGED <<landed, copies, saved>>
    BY <1>7 DEF H!Call, H!CallFails
  <2>3. \A b \in H!Artifact : (record'[b] = "published" <=> record[b] = "published") /\ (Current(b)' <=> Current(b))
    <3>1. record' \in {record, [record EXCEPT ![a] = "failed"]}
      BY <1>7 DEF H!Call, H!CallFails, a
    <3> QED
      BY <1>0, <2>1, <2>2, <3>1 DEF Current
  <2>4. CASE H!Apply("publish", a)
    <3>1. \A b \in H!Artifact :
            /\ In(b)' => Current(b) \/ record[b] = "published"
            /\ record[b] = "published" /\ Current(b) => In(b)'
            /\ <<saved.id, "publish", b>> \in seen' => In(b)' /\ Current(b)
            /\ <<saved.id, "supersede", b>> \in seen' => ~In(b)' /\ ~Current(b)
            /\ b = a => In(b)'
      BY <2>1, <2>4, EventKeeps
    <3>2. run'.pc = "deliver" \/ (run'.pc = "record" /\ run'.at = {r})
      BY <1>0, <1>7, <2>1 DEF H!Call, H!CallFails, Deliverer
    <3>3. In(<<r, saved.editions[r]>>)'
      BY <2>1, <2>2, <3>1 DEF In
    <3>4. \A s \in Chapter : {r} = {s} => s = r
      OBVIOUS
    <3> QED
      BY <1>0, <2>1, <2>2, <2>3, <3>1, <3>2, <3>3, <3>4 DEF Followed
  <2>5. CASE ~H!Apply("publish", a)
    <3>1. UNCHANGED <<library, seen>> /\ run'.pc = "deliver"
      BY <1>0, <1>7, <2>1, <2>5 DEF H!Call, H!CallFails, Deliverer, a
    <3>2. \A b \in H!Artifact : In(b)' <=> In(b)
      BY <3>1 DEF In
    <3> QED
      BY <1>0, <2>1, <2>2, <2>3, <3>1, <3>2 DEF Followed
  <2> QED
    BY <2>4, <2>5
<1>8. ASSUME NEW r \in Chapter, H!Record(r) PROVE Followed'
  <2>1. /\ H!Planned(r) = <<r, saved.editions[r]>> /\ H!Planned(r) \in H!Artifact /\ saved.id # 0
        /\ run.pc = "record" /\ run.at = {r} /\ UNCHANGED <<landed, copies, library, seen, saved>>
    BY <1>0, <1>8, SavedPlanIsPlan DEF H!Record, Carrying, UnderWay
  <2>2. In(H!Planned(r)) /\ Current(H!Planned(r))
    BY <1>0, <2>1 DEF Followed, Current
  <2>3. run'.pc = "deliver"
    BY <1>0, <1>8 DEF H!Record, Deliverer
  <2>4. \A b \in H!Artifact : /\ (In(b)' <=> In(b)) /\ (Current(b)' <=> Current(b))
                              /\ record'[b] = "published" <=> (record[b] = "published" \/ b = H!Planned(r))
    BY <1>0, <1>8, <2>1 DEF H!Record, In, Current
  <2> QED
    BY <1>0, <2>1, <2>2, <2>3, <2>4 DEF Followed
<1>9. ASSUME NEW a \in H!Artifact, a \in run.retire, run.pc \in {"retire", "superseded"}
      PROVE  saved.id # 0 /\ ~Current(a) /\ record[a] = "published"
  BY <1>0, <1>9 DEF UnderWay, Carrying, H!Retirements, H!Published, Current
<1>10. ASSUME NEW a \in H!Artifact, H!Supersede(a) \/ H!SupersedeFails(a) PROVE Followed'
  <2>1. /\ saved.id # 0 /\ ~Current(a) /\ record[a] = "published" /\ run.pc = "retire" /\ run.pc \in Carrying
        /\ UNCHANGED <<landed, copies, saved, record>>
    BY <1>9, <1>10 DEF H!Supersede, H!SupersedeFails, Carrying
  <2>2. \A b \in H!Artifact : Current(b)' <=> Current(b)
    BY <2>1 DEF Current
  <2>3. CASE H!Apply("supersede", a)
    <3>1. \A b \in H!Artifact :
            /\ In(b)' => Current(b) \/ record[b] = "published"
            /\ record[b] = "published" /\ Current(b) => In(b)'
            /\ <<saved.id, "publish", b>> \in seen' => In(b)' /\ Current(b)
            /\ <<saved.id, "supersede", b>> \in seen' => ~In(b)' /\ ~Current(b)
            /\ b = a => ~In(b)'
      BY <2>1, <2>3, EventKeeps
    <3>2. run'.pc = "retire" \/ (run'.pc = "superseded" /\ run'.at = {a})
      BY <1>0, <1>10, <2>1 DEF H!Supersede, H!SupersedeFails, Deliverer
    <3>3. \A b \in H!Artifact : {a} = {b} => b = a
      OBVIOUS
    <3> QED
      BY <1>0, <2>1, <2>2, <3>1, <3>2, <3>3 DEF Followed
  <2>4. CASE ~H!Apply("supersede", a)
    <3>1. UNCHANGED <<library, seen>> /\ run'.pc = "retire"
      BY <1>0, <1>10, <2>1, <2>4 DEF H!Supersede, H!SupersedeFails, Deliverer
    <3> QED
      BY <1>1, <2>1, <3>1
  <2> QED
    BY <2>3, <2>4
<1>11. ASSUME NEW a \in H!Artifact, H!RecordSuperseded(a) PROVE Followed'
  <2>1. /\ run.pc = "superseded" /\ run.at = {a} /\ UNCHANGED <<landed, copies, library, seen, saved>>
    BY <1>11 DEF H!RecordSuperseded
  <2>2. ~In(a) /\ saved.id # 0 /\ a \in run.retire
    BY <1>0, <2>1 DEF Followed, UnderWay, Carrying
  <2>3. run'.pc = "retire" /\ ~Current(a)
    BY <1>0, <1>9, <1>11, <2>1, <2>2 DEF H!RecordSuperseded, Deliverer
  <2>4. \A b \in H!Artifact : /\ (In(b)' <=> In(b)) /\ (Current(b)' <=> Current(b))
                              /\ record'[b] = "published" <=> (record[b] = "published" /\ b # a)
    BY <1>0, <1>11, <2>1 DEF H!RecordSuperseded, In, Current
  <2> QED
    BY <1>0, <2>1, <2>2, <2>3, <2>4 DEF Followed
<1>12. ASSUME (\E r \in Chapter, v \in Edition : H!Correct(r, v)) \/ (\E n \in H!Name : H!Take(n)) PROVE Followed'
  BY <1>1, <1>12 DEF H!Correct, H!Take
<1> QED
  BY <1>2, <1>3, <1>4, <1>5, <1>7, <1>8, <1>10, <1>11, <1>12 DEF H!Next

LEMMA HandInvStays == NamesAssumption /\ HandInv /\ [H!Next]_(H!vars) => HandInv'
<1> SUFFICES ASSUME NamesAssumption, HandInv, [H!Next]_(H!vars) PROVE HandInv'
  OBVIOUS
<1>1. CASE H!Next
  BY <1>1, HandTypedStays, UnderWayStays, DroppedStays, HookedStays, FollowedStays DEF HandInv
<1>2. CASE UNCHANGED H!vars
  <2>1. HandTyped'
    BY <1>2 DEF H!vars, H!catalog, H!watched, H!hook, HandInv, HandTyped
  <2>2. UnderWay'
    BY <1>2, CoverStays DEF H!vars, H!catalog, H!watched, H!hook, HandInv, HandTyped, UnderWay, Deliverer
  <2>3. Dropped' /\ Hooked' /\ Followed'
    BY <1>2 DEF H!vars, H!catalog, H!watched, H!hook, HandInv, Dropped, Hooked, Followed, Taken, Current, In
  <2> QED
    BY <2>1, <2>2, <2>3 DEF HandInv
<1> QED
  BY <1>1, <1>2

(* A watched folder gets each chapter once and in one edition, however     *)
(* often a correction comes and a delivery fails; a command ends with what *)
(* the records say and applies nothing twice for one plan.                 *)
THEOREM HandOffsAreTold == H!Spec => []HandOffsTold
<1> USE NamesAssumption
<1>1. H!Init => HandInv
  <2> SUFFICES ASSUME H!Init PROVE HandInv
    OBVIOUS
  <2>1. HandTyped
    BY HandConstants DEF H!Init, HandTyped, Statuses, PlanSet
  <2>2. UnderWay /\ Dropped
    BY HandConstants DEF H!Init, UnderWay, Dropped, Carrying
  <2>3. Hooked /\ Followed
    BY HandConstants DEF H!Init, Hooked, Followed, In
  <2> QED
    BY <2>1, <2>2, <2>3 DEF HandInv
<1>2. HandInv => HandOffsTold
  <2> SUFFICES ASSUME HandInv PROVE HandOffsTold
    OBVIOUS
  <2>1. kind \in {"drop", "exec"} /\ library \in [H!Name -> SUBSET H!Artifact]
    BY DEF HandInv, HandTyped, Kinds
  <2>2. H!HandedOnce /\ H!OneEdition
    BY <2>1 DEF HandInv, HandTyped, Dropped, Followed, H!HandedOnce, H!OneEdition
  <2>3. H!HookOnce
    BY DEF HandInv, Hooked, H!HookOnce
  <2>4. H!HookFollows
    <3> SUFFICES ASSUME saved.id = 0, kind = "exec"
                 PROVE  UNION {library[n] : n \in H!Name} = H!Published
      BY DEF H!HookFollows
    <3>1. \A a \in H!Artifact : In(a) <=> record[a] = "published"
      BY DEF HandInv, Followed
    <3>2. ASSUME NEW n \in H!Name, NEW a \in library[n] PROVE a \in H!Published
      <4>1. a \in H!Artifact /\ In(a)
        BY <2>1, <3>2 DEF HandInv, Hooked, In
      <4> QED
        BY <3>1, <4>1 DEF H!Published
    <3>3. ASSUME NEW a \in H!Published PROVE \E n \in H!Name : a \in library[n]
      BY <3>1, HandConstants DEF H!Published, In
    <3> QED
      BY <3>2, <3>3
  <2> QED
    BY <2>2, <2>3, <2>4 DEF HandOffsTold
<1> QED
  BY <1>1, <1>2, HandInvStays, PTL DEF H!Spec

-----------------------------------------------------------------------------
(* Validator, for every set of callers and however many processes, deaths  *)
(* and timeouts there are.                                                 *)

Places == {"new", "begun", "asked", "done"}
Outcomes == {"valid", "invalid", "no command", "not started", "validator failed", "timed out", "cancelled"}

ValidatorTyped ==
    /\ sound \in [Caller -> BOOLEAN] /\ at \in [Caller -> Places]
    /\ attempt \in [Caller -> {1, 2}] /\ result \in [Caller -> Outcomes \cup {None}]
    /\ lock \in Caller \cup {None} /\ process \in Nat \cup {None}
    /\ started \in Nat /\ generation \in Nat
    /\ running \subseteq {process} /\ None \notin running

(* Who is between begin and end holds the lock, and nobody else; the queue *)
(* is what the holder asked of a process that runs, and nothing more.      *)
ValidatorInv ==
    /\ ValidatorTyped
    /\ \A c \in Caller : at[c] \in {"begun", "asked"} <=> lock = c
    /\ \A c \in Caller : at[c] = "asked" => process # None
    /\ queue = IF lock # None /\ at[lock] = "asked" /\ process \in running THEN <<lock>> ELSE <<>>
    /\ \A c \in Caller : at[c] # "done" => result[c] = None
    /\ \A c \in Caller : at[c] = "new" => attempt[c] = 1
    /\ \A c \in Caller : lock = c /\ attempt[c] = 2 => process = None \/ process \in running \/ c \in died
    /\ \A c \in Caller : (result[c] = "valid" => sound[c]) /\ (result[c] = "invalid" => ~sound[c])
    /\ V!IdleDeathUnseen /\ V!IdleWatchedIfFound

LEMMA NoOutcome == None \notin Caller /\ None \notin Nat /\ None \notin Outcomes
BY NoneOfThese DEF Outcomes

(* A queue of one.                                                         *)
LEMMA OneAsked ==
  ASSUME NEW c \in Caller
  PROVE  Append(<<>>, c) = <<c>> /\ Head(<<c>>) = c /\ Tail(<<c>>) = <<>>
<1>1. <<>> \in Seq(Caller) /\ <<c>> \in Seq(Caller) /\ <<c>> # <<>> /\ Len(<<c>>) = 1 /\ <<c>>[1] = c
  OBVIOUS
<1>2. Append(<<>>, c) = <<c>>
  <2>1. /\ Append(<<>>, c) \in Seq(Caller) /\ Len(Append(<<>>, c)) = 1 /\ Append(<<>>, c)[1] = c
    BY <1>1, AppendProperties
  <2> QED
    BY <1>1, <2>1, SeqEqual
<1>3. Tail(<<c>>) \in Seq(Caller) /\ Len(Tail(<<c>>)) = 0
  BY <1>1, HeadTailProperties
<1> QED
  BY <1>1, <1>2, <1>3, EmptySeq

LEMMA ValidatorTypedStays ==
  ASSUME ValidatorInv, V!Next PROVE ValidatorTyped'
<1>00. generation + 1 \in Nat /\ started + 1 \in Nat
  BY DEF ValidatorInv, ValidatorTyped
<1>01. started + 1 # None
  BY <1>00, NoOutcome, Zenon
<1>0. ValidatorTyped
  BY DEF ValidatorInv
<1> USE NoOutcome DEF V!Holds, V!Trouble, V!calls, V!idling, V!Return, V!Stop, ValidatorTyped, Places, Outcomes
<1>1. ASSUME NEW c \in Caller, V!Lock(c) PROVE ValidatorTyped'
  <2>1. UNCHANGED <<sound, attempt, process, running, started>> /\ generation' = generation + 1
    BY <1>1 DEF V!Lock
  <2>2. /\ at' \in {[at EXCEPT ![c] = "begun"], [at EXCEPT ![c] = "done"]}
        /\ result' \in {result, [result EXCEPT ![c] = "no command"]} /\ lock' \in {c, None}
    BY <1>1 DEF V!Lock
  <2>3. /\ at' \in [Caller -> Places] /\ result' \in [Caller -> Outcomes \cup {None}]
        /\ lock' \in Caller \cup {None}
    BY <1>0, <2>2
  <2> QED
    BY <1>0, <1>00, <2>1, <2>3
<1>2. ASSUME NEW c \in Caller, V!Start(c) PROVE ValidatorTyped'
  <2>1. running = {}
    BY <1>0, <1>2 DEF V!Start
  <2>2. process' = started + 1 /\ running' = {started + 1} /\ started' = started + 1
    BY <1>2, <2>1 DEF V!Start
  <2>3. started + 1 \in Nat /\ started + 1 # None
    BY <1>00, <1>01
  <2> QED
    BY <1>0, <1>2, <2>2, <2>3 DEF V!Start
<1>3. ASSUME NEW c \in Caller, V!StartFails(c) PROVE ValidatorTyped'
  BY <1>0, <1>3 DEF V!StartFails
<1>4. ASSUME NEW c \in Caller, V!Ask(c) PROVE ValidatorTyped'
  BY <1>0, <1>4 DEF V!Ask
<1>5. ASSUME NEW c \in Caller, V!Answer(c) PROVE ValidatorTyped'
  BY <1>0, <1>5 DEF V!Answer
<1>6. ASSUME NEW c \in Caller, V!NoAnswer(c) PROVE ValidatorTyped'
  BY <1>0, <1>6 DEF V!NoAnswer
<1>7. ASSUME NEW c \in Caller, V!PartialAnswer(c) PROVE ValidatorTyped'
  BY <1>0, <1>7 DEF V!PartialAnswer
<1>8. ASSUME NEW c \in Caller, V!GiveUp(c, "timed out") \/ V!GiveUp(c, "cancelled") PROVE ValidatorTyped'
  BY <1>0, <1>8 DEF V!GiveUp
<1>9. CASE V!TimerFires
  BY <1>0, <1>9 DEF V!TimerFires
<1>10. ASSUME NEW g \in fired, V!IdleStop(g) PROVE ValidatorTyped'
  BY <1>0, <1>10 DEF V!IdleStop
<1>11. CASE V!Dies
  BY <1>0, <1>11 DEF V!Dies
<1>12. ASSUME NEW here \in BOOLEAN, V!Install(here) PROVE ValidatorTyped'
  BY <1>0, <1>12 DEF V!Install
<1> QED
  BY <1>1, <1>2, <1>3, <1>4, <1>5, <1>6, <1>7, <1>8, <1>9, <1>10, <1>11, <1>12 DEF V!Next

(* A call that lets go of the lock leaves the validator idle and watched,  *)
(* or stopped.                                                             *)
LEMMA ValidatorStays ==
  ASSUME ValidatorInv, ValidatorTyped', V!Next PROVE ValidatorInv'
<1>01. \A c \in Caller : (attempt[c] = 1 \/ attempt[c] = 2) /\ (attempt[c] = 2 => attempt[c] # 1)
  BY DEF ValidatorInv, ValidatorTyped
<1>02. \A c \in Caller : at[c] = "new" => attempt[c] # 2
  BY <1>01 DEF ValidatorInv
<1> USE NoOutcome DEF V!Holds, V!Trouble, V!calls, V!idling, V!Return, V!Stop
<1>0. ValidatorTyped
  BY DEF ValidatorInv
<1> USE DEF ValidatorTyped, ValidatorInv, V!IdleDeathUnseen, V!IdleWatchedIfFound, V!IdleWatched
<1>1. ASSUME NEW c \in Caller, V!Lock(c) PROVE ValidatorInv'
  <2>1. CASE present
    <3>1. /\ lock = None /\ at[c] = "new" /\ lock' = c /\ at' = [at EXCEPT ![c] = "begun"] /\ queue = <<>>
          /\ UNCHANGED <<sound, attempt, result, process, running, queue, died>> /\ result[c] = None
      BY <1>0, <1>1, <2>1 DEF V!Lock
    <3>2. attempt[c] = 2 => process = None \/ process \in running \/ c \in died
      BY <1>02, <3>1
    <3> QED
      BY <1>0, <3>1, <3>2
  <2>2. CASE ~present
    <3>1. /\ lock = None /\ at[c] = "new" /\ lock' = None /\ at' = [at EXCEPT ![c] = "done"]
          /\ result' = [result EXCEPT ![c] = "no command"]
          /\ UNCHANGED <<sound, attempt, process, running, queue, died>> /\ result[c] = None
      BY <1>0, <1>1, <2>2 DEF V!Lock
    <3> QED
      BY <1>0, <3>1
  <2> QED
    BY <2>1, <2>2
<1>2. ASSUME NEW c \in Caller, V!Start(c) PROVE ValidatorInv'
  BY <1>0, <1>2 DEF V!Start
<1>3. ASSUME NEW c \in Caller, V!StartFails(c) PROVE ValidatorInv'
  BY <1>0, <1>3 DEF V!StartFails
<1>4. ASSUME NEW c \in Caller, V!Ask(c) PROVE ValidatorInv'
  <2>1. /\ lock = c /\ at[c] = "begun" /\ at' = [at EXCEPT ![c] = "asked"] /\ process # None
        /\ UNCHANGED <<sound, attempt, result, lock, process, running, generation, timer, fired, died>>
    BY <1>4 DEF V!Ask
  <2>2. queue = <<>> /\ queue' = IF process \in running THEN Append(queue, c) ELSE queue
    BY <1>0, <1>4, <2>1 DEF V!Ask
  <2>3. queue' = IF process \in running THEN <<c>> ELSE <<>>
    BY <2>2, OneAsked
  <2> QED
    BY <1>0, <2>1, <2>3
<1>5. ASSUME NEW c \in Caller, V!Answer(c) PROVE ValidatorInv'
  <2>1. lock = c /\ at[c] = "asked" /\ process \in running /\ queue = <<c>>
    BY <1>0, <1>5 DEF V!Answer
  <2>2. Head(queue) = c /\ Tail(queue) = <<>>
    BY <2>1, OneAsked
  <2>3. /\ at' = [at EXCEPT ![c] = "done"] /\ lock' = None /\ queue' = <<>> /\ timer' = generation
        /\ result' = [result EXCEPT ![c] = IF sound[c] THEN "valid" ELSE "invalid"]
        /\ UNCHANGED <<sound, attempt, process, running, generation, fired, died>>
    BY <1>5, <2>2 DEF V!Answer
  <2>4. \A b \in Caller : b # c => at'[b] = at[b] /\ result'[b] = result[b]
    BY <1>0, <2>3
  <2>5. at'[c] = "done" /\ result'[c] = IF sound[c] THEN "valid" ELSE "invalid"
    BY <1>0, <2>3
  <2>6. \A b \in Caller : /\ result'[b] = "valid" => sound'[b]
                          /\ result'[b] = "invalid" => ~sound'[b]
                          /\ result'[b] = "validator failed" => b \in died'
    <3>1. sound' = sound /\ died' = died
      BY <2>3
    <3> SUFFICES ASSUME NEW b \in Caller
                 PROVE  /\ result'[b] = "valid" => sound'[b]
                        /\ result'[b] = "invalid" => ~sound'[b]
                        /\ result'[b] = "validator failed" => b \in died'
      OBVIOUS
    <3>2. CASE b = c
      BY <2>5, <3>1, <3>2
    <3>3. CASE b # c
      BY <2>4, <3>1, <3>3
    <3> QED
      BY <3>2, <3>3
  <2>7. V!IdleWatchedIfFound'
    BY <2>3
  <2> QED
    BY <1>0, <2>1, <2>3, <2>4, <2>5, <2>6, <2>7
<1>6. ASSUME NEW c \in Caller, V!NoAnswer(c) PROVE ValidatorInv'
  <2>1. lock = c /\ at[c] = "asked" /\ process # None /\ process \notin running
    BY <1>6 DEF V!NoAnswer
  <2>2. /\ process' = None /\ running' = running \ {process} /\ queue' = <<>>
        /\ UNCHANGED <<sound, died, generation, fired>>
    BY <1>6 DEF V!NoAnswer
  <2>3. CASE attempt[c] = 1
    <3>1. /\ attempt' = [attempt EXCEPT ![c] = 2] /\ at' = [at EXCEPT ![c] = "begun"]
          /\ UNCHANGED <<result, lock>>
      BY <1>6, <2>3 DEF V!NoAnswer
    <3> QED
      BY <1>0, <2>1, <2>2, <3>1
  <2>4. CASE attempt[c] = 2
    <3>1. /\ at' = [at EXCEPT ![c] = "done"] /\ result' = [result EXCEPT ![c] = "validator failed"]
          /\ lock' = None /\ attempt' = attempt
      BY <1>01, <1>6, <2>4 DEF V!NoAnswer
    <3>2. c \in died
      BY <1>0, <2>1, <2>4
    <3> QED
      BY <1>0, <2>1, <2>2, <3>1, <3>2
  <2> QED
    BY <1>0, <2>3, <2>4
<1>7. ASSUME NEW c \in Caller, V!PartialAnswer(c) PROVE ValidatorInv'
  BY <1>0, <1>7 DEF V!PartialAnswer
<1>8. ASSUME NEW c \in Caller, V!GiveUp(c, "timed out") \/ V!GiveUp(c, "cancelled") PROVE ValidatorInv'
  <2>1. /\ lock = c /\ at[c] = "asked" /\ lock' = None /\ at' = [at EXCEPT ![c] = "done"]
        /\ process' = None /\ running' = running \ {process} /\ queue' = <<>>
        /\ UNCHANGED <<sound, attempt, died>>
        /\ \E why \in {"timed out", "cancelled"} : result' = [result EXCEPT ![c] = why]
    BY <1>8 DEF V!GiveUp
  <2> QED
    BY <1>0, <2>1
<1>9. CASE V!TimerFires
  BY <1>0, <1>9 DEF V!TimerFires
<1>10. ASSUME NEW g \in fired, V!IdleStop(g) PROVE ValidatorInv'
  BY <1>0, <1>10 DEF V!IdleStop
<1>11. CASE V!Dies
  BY <1>0, <1>11 DEF V!Dies
<1>12. ASSUME NEW here \in BOOLEAN, V!Install(here) PROVE ValidatorInv'
  BY <1>0, <1>12 DEF V!Install
<1> QED
  BY <1>1, <1>2, <1>3, <1>4, <1>5, <1>6, <1>7, <1>8, <1>9, <1>10, <1>11, <1>12 DEF V!Next

(* A caller gets its own verdict or a failure with a cause of its own, and *)
(* no process outlives its use unwatched while the command can be found.   *)
THEOREM VerdictsAreTheirOwn == V!Spec => []VerdictsHold
<1>1. V!Init => ValidatorInv
  <2> SUFFICES ASSUME V!Init PROVE ValidatorInv
    OBVIOUS
  <2>1. ValidatorTyped
    BY NoOutcome DEF V!Init, ValidatorTyped, Places
  <2>2. None \notin {"valid", "invalid", "validator failed"}
    BY NoOutcome DEF Outcomes
  <2>3. \A c \in Caller : result[c] \notin {"valid", "invalid"}
    BY <2>2 DEF V!Init
  <2>4. V!IdleDeathUnseen /\ V!IdleWatchedIfFound
    BY <2>2 DEF V!Init, V!IdleDeathUnseen, V!IdleWatchedIfFound, V!IdleWatched
  <2> QED
    BY NoOutcome, <2>1, <2>3, <2>4 DEF V!Init, ValidatorInv
<1>2. ValidatorInv /\ [V!Next]_(V!vars) => ValidatorInv'
  <2> SUFFICES ASSUME ValidatorInv, [V!Next]_(V!vars) PROVE ValidatorInv'
    OBVIOUS
  <2>1. CASE V!Next
    BY <2>1, ValidatorTypedStays, ValidatorStays
  <2>2. CASE UNCHANGED V!vars
    BY <2>2 DEF V!vars, ValidatorInv, ValidatorTyped, V!IdleDeathUnseen, V!IdleWatchedIfFound,
                V!IdleWatched
  <2> QED
    BY <2>1, <2>2
<1>3. ValidatorInv => VerdictsHold
  <2> SUFFICES ASSUME ValidatorInv PROVE VerdictsHold
    OBVIOUS
  <2>1. V!VerdictOwn
    <3> SUFFICES ASSUME NEW c \in Caller, result[c] \in {"valid", "invalid"}
                 PROVE  (result[c] = "valid") = sound[c]
      BY DEF V!VerdictOwn
    <3>1. sound[c] \in BOOLEAN
      BY DEF ValidatorInv, ValidatorTyped
    <3>2. CASE sound[c] = TRUE
      BY <3>2 DEF ValidatorInv
    <3>3. CASE sound[c] = FALSE
      BY <3>3 DEF ValidatorInv
    <3> QED
      BY <3>1, <3>2, <3>3
  <2> QED
    BY <2>1 DEF ValidatorInv, ValidatorTyped, VerdictsHold, V!VerdictsHold, V!NoneLeftBehind
<1> QED
  BY <1>1, <1>2, <1>3, PTL DEF V!Spec
-----------------------------------------------------------------------------
(* Captures, for one run at a time, and every set of revisions and of      *)
(* attachments, every number of edits and of mishaps.                      *)

Image == {Picture, Torn}
Artwork == {<<"picture">>} \cup ({"capture", "asset"} \X Image)
Described == [of : Revision, picture : Image \cup {None}, home : {"capture", "asset"}]
CaptureSteps == {"off", "picture", "capture", "enrich", "row", "prepare", "payload", "manifest",
               "inspect", "keep", "render", "save", "write"}
CaptureRuns == [pc : CaptureSteps, kind : {"sync", "dump", "rebuild", "enrich"}, text : Revision,
          file : Attachment \cup {None}, meta : Described, shows : C!Contents \cup {Absent, None},
          at : C!Place \cup {<<>>}, bytes : C!Contents \cup {None}, then : CaptureSteps]
CapturedReleases == [text : Revision, file : Attachment, shows : C!Contents \cup {Absent, None}, meta : Described]

CapturesTyped ==
    /\ post \in Revision /\ served \in [Revision -> Attachment]
    /\ sent \subseteq Revision \X Attachment
    /\ disk \in [C!Place -> C!Contents \cup {Absent}]
    /\ disk[<<"picture">>] \in Image \cup {Absent}
    /\ rows \in [Revision -> Described \cup {None}]
    /\ release \in CapturedReleases \cup {None}
    /\ taking \in [Process -> CaptureRuns]

(* The run has a file, one the site sent for the revision it works on.      *)
Sent(w) == w.file \in Attachment /\ <<w.text, w.file>> \in sent

(* What a run knows at each step.                                           *)
Knows(w) ==
    /\ w.pc \in {"payload", "manifest", "inspect", "keep", "render", "save"} => Sent(w)
    /\ w.pc = "render" => disk[<<"input", w.file>>] = w.file
    /\ w.pc = "save" => w.shows = w.file
    /\ w.pc = "capture" => w.meta.picture # None
    /\ w.pc \in {"picture", "capture", "enrich", "row", "keep", "render", "save", "write"} => w.kind # "dump"
    /\ w.kind # "dump" => w.meta.of = w.text

(* What it writes: the input of its own file, or artwork.                   *)
Writes(w) ==
    w.pc = "write" =>
      \/ /\ w.at = <<"input", w.file>> /\ w.bytes = w.file /\ w.then = "render"
         /\ Sent(w)
      \/ /\ w.at \in Artwork /\ w.bytes \in Image /\ w.then \in {"capture", "enrich", "row"}
         /\ w.then = "capture" => w.meta.picture # None

CapturesInv ==
    /\ CapturesTyped
    /\ \A p \in Process : Knows(taking[p]) /\ Writes(taking[p])
    /\ \A t \in Revision, b \in Attachment : disk[<<"payload", t, b>>] = b => <<t, b>> \in sent
    /\ \A t \in Revision : rows[t] # None => rows[t].of = t
    /\ release # None => /\ release.shows = release.file
                         /\ <<release.text, release.file>> \in sent
                         /\ release.meta.of = release.text

(* A change of some of a run's fields keeps its type.                      *)
LEMMA CaptureUpdates ==
  ASSUME NEW w \in CaptureRuns
  PROVE  /\ \A l \in CaptureSteps : [w EXCEPT !.pc = l] \in CaptureRuns
         /\ \A l \in CaptureSteps, f \in Attachment : [w EXCEPT !.pc = l, !.file = f] \in CaptureRuns
         /\ \A l \in CaptureSteps, x \in Image \cup {None} : [w EXCEPT !.pc = l, !.meta.picture = x] \in CaptureRuns
         /\ \A l \in CaptureSteps, x \in C!Contents \cup {Absent, None} :
               [w EXCEPT !.pc = l, !.shows = x] \in CaptureRuns
         /\ \A l, m \in CaptureSteps, f \in C!Place, b \in C!Contents :
               [w EXCEPT !.pc = l, !.at = f, !.bytes = b, !.then = m] \in CaptureRuns
<1>1. ASSUME NEW x \in Image \cup {None} PROVE [w.meta EXCEPT !.picture = x] \in Described
  BY DEF CaptureRuns, Described
<1> QED
  BY <1>1 DEF CaptureRuns

(* Where things are.                                                        *)
LEMMA CapturePlaces ==
  /\ \A b \in Attachment : <<"input", b>> \in C!Place
  /\ \A t \in Revision, b \in Attachment : <<"payload", t, b>> \in C!Place
  /\ \A t \in Revision : <<"manifest", t>> \in C!Place
  /\ Artwork \subseteq C!Place
  /\ \A f \in Artwork, b \in Attachment, t \in Revision :
        f # <<"input", b>> /\ f # <<"payload", t, b>> /\ f # <<"manifest", t>>
  /\ \A f \in Artwork : f[1] # "input"
  /\ \A b, c \in Attachment, t \in Revision :
        <<"input", b>> # <<"payload", t, c>> /\ <<"manifest", t>> # <<"payload", t, c>>
        /\ <<"input", b>> # <<"picture">>
  /\ \A b \in Attachment, t, u \in Revision : <<"manifest", u>> # <<"payload", t, b>>
        /\ <<"manifest", u>> # <<"input", b>>
BY DEF C!Place, Artwork, Image

(* One run at a time: with two, one renders the input the other writes.     *)
OneRun == \A p, q \in Process : p = q

(* A payload that is whole was sent, for its revision; what the places hold. *)
Filed == \A t \in Revision, b \in Attachment : disk[<<"payload", t, b>>] = b => <<t, b>> \in sent
CaptureDiskTyped == disk \in [C!Place -> C!Contents \cup {Absent}] /\ disk[<<"picture">>] \in Image \cup {Absent}

(* A run that is not begun knows and writes nothing.                        *)
LEMMA NothingTaken == ASSUME CapturesInv PROVE C!Idle \in CaptureRuns /\ Knows(C!Idle) /\ Writes(C!Idle)
BY ContentsAssumption DEF C!Idle, CaptureRuns, Described, CaptureSteps, C!Meta, Knows, Writes

(* A step of the run that leaves the catalog alone.                         *)
LEMMA CaptureRunMoves ==
  ASSUME CapturesInv, OneRun, NEW p \in Process, NEW w \in CaptureRuns, taking' = [taking EXCEPT ![p] = w],
         UNCHANGED <<post, served, rows, release>>, sent \subseteq sent', sent' \subseteq Revision \X Attachment,
         CaptureDiskTyped', Filed', Knows(w)', Writes(w)'
  PROVE  CapturesInv'
<1>1. \A q \in Process : taking'[q] = w
  BY DEF CapturesInv, CapturesTyped, OneRun
<1>2. taking' \in [Process -> CaptureRuns]
  BY DEF CapturesInv, CapturesTyped
<1>3. \A q \in Process : Knows(taking[q])' /\ Writes(taking[q])'
  BY <1>1 DEF Knows, Writes, Sent
<1> QED
  BY <1>2, <1>3 DEF CapturesInv, CapturesTyped, CaptureDiskTyped, Filed

(* One that writes nothing.                                                 *)
LEMMA CaptureRunLooks ==
  ASSUME CapturesInv, OneRun, NEW p \in Process, NEW w \in CaptureRuns, taking' = [taking EXCEPT ![p] = w],
         UNCHANGED <<post, served, sent, disk, rows, release>>, Knows(w), Writes(w)
  PROVE  CapturesInv'
<1>1. CaptureDiskTyped' /\ Filed' /\ sent' \subseteq Revision \X Attachment
  BY DEF CapturesInv, CapturesTyped, CaptureDiskTyped, Filed
<1>2. Knows(w)' /\ Writes(w)'
  BY DEF Knows, Writes, Sent
<1> QED
  BY <1>1, <1>2, CaptureRunMoves

(* One that truncates a file to write it.                                   *)
LEMMA CaptureRunOpens ==
  ASSUME CapturesInv, OneRun, NEW p \in Process, NEW w \in CaptureRuns, taking' = [taking EXCEPT ![p] = w],
         UNCHANGED <<post, served, sent, rows, release>>,
         w.pc = "write", w.at \in C!Place,
         disk' = [disk EXCEPT ![w.at] = Torn], Knows(w), Writes(w)
  PROVE  CapturesInv'
<1>1. CaptureDiskTyped'
  BY DEF CapturesInv, CapturesTyped, CaptureDiskTyped, Image, C!Contents
<1>2. Filed' /\ sent' \subseteq Revision \X Attachment
  BY ContentsAssumption, CapturePlaces DEF CapturesInv, CapturesTyped, Filed
<1>3. Knows(w)' /\ Writes(w)'
  BY DEF Knows, Writes, Sent
<1> QED
  BY <1>1, <1>2, <1>3, CaptureRunMoves

(* The steps of a run that only look.                                       *)
LEMMA CaptureLooksStay ==
  ASSUME CapturesInv, OneRun, NEW p \in Process,
         \/ C!Sync(p) \/ C!Dump(p) \/ C!Rebuild(p) \/ C!EnrichStored(p)
         \/ C!PictureCooling(p) \/ C!PictureCached(p) \/ C!PictureFails(p) \/ C!PictureChanged(p)
         \/ C!CacheHit(p) \/ C!DownloadFails(p) \/ C!Export(p) \/ C!Inspect(p) \/ C!Mismatch(p)
         \/ C!InputKept(p) \/ C!Render(p) \/ C!RenderFails(p) \/ C!WriteFails(p) \/ C!Dies(p)
  PROVE  CapturesInv'
<1> USE DEF C!At, C!site, C!stored
<1> DEFINE w0 == taking[p]
           Moves(w) == w \in CaptureRuns /\ taking' = [taking EXCEPT ![p] = w] /\ Knows(w) /\ Writes(w)
<1>0. taking \in [Process -> CaptureRuns] /\ w0 \in CaptureRuns /\ Knows(w0) /\ Writes(w0)
  BY DEF CapturesInv, CapturesTyped
<1>1. UNCHANGED <<post, served, sent, disk, rows, release>>
  BY DEF C!Sync, C!Dump, C!Rebuild, C!EnrichStored, C!Load, C!PictureCooling, C!PictureCached, C!PictureFails,
         C!PictureChanged, C!CacheHit, C!DownloadFails, C!Export, C!Inspect, C!Mismatch, C!InputKept,
         C!Render, C!RenderFails, C!WriteFails, C!Dies
<1> SUFFICES \E w : Moves(w)
  BY <1>1, CaptureRunLooks
<1>2. ASSUME C!Sync(p) PROVE \E w : Moves(w)
  <2> DEFINE w == [C!Idle EXCEPT !.pc = "picture", !.text = post, !.meta = C!Meta(post, None, "capture")]
  <2>1. w \in CaptureRuns
    BY NothingTaken DEF CaptureRuns, Described, C!Idle, C!Meta, CapturesInv, CapturesTyped, CaptureSteps
  <2>2. Knows(w) /\ Writes(w)
    BY DEF Knows, Writes, C!Idle, C!Meta
  <2> QED
    BY <1>2, <2>1, <2>2 DEF C!Sync
<1>3. ASSUME C!Dump(p) PROVE \E w : Moves(w)
  <2> DEFINE w == [C!Idle EXCEPT !.pc = "prepare", !.kind = "dump", !.text = post]
  <2>1. w \in CaptureRuns
    BY NothingTaken DEF CaptureRuns, C!Idle, CapturesInv, CapturesTyped, CaptureSteps
  <2>2. Knows(w) /\ Writes(w)
    BY DEF Knows, Writes, C!Idle
  <2> QED
    BY <1>3, <2>1, <2>2 DEF C!Dump
<1>4. ASSUME NEW kd \in {"rebuild", "enrich"}, NEW step \in {"inspect", "enrich"}, C!Load(p, kd, step)
      PROVE \E w : Moves(w)
  <2> DEFINE w == [C!Idle EXCEPT !.pc = step, !.kind = kd, !.text = release.text, !.file = release.file,
                                 !.meta = C!MetaOf(release)]
  <2>1. release \in CapturedReleases /\ <<release.text, release.file>> \in sent /\ release.meta.of = release.text
    BY <1>4 DEF C!Load, CapturesInv, CapturesTyped
  <2>2. C!MetaOf(release) \in Described /\ C!MetaOf(release).of = release.text
    BY <2>1 DEF C!MetaOf, C!Bound, C!Fingerprint, CapturedReleases, CapturesInv, CapturesTyped
  <2>3. w \in CaptureRuns
    BY <2>1, <2>2, NothingTaken DEF CaptureRuns, C!Idle, CapturedReleases, CaptureSteps
  <2>4. Knows(w) /\ Writes(w)
    BY <2>1, <2>2 DEF Knows, Writes, C!Idle, Sent, CapturedReleases
  <2> QED
    BY <1>4, <2>3, <2>4 DEF C!Load
<1>5. ASSUME NEW l \in {"off", "enrich", "prepare", "inspect", "keep", "render"}, C!Goto(p, l),
             l \in {"off", "prepare"} \/ (l = "enrich" /\ w0.pc = "picture")
               \/ (l = "keep" /\ w0.pc = "inspect" /\ w0.kind # "dump")
               \/ (l = "render" /\ w0.pc = "keep" /\ disk[<<"input", w0.file>>] = w0.file)
      PROVE  \E w : Moves(w)
  <2> DEFINE w == [w0 EXCEPT !.pc = l]
  <2>1. w \in CaptureRuns
    BY <1>0, CaptureUpdates DEF CaptureSteps
  <2>2. Knows(w) /\ Writes(w)
    BY <1>0, <1>5 DEF Knows, Writes, Sent, CaptureRuns
  <2>3. taking' = [taking EXCEPT ![p] = w]
    BY <1>0, <1>5 DEF C!Goto
  <2> QED
    BY <2>1, <2>2, <2>3
<1>6. ASSUME C!PictureCached(p) PROVE \E w : Moves(w)
  <2> DEFINE x == disk[<<"picture">>]
             w == [w0 EXCEPT !.pc = "capture", !.meta.picture = x]
  <2>1. x \in Image /\ x # None
    BY <1>6, ContentsAssumption DEF C!PictureCached, CapturesInv, CapturesTyped, Image
  <2>2. w \in CaptureRuns
    BY <1>0, <2>1, CaptureUpdates DEF CaptureSteps
  <2>3. Knows(w) /\ Writes(w)
    BY <1>0, <1>6, <2>1 DEF Knows, Writes, Sent, CaptureRuns, Described, C!PictureCached
  <2>4. taking' = [taking EXCEPT ![p] = w]
    BY <1>0, <1>6 DEF C!PictureCached
  <2> QED
    BY <2>2, <2>3, <2>4
<1>7. ASSUME C!CacheHit(p) PROVE \E w : Moves(w)
  <2> DEFINE b == disk[C!Manifest(p)]
             w == [w0 EXCEPT !.pc = "inspect", !.file = b]
  <2>1. b \in Attachment /\ w0.text \in Revision /\ disk[<<"payload", w0.text, b>>] = b
    BY <1>0, <1>7 DEF C!CacheHit, C!Hit, C!Payload, C!Key, CaptureRuns
  <2>2. <<w0.text, b>> \in sent
    BY <2>1 DEF CapturesInv
  <2>3. w \in CaptureRuns
    BY <1>0, <2>1, CaptureUpdates DEF CaptureSteps
  <2>4. Knows(w) /\ Writes(w)
    BY <1>0, <1>7, <2>1, <2>2 DEF Knows, Writes, Sent, CaptureRuns
  <2>5. taking' = [taking EXCEPT ![p] = w]
    BY <1>0, <1>7 DEF C!CacheHit
  <2> QED
    BY <2>3, <2>4, <2>5
<1>8. ASSUME C!Ends(p) PROVE \E w : Moves(w)
  BY <1>8, NothingTaken DEF C!Ends
<1>9. ASSUME C!Render(p) PROVE \E w : Moves(w)
  <2> DEFINE x == disk[<<"input", w0.file>>]
             w == [w0 EXCEPT !.pc = "save", !.shows = x]
  <2>1. Sent(w0) /\ x = w0.file /\ w0.kind # "dump" /\ w0.meta.of = w0.text
    BY <1>0, <1>9 DEF C!Render, Knows
  <2>2. x \in C!Contents \cup {Absent, None}
    BY <2>1 DEF Sent, C!Contents
  <2>3. w \in CaptureRuns
    BY <1>0, <2>2, CaptureUpdates DEF CaptureSteps
  <2>4. Knows(w) /\ Writes(w)
    BY <1>0, <2>1 DEF Knows, Writes, Sent, CaptureRuns
  <2>5. taking' = [taking EXCEPT ![p] = w]
    BY <1>0, <1>9 DEF C!Render
  <2> QED
    BY <2>3, <2>4, <2>5
<1>10. ASSUME C!WriteFails(p) PROVE \E w : Moves(w)
  <2> DEFINE closed == [w0 EXCEPT !.at = <<>>, !.bytes = None, !.then = "off"]
             v == [closed EXCEPT !.pc = C!After(p)]
             u == [closed EXCEPT !.pc = "enrich", !.meta.picture = None]
  <2>1. closed \in CaptureRuns /\ C!After(p) \in CaptureSteps
    BY <1>0 DEF CaptureRuns, CaptureSteps, C!After
  <2>2. v \in CaptureRuns /\ u \in CaptureRuns
    BY <2>1, CaptureUpdates DEF CaptureSteps
  <2>3. w0.pc = "write" /\ w0.kind # "dump" /\ w0.meta.of = w0.text /\ w0.meta \in Described
    BY <1>0, <1>10 DEF C!WriteFails, Knows, CaptureRuns
  <2>4. Knows(v) /\ Writes(v)
    BY <2>1, <2>3, <1>0 DEF Knows, Writes, Sent, CaptureRuns, C!After
  <2>5. Knows(u) /\ Writes(u)
    BY <2>1, <2>3, <1>0 DEF Knows, Writes, Sent, CaptureRuns, Described
  <2>6. closed = C!Closed(p)
    BY DEF C!Closed
  <2>7. taking' = [taking EXCEPT ![p] = C!Idle] \/ taking' = [taking EXCEPT ![p] = v]
        \/ taking' = [taking EXCEPT ![p] = u]
    BY <1>10, <2>6 DEF C!WriteFails
  <2> QED
    BY <2>2, <2>4, <2>5, <2>7, NothingTaken
<1>11. CASE C!Rebuild(p) \/ C!EnrichStored(p)
  BY <1>11, <1>4 DEF C!Rebuild, C!EnrichStored
<1>12. CASE C!PictureCooling(p) \/ C!PictureFails(p) \/ C!Inspect(p)
  BY <1>12, <1>5 DEF C!PictureCooling, C!PictureFails, C!Inspect
<1>13. CASE C!PictureChanged(p)
  BY <1>13, <1>5 DEF C!PictureChanged, C!After
<1>14. CASE C!InputKept(p)
  BY <1>14, <1>5 DEF C!InputKept, C!Unharmed, C!LocalPath
<1>15. CASE C!DownloadFails(p) \/ C!Export(p) \/ C!Mismatch(p) \/ C!RenderFails(p) \/ C!Dies(p)
  BY <1>15, <1>8 DEF C!DownloadFails, C!Export, C!Mismatch, C!RenderFails, C!Dies
<1> QED
  BY <1>2, <1>3, <1>6, <1>7, <1>9, <1>10, <1>11, <1>12, <1>13, <1>14, <1>15

(* The steps that truncate a file.                                          *)
LEMMA CaptureOpensStay ==
  ASSUME CapturesInv, OneRun, NEW p \in Process,
         C!PictureFetched(p) \/ C!CapturePicture(p) \/ C!KeepPicture(p) \/ C!KeepInput(p)
  PROVE  CapturesInv'
<1> USE DEF C!At, C!site, C!stored
<1> DEFINE w0 == taking[p]
           x == w0.meta.picture
           Opens(w) == /\ w \in CaptureRuns /\ taking' = [taking EXCEPT ![p] = w] /\ Knows(w) /\ Writes(w)
                       /\ w.pc = "write" /\ w.at \in C!Place /\ disk' = [disk EXCEPT ![w.at] = Torn]
<1>0. taking \in [Process -> CaptureRuns] /\ w0 \in CaptureRuns /\ Knows(w0) /\ Writes(w0)
  BY DEF CapturesInv, CapturesTyped
<1>1. UNCHANGED <<post, served, sent, rows, release>>
  BY DEF C!PictureFetched, C!CapturePicture, C!KeepPicture, C!KeepInput
<1> SUFFICES \E w : Opens(w)
  BY <1>1, CaptureRunOpens
<1>2. CASE C!PictureFetched(p)
  <2> DEFINE v == [w0 EXCEPT !.pc = "write", !.at = <<"picture">>, !.bytes = Picture, !.then = "capture"]
             w == [w0 EXCEPT !.pc = "write", !.at = <<"picture">>, !.bytes = Picture, !.then = "capture",
                             !.meta.picture = Picture]
  <2>1. v \in CaptureRuns
    BY <1>0, CaptureUpdates, CapturePlaces DEF CaptureSteps, Artwork, C!Contents
  <2>2. w = [v EXCEPT !.pc = "write", !.meta.picture = Picture]
    BY <1>0 DEF CaptureRuns
  <2>3. w \in CaptureRuns
    BY <2>1, <2>2, CaptureUpdates DEF CaptureSteps, Image
  <2>4. /\ w.pc = "write" /\ w.at = <<"picture">> /\ w.bytes = Picture /\ w.then = "capture"
        /\ w.meta.picture = Picture /\ w.meta.of = w0.meta.of
        /\ w.kind = w0.kind /\ w.text = w0.text
    BY <1>0 DEF CaptureRuns, Described
  <2>5. Knows(w)
    BY <1>0, <1>2, <2>4 DEF Knows, C!PictureFetched
  <2>6. Writes(w) /\ w.at \in C!Place
    BY <2>4, ContentsAssumption, CapturePlaces DEF Writes, Artwork, Image
  <2>7. taking' = [taking EXCEPT ![p] = w]
    BY <1>0, <1>2 DEF C!PictureFetched
  <2>8. disk' = [disk EXCEPT ![w.at] = Torn]
    BY <1>2, <2>4 DEF C!PictureFetched
  <2> QED
    BY <2>3, <2>4, <2>5, <2>6, <2>7, <2>8
<1>3. ASSUME NEW place \in C!Place, NEW b \in C!Contents, NEW l \in CaptureSteps, C!Open(p, place, b, l),
             Knows([w0 EXCEPT !.pc = "write"]),
             Writes([w0 EXCEPT !.pc = "write", !.at = place, !.bytes = b, !.then = l])
      PROVE  \E w : Opens(w)
  <2> DEFINE w == [w0 EXCEPT !.pc = "write", !.at = place, !.bytes = b, !.then = l]
  <2>0. \A k, m \in CaptureSteps, f \in C!Place, c \in C!Contents :
           [w0 EXCEPT !.pc = k, !.at = f, !.bytes = c, !.then = m] \in CaptureRuns
    BY <1>0, CaptureUpdates
  <2>1. w \in CaptureRuns
    <3>1. "write" \in CaptureSteps
      BY DEF CaptureSteps
    <3> QED
      BY <2>0, <3>1
  <2>2. Knows(w) /\ w.pc = "write" /\ w.at = place
    BY <1>0, <1>3 DEF Knows, Sent, CaptureRuns
  <2>3. taking' = [taking EXCEPT ![p] = w] /\ disk' = [disk EXCEPT ![w.at] = Torn]
    BY <1>0, <1>3, <2>2 DEF C!Open
  <2> QED
    BY <1>3, <2>1, <2>2, <2>3
<1>4. ASSUME w0.kind # "dump" PROVE Knows([w0 EXCEPT !.pc = "write"])
  BY <1>0, <1>4 DEF Knows, CaptureRuns
<1>5. CASE C!CapturePicture(p) \/ C!KeepPicture(p)
  <2>1. x \in Image /\ w0.kind # "dump"
    BY <1>0, <1>5 DEF C!CapturePicture, C!KeepPicture, Knows, CaptureRuns, Described
  <2>2. <<"capture", x>> \in Artwork /\ <<"asset", x>> \in Artwork /\ x \in C!Contents
    BY <2>1 DEF Artwork, Image, C!Contents
  <2>3. \E place \in Artwork, l \in {"enrich", "row"} : C!Open(p, place, x, l)
    BY <1>5, <2>2 DEF C!CapturePicture, C!KeepPicture
  <2>4. PICK place \in Artwork, l \in {"enrich", "row"} : C!Open(p, place, x, l)
    BY <2>3
  <2>5. Writes([w0 EXCEPT !.pc = "write", !.at = place, !.bytes = x, !.then = l])
    BY <1>0, <2>1, <2>4 DEF Writes, CaptureRuns
  <2> QED
    BY <1>3, <1>4, <2>1, <2>2, <2>4, <2>5, CapturePlaces DEF CaptureSteps
<1>6. CASE C!KeepInput(p)
  <2>1. Sent(w0) /\ w0.kind # "dump" /\ C!Open(p, <<"input", w0.file>>, w0.file, "render")
    BY <1>0, <1>6 DEF C!KeepInput, Knows
  <2>2. Writes([w0 EXCEPT !.pc = "write", !.at = <<"input", w0.file>>, !.bytes = w0.file, !.then = "render"])
    BY <1>0, <2>1 DEF Writes, Sent, CaptureRuns
  <2> QED
    BY <1>3, <1>4, <2>1, <2>2, CapturePlaces DEF CaptureSteps, Sent, C!Contents
<1> QED
  BY <1>2, <1>5, <1>6

(* Those that complete one.                                                 *)
LEMMA CaptureClosesStay ==
  ASSUME CapturesInv, OneRun, NEW p \in Process, C!Close(p)
  PROVE  CapturesInv'
<1> USE DEF C!At, C!site, C!stored
<1> DEFINE w0 == taking[p]
           closed == [w0 EXCEPT !.at = <<>>, !.bytes = None, !.then = "off"]
           w == [closed EXCEPT !.pc = w0.then]
<1>0. taking \in [Process -> CaptureRuns] /\ w0 \in CaptureRuns /\ Knows(w0) /\ Writes(w0)
  BY DEF CapturesInv, CapturesTyped
<1>1. /\ w0.pc = "write" /\ disk' = [disk EXCEPT ![w0.at] = w0.bytes]
      /\ taking' = [taking EXCEPT ![p] = w]
      /\ UNCHANGED <<post, served, sent, rows, release>>
  BY DEF C!Close, C!Closed
<1>2. w \in CaptureRuns
  <2>1. closed \in CaptureRuns
    BY <1>0 DEF CaptureRuns, CaptureSteps
  <2> QED
    BY <1>0, <2>1, CaptureUpdates DEF CaptureRuns
<1>3. PICK v \in CaptureRuns : /\ taking' = [taking EXCEPT ![p] = v]
                         /\ v.pc = w0.then /\ v.text = w0.text /\ v.file = w0.file
                         /\ v.kind = w0.kind /\ v.meta = w0.meta
  BY <1>0, <1>1, <1>2 DEF CaptureRuns
<1>4. CASE w0.at = <<"input", w0.file>> /\ w0.bytes = w0.file /\ w0.then = "render" /\ Sent(w0)
  <2>1. w0.at \in C!Place /\ w0.at # <<"picture">> /\ w0.bytes \in C!Contents
        /\ \A t \in Revision, b \in Attachment : w0.at # <<"payload", t, b>>
    BY <1>4, CapturePlaces DEF Sent, C!Contents
  <2>2. CaptureDiskTyped'
    BY <1>1, <2>1 DEF CapturesInv, CapturesTyped, CaptureDiskTyped
  <2>3. Filed' /\ sent' \subseteq Revision \X Attachment
    BY <1>1, <2>1, CapturePlaces DEF CapturesInv, CapturesTyped, Filed
  <2>4. disk'[<<"input", v.file>>] = v.file
    BY <1>1, <1>3, <1>4, <2>1 DEF CapturesInv, CapturesTyped
  <2>5. Knows(v)' /\ Writes(v)'
    BY <1>0, <1>1, <1>3, <1>4, <2>4 DEF Knows, Writes, Sent
  <2> QED
    BY <1>1, <1>3, <2>2, <2>3, <2>5, CaptureRunMoves
<1>5. CASE /\ w0.at \in Artwork /\ w0.bytes \in Image /\ w0.then \in {"capture", "enrich", "row"}
           /\ w0.then = "capture" => w0.meta.picture # None
  <2>1. /\ w0.at \in C!Place /\ w0.bytes \in C!Contents
        /\ \A t \in Revision, b \in Attachment : w0.at # <<"payload", t, b>>
        /\ <<"picture">> \in C!Place
    BY <1>5, CapturePlaces DEF Image, Artwork, C!Contents
  <2>2. CaptureDiskTyped'
    BY <1>1, <1>5, <2>1 DEF CapturesInv, CapturesTyped, CaptureDiskTyped
  <2>3. Filed' /\ sent' \subseteq Revision \X Attachment
    BY <1>1, <2>1, CapturePlaces DEF CapturesInv, CapturesTyped, Filed
  <2>5. Knows(v)' /\ Writes(v)'
    BY <1>0, <1>1, <1>3, <1>5 DEF Knows, Writes, Sent
  <2> QED
    BY <1>1, <1>3, <2>2, <2>3, <2>5, CaptureRunMoves
<1> QED
  BY <1>0, <1>1, <1>4, <1>5 DEF Writes

(* A download, and its way into the cache.                                  *)
LEMMA DownloadsStay ==
  ASSUME CapturesInv, OneRun, NEW p \in Process, C!Download(p) \/ C!WritePayload(p) \/ C!WriteManifest(p)
  PROVE  CapturesInv'
<1> USE DEF C!At, C!site, C!stored
<1> DEFINE w0 == taking[p]
<1>0. taking \in [Process -> CaptureRuns] /\ w0 \in CaptureRuns /\ Knows(w0) /\ Writes(w0)
  BY DEF CapturesInv, CapturesTyped
<1>1. CASE C!Download(p)
  <2> DEFINE b == served[w0.text]
             w == [w0 EXCEPT !.pc = "payload", !.file = b]
  <2>1. b \in Attachment /\ w0.text \in Revision
    BY <1>0 DEF CapturesInv, CapturesTyped, CaptureRuns
  <2>2. /\ taking' = [taking EXCEPT ![p] = w] /\ sent' = sent \cup {<<w0.text, b>>}
        /\ UNCHANGED <<post, served, disk, rows, release>> /\ w0.pc = "prepare"
    BY <1>0, <1>1 DEF C!Download
  <2>3. PICK v \in CaptureRuns : v = w
    BY <1>0, <2>1, CaptureUpdates DEF CaptureSteps
  <2>4. CaptureDiskTyped' /\ Filed' /\ sent \subseteq sent' /\ sent' \subseteq Revision \X Attachment
    BY <2>1, <2>2 DEF CapturesInv, CapturesTyped, CaptureDiskTyped, Filed
  <2>5. Knows(v)' /\ Writes(v)'
    BY <1>0, <2>1, <2>2, <2>3 DEF Knows, Writes, Sent, CaptureRuns
  <2> QED
    BY <2>2, <2>3, <2>4, <2>5, CaptureRunMoves
<1>2. ASSUME NEW l \in {"manifest", "inspect"}, C!Goto(p, l), w0.pc \in {"payload", "manifest"},
             NEW place \in C!Place, place # <<"picture">>, disk' = [disk EXCEPT ![place] = w0.file],
             \A t \in Revision, b \in Attachment : place = <<"payload", t, b>> => t = w0.text,
             UNCHANGED <<post, served, sent, rows, release>>
      PROVE  CapturesInv'
  <2> DEFINE w == [w0 EXCEPT !.pc = l]
  <2>1. Sent(w0) /\ w0.file \in C!Contents
    BY <1>0, <1>2 DEF Knows, Sent, C!Contents
  <2>2. PICK v \in CaptureRuns : v = w /\ taking' = [taking EXCEPT ![p] = v]
    BY <1>0, <1>2, CaptureUpdates DEF CaptureSteps, C!Goto
  <2>3. CaptureDiskTyped'
    BY <1>2, <2>1 DEF CapturesInv, CapturesTyped, CaptureDiskTyped
  <2>4. Filed' /\ sent' \subseteq Revision \X Attachment
    BY <1>2, <2>1, CapturePlaces DEF CapturesInv, CapturesTyped, Filed, Sent
  <2>5. Knows(v)' /\ Writes(v)'
    BY <1>0, <1>2, <2>1, <2>2 DEF Knows, Writes, Sent, CaptureRuns
  <2> QED
    BY <1>2, <2>2, <2>3, <2>4, <2>5, CaptureRunMoves
<1>3. CASE C!WritePayload(p)
  <2>1. w0.text \in Revision /\ w0.file \in Attachment
    BY <1>0, <1>3 DEF C!WritePayload, Knows, Sent, CaptureRuns
  <2>2. C!Payload(p, w0.file) = <<"payload", w0.text, w0.file>>
    BY DEF C!Payload, C!Key
  <2> QED
    BY <1>2, <1>3, <2>1, <2>2, CapturePlaces DEF C!WritePayload
<1>4. CASE C!WriteManifest(p)
  <2>1. w0.text \in Revision /\ C!Manifest(p) = <<"manifest", w0.text>>
    BY <1>0 DEF CaptureRuns, C!Manifest, C!Key
  <2>2. <<"manifest", w0.text>> # <<"picture">>
    OBVIOUS
  <2> QED
    BY <1>2, <1>4, <2>1, <2>2, CapturePlaces DEF C!WriteManifest
<1> QED
  BY <1>1, <1>3, <1>4

(* The metadata of the run's revision, and its release.                     *)
LEMMA CaptureSavesStay ==
  ASSUME CapturesInv, OneRun, NEW p \in Process, C!SaveReleaseEnrichment(p) \/ C!SaveSyncSnapshot(p)
  PROVE  CapturesInv'
<1> USE DEF C!At, C!site
<1> DEFINE w0 == taking[p]
<1>0. taking \in [Process -> CaptureRuns] /\ w0 \in CaptureRuns /\ Knows(w0) /\ Writes(w0)
  BY DEF CapturesInv, CapturesTyped
<1>1. CASE C!SaveReleaseEnrichment(p)
  <2> DEFINE m == C!Meta(w0.meta.of, w0.meta.picture, "asset")
             w == [w0 EXCEPT !.pc = C!After(p)]
  <2>1. /\ w0.pc \in {"row", "enrich"} /\ rows' = [rows EXCEPT ![w0.text] = m]
        /\ taking' = [taking EXCEPT ![p] = w] /\ UNCHANGED <<post, served, sent, disk, release>>
    BY <1>0, <1>1 DEF C!SaveReleaseEnrichment, C!Goto
  <2>2. m \in Described /\ m.of = w0.text /\ w0.text \in Revision
    BY <1>0, <2>1 DEF C!Meta, Knows, CaptureRuns, Described
  <2>3. C!After(p) \in {"off", "prepare"} /\ w \in CaptureRuns
    BY <1>0, CaptureUpdates DEF C!After, CaptureSteps
  <2>4. Knows(w) /\ Writes(w)
    BY <1>0, <2>3 DEF Knows, Writes, Sent, CaptureRuns
  <2>5. PICK v \in CaptureRuns : v = w /\ \A q \in Process : taking'[q] = v
    BY <1>0, <2>1, <2>3 DEF OneRun
  <2>6. CapturesTyped'
    BY <1>0, <2>1, <2>2, <2>3 DEF CapturesInv, CapturesTyped
  <2>7. \A q \in Process : Knows(taking[q])' /\ Writes(taking[q])'
    <3>1. Knows(v) /\ Writes(v)
      BY <2>4, <2>5
    <3>2. UNCHANGED <<disk, sent>> /\ \A q \in Process : taking'[q] = v
      BY <2>1, <2>5
    <3> QED
      BY <3>1, <3>2 DEF Knows, Writes, Sent
  <2>8. \A t \in Revision : rows'[t] # None => rows'[t].of = t
    BY <2>1, <2>2 DEF CapturesInv, CapturesTyped
  <2> QED
    BY <2>1, <2>6, <2>7, <2>8 DEF CapturesInv
<1>2. CASE C!SaveSyncSnapshot(p)
  <2> DEFINE made == [text |-> w0.text, file |-> w0.file, shows |-> w0.shows, meta |-> w0.meta]
  <2>1. /\ w0.pc = "save" /\ release' \in {release, made} /\ taking' = [taking EXCEPT ![p] = C!Idle]
        /\ UNCHANGED <<post, served, sent, disk, rows>>
    BY <1>2 DEF C!SaveSyncSnapshot, C!Ends
  <2>2. made \in CapturedReleases /\ made.shows = made.file /\ <<made.text, made.file>> \in sent
        /\ made.meta.of = made.text
    BY <1>0, <2>1 DEF Knows, Sent, CaptureRuns, CapturedReleases
  <2>3. \A q \in Process : taking'[q] = C!Idle
    BY <1>0, <2>1 DEF OneRun
  <2>4. CapturesTyped'
    BY <1>0, <2>1, <2>2, NothingTaken DEF CapturesInv, CapturesTyped
  <2>5. \A q \in Process : Knows(taking[q])' /\ Writes(taking[q])'
    BY <2>1, <2>3, NothingTaken DEF Knows, Writes, Sent
  <2>6. release' # None => /\ release'.shows = release'.file
                           /\ <<release'.text, release'.file>> \in sent
                           /\ release'.meta.of = release'.text
    BY <2>1, <2>2 DEF CapturesInv
  <2> QED
    BY <2>1, <2>4, <2>5, <2>6 DEF CapturesInv
<1> QED
  BY <1>1, <1>2

(* Everyone else.                                                           *)
LEMMA CaptureOthersStay ==
  ASSUME CapturesInv,
         \/ \E place \in C!Place : C!Damage(place)
         \/ C!TimePasses
         \/ \E t \in Revision : C!Edit(t) \/ \E b \in Attachment : C!Replace(t, b)
         \/ UNCHANGED C!vars
  PROVE  CapturesInv'
<1> USE DEF C!At, C!stored, C!site
<1>1. ASSUME NEW place \in C!Place, C!Damage(place) PROVE CapturesInv'
  <2>1. PICK left \in {Absent, Torn} : disk' = [disk EXCEPT ![place] = left]
    BY <1>1 DEF C!Damage
  <2>2. UNCHANGED <<post, served, sent, rows, release, taking>> /\ \A q \in Process : taking[q].pc = "off"
    BY <1>1 DEF C!Damage
  <2>3. CaptureDiskTyped' /\ Filed'
    BY <2>1, <2>2, ContentsAssumption DEF CapturesInv, CapturesTyped, CaptureDiskTyped, Filed, C!Contents, Image
  <2>4. \A q \in Process : Knows(taking[q])' /\ Writes(taking[q])'
    BY <2>2 DEF CapturesInv, Knows, Writes
  <2> QED
    BY <2>2, <2>3, <2>4 DEF CapturesInv, CapturesTyped, CaptureDiskTyped, Filed
<1>2. CASE C!TimePasses \/ UNCHANGED C!vars
  <2>1. UNCHANGED <<post, served, sent, disk, rows, release, taking>>
    BY <1>2 DEF C!TimePasses, C!vars
  <2> QED
    BY <2>1 DEF CapturesInv, CapturesTyped, Knows, Writes, Sent
<1>3. ASSUME NEW t \in Revision, C!Edit(t) PROVE CapturesInv'
  BY <1>3 DEF C!Edit, CapturesInv, CapturesTyped, Knows, Writes, Sent
<1>4. ASSUME NEW t \in Revision, NEW b \in Attachment, C!Replace(t, b) PROVE CapturesInv'
  BY <1>4 DEF C!Replace, CapturesInv, CapturesTyped, Knows, Writes, Sent
<1> QED
  BY <1>1, <1>2, <1>3, <1>4

(* With one run at a time, a copy shows, whole, what the site sent for the  *)
(* revision it is stored with, a run hands on and a dump exports nothing    *)
(* else, and the metadata stored with a release is of its revision, however *)
(* downloads and writes are cut short, attachments replaced, posts edited   *)
(* and files damaged.                                                       *)
THEOREM CapturesAreTrue ==
  ASSUME OneRun
  PROVE  C!Spec => []CapturesTrue
<1>1. C!Init => CapturesInv
  <2> SUFFICES ASSUME C!Init PROVE CapturesInv
    OBVIOUS
  <2>1. C!Idle \in CaptureRuns /\ Knows(C!Idle) /\ Writes(C!Idle)
    BY ContentsAssumption DEF C!Idle, CaptureRuns, Described, CaptureSteps, C!Meta, Knows, Writes
  <2>2. CapturesTyped
    BY <2>1, CapturePlaces, ContentsAssumption DEF C!Init, CapturesTyped, Artwork
  <2>3. \A t \in Revision, b \in Attachment : disk[<<"payload", t, b>>] # b
    BY CapturePlaces, ContentsAssumption DEF C!Init
  <2> QED
    BY <2>1, <2>2, <2>3 DEF C!Init, CapturesInv
<1>2. CapturesInv /\ [C!Next]_(C!vars) => CapturesInv'
  BY CaptureLooksStay, CaptureOpensStay, CaptureClosesStay, DownloadsStay, CaptureSavesStay, CaptureOthersStay DEF C!Next
<1>3. CapturesInv => CapturesTrue
  BY DEF CapturesInv, CapturesTrue, C!CopiesTrue, C!MetadataBound, C!At, Knows, Sent
<1> QED
  BY <1>1, <1>2, <1>3, PTL DEF C!Spec

-----------------------------------------------------------------------------
(* Records, for every set of runs, every retention and any number of days. *)

Pcs == {"off", "log", "plan", "save", "complete", "compact", "finish", "done", "dead"}
Job == [pc : Pcs, plan : Run \cup {None}]
Cleanup == [pc : {"idle", "horizon", "unlink"}, before : Int, logs : SUBSET Run, plans : SUBSET Run]

Typed ==
    /\ now \in Nat
    /\ row \in [Run -> [status : {"none", "running", "finished"}, at : Nat]]
    /\ log \in [Run -> {"none", "kept", "archived"}] /\ logged \subseteq Run
    /\ plan \in [Run -> [kind : {"none", "plan", "receipt"}, at : Nat]]
    /\ pending \in Run \cup {None} /\ horizon \in Int
    /\ job \in [Run -> Job] /\ cleanup \in Cleanup

(* A process that lives has its row running.  Cleanup starts without such  *)
(* rows and holds the lock, so while it is at work no process lives.       *)
RowsTrue ==
    /\ \A r \in Run : At(r, "off") => row[r].status = "none"
    /\ \A r \in Run : Live(r) => row[r].status = "running"
    /\ ~Unlocked => \A r \in Run : row[r].status # "running"

(* A run whose plan is saved, and that will save no other.                 *)
Used(q) ==
    /\ job[q].pc \notin {"off", "log", "plan", "save"}
    /\ job[q].pc \in {"complete", "compact"} => job[q].plan = q

(* Who makes a plan the pending one has its file; who turns a plan into a  *)
(* receipt has taken the pending row away, and nobody saves it again.      *)
PlansHeld ==
    /\ PendingPlansKept
    /\ pending # None => Used(pending)
    /\ \A r \in Run : At(r, "save") => plan[r].kind = "plan"
    /\ \A r \in Run : job[r].pc \in {"complete", "compact"} => job[r].plan \in Run /\ Used(job[r].plan)
    /\ \A r \in Run : At(r, "compact") => job[r].plan # pending
    /\ ~Unlocked => pending \notin cleanup.plans

(* What cleanup is about to unlink is finished and older than the horizon  *)
(* it has written.                                                         *)
LogsExplained ==
    /\ \A r \in logged : log[r] # "none" \/ (Finished(r) /\ row[r].at < horizon)
    /\ ~Unlocked => \A r \in cleanup.logs : Finished(r) /\ row[r].at < cleanup.before
    /\ cleanup.pc = "unlink" => cleanup.before <= horizon

RecordsInv == Typed /\ RowsTrue /\ PlansHeld /\ LogsExplained

USE RecordsAssumption

RunStep(r) ==
    \/ Start(r) \/ OpenLogs(r) \/ Resume(r) \/ WritePlan(r) \/ SavePlan(r)
    \/ Complete(r) \/ Compact(r) \/ GiveUp(r) \/ Finish(r) \/ Dies(r)

(* What a run's step does to its job: where it goes, and with whose plan.  *)
LEMMA JobMoves ==
  ASSUME Typed, NEW r \in Run, RunStep(r)
  PROVE  /\ job' \in [Run -> Job] /\ \A q \in Run \ {r} : job'[q] = job[q]
         /\ UNCHANGED <<now, horizon, cleanup>>
         /\ \A l \in Pcs : Goto(r, l) => job'[r].pc = l
         /\ \/ Start(r) /\ job[r].pc = "off" /\ job'[r].pc = "log"
            \/ OpenLogs(r) /\ job[r].pc = "log" /\ job'[r].pc = "plan"
            \/ Resume(r) /\ job[r].pc = "plan" /\ job'[r].pc = "complete" /\ job'[r].plan = pending
            \/ WritePlan(r) /\ job[r].pc = "plan" /\ job'[r].pc = "save"
            \/ SavePlan(r) /\ pending = None /\ job[r].pc = "save" /\ job'[r].pc = "complete"
                /\ job'[r].plan = r
            \/ SavePlan(r) /\ pending # None /\ job[r].pc = "save" /\ job'[r].pc = "finish"
            \/ Complete(r) /\ job[r].pc = "complete" /\ job'[r].pc = "compact" /\ job'[r].plan = job[r].plan
            \/ Compact(r) /\ job[r].pc = "compact"
                /\ (job'[r].pc = "finish" \/ (job[r].plan # r /\ job'[r].pc = "plan"))
            \/ GiveUp(r) /\ Live(r) /\ job'[r].pc = "finish"
            \/ Finish(r) /\ job[r].pc = "finish" /\ job'[r].pc = "done"
            \/ Dies(r) /\ Live(r) /\ job'[r].pc = "dead"
<1>0. job \in [Run -> Job] /\ job[r] \in Job /\ pending \in Run \cup {None}
  BY DEF Typed
<1>1. ASSUME NEW l \in Pcs, Goto(r, l)
      PROVE  /\ job' \in [Run -> Job] /\ job'[r].pc = l /\ job'[r].plan = job[r].plan
             /\ \A q \in Run \ {r} : job'[q] = job[q]
  <2>1. [job[r] EXCEPT !.pc = l] \in Job
    BY <1>0 DEF Job
  <2>2. job' = [job EXCEPT ![r] = [job[r] EXCEPT !.pc = l]]
    BY <1>1 DEF Goto
  <2> QED
    BY <1>0, <2>1, <2>2 DEF Job
<1>2. ASSUME NEW q \in Run \cup {None}, job' = [job EXCEPT ![r] = [pc |-> "complete", plan |-> q]]
      PROVE  /\ job' \in [Run -> Job] /\ job'[r].pc = "complete" /\ job'[r].plan = q
             /\ \A s \in Run \ {r} : job'[s] = job[s]
  BY <1>0, <1>2 DEF Job, Pcs
<1>3. \A l \in {"log", "plan", "save", "compact", "finish", "done", "dead"} : l \in Pcs
  BY DEF Pcs
<1> USE DEF files, catalog
<1>4. CASE Start(r) BY <1>1, <1>3, <1>4 DEF Start, At
<1>5. CASE OpenLogs(r) BY <1>1, <1>3, <1>5 DEF OpenLogs, At
<1>6. CASE Resume(r) BY <1>0, <1>1, <1>2, <1>6 DEF Resume, At
<1>7. CASE WritePlan(r) BY <1>1, <1>3, <1>7 DEF WritePlan, At
<1>8. CASE SavePlan(r) BY <1>1, <1>2, <1>3, <1>8 DEF SavePlan, At
<1>9. CASE Complete(r) BY <1>1, <1>3, <1>9 DEF Complete, At
<1>10. CASE Compact(r)
  <2>1. PICK l \in {"finish"} \cup (IF job[r].plan = r THEN {} ELSE {"plan"}) : Goto(r, l)
    BY <1>10 DEF Compact
  <2> QED
    BY <1>1, <1>3, <1>10, <2>1 DEF Compact, At
<1>11. CASE GiveUp(r) BY <1>1, <1>3, <1>11 DEF GiveUp, Live
<1>12. CASE Finish(r) BY <1>1, <1>3, <1>12 DEF Finish, At
<1>13. CASE Dies(r) BY <1>1, <1>3, <1>13 DEF Dies
<1> QED
  BY <1>1, <1>4, <1>5, <1>6, <1>7, <1>8, <1>9, <1>10, <1>11, <1>12, <1>13 DEF RunStep

LEMMA RunTyped ==
  ASSUME Typed, PlansHeld, NEW r \in Run, RunStep(r)
  PROVE  Typed'
<1>0. job' \in [Run -> Job] /\ UNCHANGED <<now, horizon, cleanup>>
  BY JobMoves
<1> USE <1>0 DEF Typed, files, catalog, File, FinishedRow
<1>1. CASE Start(r) BY <1>1 DEF Start
<1>2. CASE OpenLogs(r) BY <1>2 DEF OpenLogs
<1>3. CASE Resume(r) BY <1>3 DEF Resume
<1>4. CASE WritePlan(r) BY <1>4 DEF WritePlan
<1>5. CASE SavePlan(r) BY <1>5 DEF SavePlan
<1>6. CASE Complete(r) BY <1>6 DEF Complete
<1>7. CASE Compact(r) BY <1>7 DEF Compact
<1>8. CASE GiveUp(r) BY <1>8 DEF GiveUp
<1>9. CASE Finish(r) BY <1>9 DEF Finish
<1>10. CASE Dies(r) BY <1>10 DEF Dies
<1> QED
  BY <1>1, <1>2, <1>3, <1>4, <1>5, <1>6, <1>7, <1>8, <1>9, <1>10 DEF RunStep

(* What the operator and cleanup do.                                       *)
OtherStep ==
    \/ Tick \/ Expire \/ WriteHorizon \/ CleanupEnds
    \/ \E r \in Run : Reconcile(r) \/ Archive(r) \/ UnlinkLog(r) \/ UnlinkPlan(r)

LEMMA RunSteps ==
  [Next]_vars => \/ \E r \in Run : RunStep(r)
                 \/ OtherStep
                 \/ UNCHANGED vars
BY DEF Next, RunStep, OtherStep

LEMMA CleanupMoves ==
  ASSUME Typed, OtherStep
  PROVE  /\ UNCHANGED <<job, pending, logged>> /\ cleanup' \in Cleanup
         /\ \/ Unlocked /\ ~Unlocked' /\ Expire
            \/ Unlocked' /\ UNCHANGED horizon
            \/ ~Unlocked /\ cleanup.before' = cleanup.before
                /\ cleanup.logs' \subseteq cleanup.logs /\ cleanup.plans' \subseteq cleanup.plans
<1>0. cleanup \in Cleanup
  BY DEF Typed
<1> USE DEF files, catalog
<1>1. CASE Tick BY <1>0, <1>1 DEF Tick, Unlocked, Cleanup
<1>2. CASE Expire
  <2>1. PICK days \in Days : cleanup' = [pc |-> "horizon", before |-> now - days,
           logs |-> ExpiredLogs(now - days), plans |-> ExpiredPlans(now - days)]
    BY <1>2 DEF Expire
  <2>2. now - days \in Int
    BY <2>1 DEF Typed
  <2>3. ExpiredLogs(now - days) \in SUBSET Run /\ ExpiredPlans(now - days) \in SUBSET Run
    BY DEF ExpiredLogs, ExpiredPlans
  <2> QED
    BY <1>2, <2>1, <2>2, <2>3 DEF Expire, Unlocked, Cleanup
<1>3. CASE WriteHorizon BY <1>0, <1>3 DEF WriteHorizon, Unlocked, Cleanup
<1>4. CASE CleanupEnds BY <1>0, <1>4 DEF CleanupEnds, Unlocked, Cleanup, Idle
<1>5. ASSUME NEW r \in Run, Reconcile(r) \/ Archive(r)
      PROVE  UNCHANGED <<job, pending, logged, horizon, cleanup>>
  BY <1>5 DEF Reconcile, Archive
<1>6. CASE \E r \in Run : Reconcile(r) \/ Archive(r)
  BY <1>0, <1>5, <1>6 DEF Unlocked
<1>7. ASSUME NEW r \in Run, UnlinkLog(r) PROVE cleanup' = [cleanup EXCEPT !.logs = @ \ {r}]
  BY <1>7 DEF UnlinkLog
<1>8. CASE \E r \in Run : UnlinkLog(r)
  BY <1>0, <1>7, <1>8 DEF UnlinkLog, Unlocked, Cleanup
<1>9. CASE \E r \in Run : UnlinkPlan(r)
  BY <1>0, <1>9 DEF UnlinkPlan, Unlocked, Cleanup
<1> QED
  BY <1>1, <1>2, <1>3, <1>4, <1>6, <1>8, <1>9 DEF OtherStep

LEMMA NextTyped == Typed /\ PlansHeld /\ [Next]_vars => Typed'
<1> SUFFICES ASSUME Typed, PlansHeld, [Next]_vars PROVE Typed'
  OBVIOUS
<1>1. CASE OtherStep
  <2>1. UNCHANGED <<job, pending, logged>> /\ cleanup' \in Cleanup
    BY <1>1, CleanupMoves
  <2> USE <2>1 DEF Typed, files, catalog, FinishedRow, NoFile, Cleanup
  <2>2. CASE Tick BY <2>2 DEF Tick
  <2>3. CASE Expire BY <2>3 DEF Expire
  <2>4. CASE WriteHorizon BY <2>4 DEF WriteHorizon
  <2>5. CASE CleanupEnds BY <2>5 DEF CleanupEnds
  <2>6. ASSUME NEW r \in Run, Reconcile(r) PROVE Typed' BY <2>6 DEF Reconcile
  <2>7. ASSUME NEW r \in Run, Archive(r) PROVE Typed' BY <2>7 DEF Archive
  <2>8. ASSUME NEW r \in Run, UnlinkLog(r) PROVE Typed' BY <2>8 DEF UnlinkLog
  <2>9. ASSUME NEW r \in Run, UnlinkPlan(r) PROVE Typed' BY <2>9 DEF UnlinkPlan
  <2> QED
    BY <1>1, <2>2, <2>3, <2>4, <2>5, <2>6, <2>7, <2>8, <2>9 DEF OtherStep
<1>2. CASE UNCHANGED vars
  BY <1>2 DEF vars, Typed
<1> QED
  BY <1>1, <1>2, RunTyped, RunSteps

LEMMA RowsStayTrue == Typed /\ RowsTrue /\ [Next]_vars => RowsTrue'
<1> SUFFICES ASSUME Typed, RowsTrue, [Next]_vars PROVE RowsTrue'
  OBVIOUS
<1>1. ASSUME NEW r \in Run, RunStep(r) PROVE RowsTrue'
  <2>0. UNCHANGED cleanup /\ \A q \in Run \ {r} : job'[q] = job[q]
    BY <1>1, JobMoves
  <2>1. CASE Start(r)
    <3>1. Unlocked /\ job'[r].pc = "log" /\ row' = [row EXCEPT ![r] = [status |-> "running", at |-> 0]]
      BY <1>1, <2>1, JobMoves DEF Start, Pcs
    <3> QED
      BY <2>0, <3>1 DEF RowsTrue, At, Live, Typed, Unlocked
  <2>2. CASE Finish(r)
    <3>1. Unlocked /\ job'[r].pc = "done" /\ row' = [row EXCEPT ![r] = FinishedRow]
      BY <1>1, <2>2, JobMoves DEF Finish, Pcs
    <3> QED
      BY <2>0, <3>1 DEF RowsTrue, At, Live, Typed, FinishedRow, Unlocked
  <2>3. CASE row' = row /\ Live(r) /\ ~At(r, "off")'
    <3>1. \A q \in Run : (At(q, "off")' => At(q, "off")) /\ (Live(q)' => Live(q))
      BY <2>0, <2>3 DEF At, Live
    <3> QED
      BY <2>0, <2>3, <3>1 DEF RowsTrue, Unlocked
  <2> QED
    BY <1>1, <2>1, <2>2, <2>3, JobMoves
       DEF OpenLogs, Resume, WritePlan, SavePlan, Complete, Compact, GiveUp, Dies, Live, At, catalog
<1>2. CASE OtherStep
  <2>0. UNCHANGED job
    BY <1>2, CleanupMoves
  <2>1. \A q \in Run : At(q, "off")' = At(q, "off") /\ Live(q)' = Live(q)
    BY <2>0 DEF At, Live
  <2>2. CASE Expire
    <3>1. row' = row /\ ~Refused
      BY <2>2 DEF Expire, catalog
    <3> QED
      BY <2>1, <3>1 DEF RowsTrue, Refused
  <2>3. ASSUME NEW r \in Run, Reconcile(r) PROVE RowsTrue'
    <3>1. /\ row' = [row EXCEPT ![r] = FinishedRow] /\ cleanup' = cleanup
          /\ \A q \in Run : ~Live(q) /\ row[r].status = "running"
      BY <2>3 DEF Reconcile
    <3>2. \A q \in Run : row'[q].status \in {row[q].status, "finished"} /\ (q # r => row'[q] = row[q])
      BY <3>1 DEF FinishedRow, Typed
    <3> QED
      BY <2>1, <3>1, <3>2 DEF RowsTrue, Unlocked, At
  <2>4. CASE row' = row /\ ~Expire
    <3>1. ~Unlocked' => ~Unlocked
      BY <1>2, <2>4, CleanupMoves
    <3> QED
      BY <2>1, <2>4, <3>1 DEF RowsTrue
  <2> QED
    BY <1>2, <2>2, <2>3, <2>4 DEF OtherStep, Tick, WriteHorizon, CleanupEnds, Archive, UnlinkLog, UnlinkPlan, catalog
<1>3. CASE UNCHANGED vars
  BY <1>3 DEF vars, RowsTrue, At, Live, Unlocked
<1> QED
  BY <1>1, <1>2, <1>3, RunSteps

(* While cleanup works no process does.                                    *)
LEMMA Alone ==
  ASSUME RowsTrue, NEW r \in Run, Live(r)
  PROVE  Unlocked /\ ~Finished(r)
BY DEF RowsTrue, Finished

LEMMA LogsStayExplained == Typed /\ RowsTrue /\ LogsExplained /\ [Next]_vars => LogsExplained'
<1> SUFFICES ASSUME Typed, RowsTrue, LogsExplained, [Next]_vars PROVE LogsExplained'
  OBVIOUS
<1>1. ASSUME NEW r \in Run, RunStep(r) PROVE LogsExplained'
  <2>0. UNCHANGED <<cleanup, horizon>> /\ (Live(r) \/ At(r, "off"))
    BY <1>1, JobMoves DEF Live, At
  <2>1. ~Finished(r)
    BY <2>0 DEF RowsTrue, Finished
  <2>2. \A q \in Run : Finished(q) => Finished(q)' /\ row'[q] = row[q]
    <3>1. row' = row \/ Start(r) \/ Finish(r)
      BY <1>1 DEF RunStep, OpenLogs, Resume, WritePlan, SavePlan, Complete, Compact, GiveUp, Dies, catalog
    <3> QED
      BY <2>1, <3>1 DEF Start, Finish, Finished, Typed
  <2>3. \A q \in Run : q \in logged' /\ log'[q] = "none" => q \in logged /\ log[q] = "none"
    <3>1. UNCHANGED <<log, logged>> \/ OpenLogs(r)
      BY <1>1 DEF RunStep, Start, Resume, WritePlan, SavePlan, Complete, Compact, GiveUp, Finish, Dies, files
    <3> QED
      BY <3>1 DEF OpenLogs, Typed
  <2>4. logged' \subseteq Run
    BY <1>1 DEF RunStep, OpenLogs, Start, Resume, WritePlan, SavePlan, Complete, Compact, GiveUp, Finish, Dies,
                files, Typed
  <2>5. cleanup.logs \subseteq Run
    BY DEF Typed, Cleanup
  <2> QED
    BY <2>0, <2>2, <2>3, <2>4, <2>5 DEF LogsExplained, Unlocked
<1>2. CASE OtherStep
  <2>0. UNCHANGED logged /\ logged \subseteq Run /\ cleanup \in Cleanup
    BY <1>2, CleanupMoves DEF Typed
  <2>1. CASE Tick BY <2>1 DEF Tick, files, catalog, LogsExplained, Finished, Unlocked
  <2>2. CASE Expire
    <3>1. PICK days \in Days : cleanup' = [pc |-> "horizon", before |-> now - days,
             logs |-> ExpiredLogs(now - days), plans |-> ExpiredPlans(now - days)]
      BY <2>2 DEF Expire
    <3>2. UNCHANGED <<row, log, horizon>>
      BY <2>2 DEF Expire, files, catalog
    <3>3. \A q \in ExpiredLogs(now - days) : Finished(q) /\ row[q].at < now - days
      BY DEF ExpiredLogs
    <3> QED
      BY <2>0, <3>1, <3>2, <3>3 DEF LogsExplained, Finished
  <2>3. CASE WriteHorizon
    <3>1. UNCHANGED <<row, log>> /\ cleanup.pc = "horizon" /\ cleanup.before \in Int /\ horizon \in Int
      BY <2>0, <2>3 DEF WriteHorizon, catalog, Cleanup, Typed
    <3>2. cleanup'.before = cleanup.before /\ cleanup'.logs = cleanup.logs
      BY <2>0, <2>3 DEF WriteHorizon, Cleanup
    <3>3. horizon' \in Int /\ horizon' >= horizon /\ horizon' >= cleanup.before
      BY <2>3, <3>1 DEF WriteHorizon
    <3>4. \A q \in Run : row[q].at \in Nat
      BY DEF Typed
    <3>5. \A q \in logged : log'[q] # "none" \/ (Finished(q)' /\ row'[q].at < horizon')
      BY <2>0, <3>1, <3>3, <3>4 DEF LogsExplained, Finished
    <3> QED
      BY <2>0, <3>1, <3>2, <3>3, <3>5 DEF LogsExplained, Finished, Unlocked
  <2>4. CASE CleanupEnds
    BY <2>0, <2>4 DEF CleanupEnds, LogsExplained, Finished, Unlocked, Idle, files, catalog
  <2>5. ASSUME NEW r \in Run, Reconcile(r) PROVE LogsExplained'
    <3>1. UNCHANGED <<log, horizon, cleanup>> /\ \A q \in Run : Finished(q) => row'[q] = row[q]
      BY <2>5 DEF Reconcile, Finished, files, Typed
    <3>2. cleanup.logs \subseteq Run
      BY <2>0 DEF Cleanup
    <3> QED
      BY <2>0, <3>1, <3>2 DEF LogsExplained, Finished, Unlocked
  <2>6. ASSUME NEW r \in Run, Archive(r) PROVE LogsExplained'
    <3>1. UNCHANGED <<row, horizon, cleanup>> /\ \A q \in Run : log'[q] = "none" => log[q] = "none"
      BY <2>6 DEF Archive, catalog, Typed
    <3> QED
      BY <2>0, <3>1 DEF LogsExplained, Finished, Unlocked
  <2>7. ASSUME NEW r \in Run, UnlinkLog(r) PROVE LogsExplained'
    <3>1. UNCHANGED <<row, horizon>> /\ \A q \in Run \ {r} : log'[q] = log[q]
      BY <2>7 DEF UnlinkLog, catalog, Typed
    <3>2. cleanup' = [cleanup EXCEPT !.logs = @ \ {r}] /\ cleanup.pc = "unlink" /\ r \in cleanup.logs
      BY <2>7 DEF UnlinkLog
    <3>3. cleanup'.pc = cleanup.pc /\ cleanup'.before = cleanup.before /\ cleanup'.logs \subseteq cleanup.logs
      BY <2>0, <3>2 DEF Cleanup
    <3>4. Finished(r) /\ row[r].at < horizon
      <4>1. Finished(r) /\ row[r].at < cleanup.before /\ cleanup.before <= horizon
        BY <3>2 DEF LogsExplained, Unlocked
      <4>2. row[r].at \in Nat /\ cleanup.before \in Int /\ horizon \in Int
        BY <2>0, <2>7 DEF Typed, Cleanup
      <4> QED
        BY <4>1, <4>2
    <3>5. \A q \in logged : log'[q] # "none" \/ (Finished(q)' /\ row'[q].at < horizon')
      BY <2>0, <3>1, <3>4 DEF LogsExplained, Finished
    <3> QED
      BY <2>0, <3>1, <3>2, <3>3, <3>5 DEF LogsExplained, Finished, Unlocked
  <2>8. ASSUME NEW r \in Run, UnlinkPlan(r) PROVE LogsExplained'
    BY <2>0, <2>8 DEF UnlinkPlan, catalog, LogsExplained, Finished, Unlocked, Cleanup
  <2> QED
    BY <1>2, <2>1, <2>2, <2>3, <2>4, <2>5, <2>6, <2>7, <2>8 DEF OtherStep
<1>3. CASE UNCHANGED vars
  BY <1>3 DEF vars, LogsExplained, Finished, Unlocked
<1> QED
  BY <1>1, <1>2, <1>3, RunSteps

LEMMA PlansStayHeld == Typed /\ RowsTrue /\ PlansHeld /\ [Next]_vars => PlansHeld'
<1> SUFFICES ASSUME Typed, RowsTrue, PlansHeld, [Next]_vars PROVE PlansHeld'
  OBVIOUS
<1>0. job \in [Run -> Job] /\ pending \in Run \cup {None} /\ cleanup \in Cleanup
  BY DEF Typed
<1>1. ASSUME NEW r \in Run, RunStep(r) PROVE PlansHeld'
  <2>0. UNCHANGED cleanup /\ \A q \in Run \ {r} : job'[q] = job[q]
    BY <1>1, JobMoves
  <2>1. \A q \in Run : Used(q) => Used(q)'
    <3>1. \A q \in Run \ {r} : Used(q) => Used(q)'
      BY <2>0 DEF Used
    <3>2. Used(r) => Used(r)'
      BY <1>1, JobMoves DEF Used, Live
    <3> QED
      BY <3>1, <3>2
  <2>2. CASE SavePlan(r) /\ pending = None
    <3>1. pending' = r /\ plan' = plan /\ job'[r].pc = "complete" /\ job'[r].plan = r /\ job[r].pc = "save"
      BY <1>1, <2>2, JobMoves DEF SavePlan, files, Live, At
    <3>2. plan[r].kind = "plan" /\ Unlocked /\ Unlocked'
      BY <2>0, <2>2 DEF SavePlan, PlansHeld, Unlocked
    <3>3. Used(r)'
      BY <3>1 DEF Used
    <3>4. ~Used(r)
      BY <3>1 DEF Used
    <3>5. \A q \in Run : (job[q].pc \in {"complete", "compact"} => job[q].plan \in Run /\ Used(job[q].plan))'
      BY <2>0, <2>1, <3>1, <3>3 DEF PlansHeld
    <3>6. \A q \in Run : At(q, "compact")' => job'[q].plan # r
      BY <2>0, <3>1, <3>4 DEF PlansHeld, At
    <3> QED
      BY <2>0, <3>1, <3>2, <3>3, <3>5, <3>6 DEF PlansHeld, PendingPlansKept, At
  <2>3. CASE Compact(r)
    <3>1. job[r].pc = "compact" /\ UNCHANGED <<pending, cleanup>> /\ job'[r].pc \in {"finish", "plan"}
      <4>1. job[r].pc = "compact" /\ (Goto(r, "finish") \/ Goto(r, "plan"))
        BY <2>3 DEF Compact, At
      <4> QED
        BY <1>1, <2>3, <4>1, JobMoves DEF Compact, catalog, Pcs
    <3>2. job[r].plan \in Run /\ Used(job[r].plan) /\ job[r].plan # pending
      BY <3>1 DEF PlansHeld, At
    <3>3. \A q \in Run \ {job[r].plan} : plan'[q] = plan[q]
      BY <2>3 DEF Compact, Typed
    <3>4. \A q \in Run : At(q, "save") => q # job[r].plan
      BY <3>2 DEF Used, At
    <3>5. \A q \in Run : (At(q, "save")' => At(q, "save")) /\ (At(q, "compact")' => At(q, "compact"))
      BY <2>0, <3>1 DEF At
    <3>6. \A q \in Run : job'[q].pc \in {"complete", "compact"} => job'[q] = job[q]
      BY <2>0, <3>1
    <3> QED
      BY <1>0, <2>0, <2>1, <3>1, <3>2, <3>3, <3>4, <3>5, <3>6 DEF PlansHeld, PendingPlansKept, Unlocked, At
  <2>4. CASE WritePlan(r)
    <3>1. job[r].pc = "plan" /\ UNCHANGED <<pending, cleanup>> /\ job'[r].pc = "save" /\ pending = None
      BY <1>1, <2>4, JobMoves DEF WritePlan, catalog, At, Pcs
    <3>2. plan' = [plan EXCEPT ![r] = File("plan")]
      BY <2>4 DEF WritePlan
    <3>3. plan'[r].kind = "plan" /\ \A q \in Run \ {r} : plan'[q] = plan[q]
      BY <3>2 DEF Typed, File
    <3> QED
      BY <1>0, <2>0, <2>1, <3>1, <3>3 DEF PlansHeld, PendingPlansKept, Unlocked, At
  <2>5. CASE Complete(r)
    <3>1. /\ job'[r].pc = "compact" /\ job'[r].plan = job[r].plan /\ job[r].pc = "complete"
          /\ plan' = plan /\ pending' = (IF pending = job[r].plan THEN None ELSE pending)
      BY <1>1, <2>5, JobMoves DEF Complete, files, At, Live, Pcs
    <3>2. job[r].plan \in Run /\ Used(job[r].plan) /\ pending' # job[r].plan /\ pending' \in {pending, None}
      BY <3>1 DEF PlansHeld
    <3> QED
      BY <1>0, <2>0, <2>1, <2>5, <3>1, <3>2 DEF PlansHeld, PendingPlansKept, Unlocked, At, Complete
  <2>6. CASE Resume(r)
    <3>1. /\ job'[r].pc = "complete" /\ job'[r].plan = pending /\ pending \in Run
          /\ UNCHANGED <<plan, pending>>
      BY <1>0, <1>1, <2>6, JobMoves DEF Resume, files, catalog, At, Live
    <3> QED
      BY <2>0, <2>1, <3>1 DEF PlansHeld, PendingPlansKept, Unlocked, At
  <2>7. CASE UNCHANGED <<plan, pending>> /\ job'[r].pc \notin {"complete", "compact", "save"}
    BY <1>0, <2>0, <2>1, <2>7 DEF PlansHeld, PendingPlansKept, Unlocked, At
  <2> QED
    BY <1>1, <2>2, <2>3, <2>4, <2>5, <2>6, <2>7, JobMoves
       DEF Start, OpenLogs, SavePlan, GiveUp, Finish, Dies, files, catalog
<1>2. CASE OtherStep
  <2>0. UNCHANGED <<job, pending>>
    BY <1>2, CleanupMoves
  <2>1. \A q \in Run : Used(q)' = Used(q) /\ At(q, "save")' = At(q, "save") /\ At(q, "compact")' = At(q, "compact")
    BY <2>0 DEF Used, At
  <2>2. ASSUME plan' = plan, ~Unlocked' => pending \notin cleanup.plans' PROVE PlansHeld'
    BY <1>0, <2>0, <2>1, <2>2 DEF PlansHeld, PendingPlansKept
  <2>3. CASE Expire
    <3>1. PICK days \in Days : cleanup' = [pc |-> "horizon", before |-> now - days,
             logs |-> ExpiredLogs(now - days), plans |-> ExpiredPlans(now - days)]
      BY <2>3 DEF Expire
    <3>2. pending \notin cleanup'.plans
      BY <3>1 DEF ExpiredPlans
    <3> QED
      BY <2>2, <2>3, <3>2 DEF Expire, files
  <2>4. ASSUME NEW r \in Run, UnlinkPlan(r) PROVE PlansHeld'
    <3>1. ~Unlocked /\ r \in cleanup.plans /\ r # pending
      BY <2>4 DEF UnlinkPlan, Unlocked, PlansHeld
    <3>2. \A q \in Run \ {r} : plan'[q] = plan[q]
      BY <2>4 DEF UnlinkPlan, Typed
    <3>3. ~At(r, "save")
      BY <3>1, Alone DEF At, Live
    <3>4. pending \notin cleanup.plans'
      BY <1>0, <2>4, <3>1 DEF UnlinkPlan, Cleanup, PlansHeld
    <3> QED
      BY <1>0, <2>0, <2>1, <3>1, <3>2, <3>3, <3>4 DEF PlansHeld, PendingPlansKept
  <2>5. CASE plan' = plan /\ ~Expire
    <3>1. ~Unlocked' => pending \notin cleanup.plans'
      BY <1>2, <2>5, CleanupMoves DEF PlansHeld
    <3> QED
      BY <2>2, <2>5, <3>1
  <2> QED
    BY <1>2, <2>3, <2>4, <2>5
       DEF OtherStep, Tick, WriteHorizon, CleanupEnds, Reconcile, Archive, UnlinkLog, files
<1>3. CASE UNCHANGED vars
  BY <1>0, <1>3 DEF vars, PlansHeld, PendingPlansKept, Used, At, Unlocked
<1> QED
  BY <1>1, <1>2, <1>3, RunSteps

LEMMA RecordsStay == Spec => []RecordsInv
<1>1. Init => RecordsInv
  BY DEF Init, RecordsInv, Typed, RowsTrue, PlansHeld, LogsExplained, PendingPlansKept, Used, Live, At, Unlocked,
         Finished, NoRow, NoFile, Idle, Job, Pcs, Cleanup
<1>2. RecordsInv /\ [Next]_vars => RecordsInv'
  BY NextTyped, RowsStayTrue, PlansStayHeld, LogsStayExplained DEF RecordsInv
<1> QED
  BY <1>1, <1>2, PTL DEF Spec

-----------------------------------------------------------------------------
(* However long ago the runs and whatever the retention: cleanup never     *)
(* takes the file of a pending delivery, and the events of a run are there *)
(* or known to have expired.                                               *)
THEOREM CleanupAccounts == Spec => []DiagnosticsKept
<1>1. RecordsInv => DiagnosticsKept
  <2> SUFFICES ASSUME RecordsInv PROVE DiagnosticsKept
    OBVIOUS
  <2>1. PendingPlansKept
    BY DEF RecordsInv, PlansHeld
  <2>2. ASSUME NEW r \in logged PROVE History(r) # "unavailable"
    <3>1. log[r] \in {"none", "kept", "archived"}
      BY DEF RecordsInv, Typed
    <3>2. log[r] = "none" => Finished(r) /\ row[r].at < horizon
      BY DEF RecordsInv, LogsExplained
    <3> QED
      BY <3>1, <3>2 DEF History
  <2> QED
    BY <2>1, <2>2 DEF DiagnosticsKept, ExpiryExplained
<1> QED
  BY <1>1, RecordsStay, PTL
=============================================================================
