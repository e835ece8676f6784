---------------------------- MODULE OrderLemmas ----------------------------
(***************************************************************************)
(* Lemmas about numbers, finite orders and sequences that the proofs of    *)
(* several components cite.  They speak of sets and relations, never of    *)
(* operators, so that each can be used by naming it.                       *)
(***************************************************************************)
EXTENDS Orders, FiniteSetTheorems, FunctionTheorems, WellFoundedInduction, TLAPS

LEMMA LeastNumber ==
  ASSUME NEW T \in SUBSET Nat, T # {}
  PROVE  \E x \in T : \A y \in T : x <= y
<1> DEFINE less == {p \in Nat \X Nat : p[1] < p[2]}
<1>1. IsWellFoundedOn(less, Nat)
  <2>1. OpToRel(<, Nat) = less
    BY DEF OpToRel
  <2> QED BY <2>1, NatLessThanWellFounded
<1>2. \A x, y \in Nat : y < x => <<y, x>> \in less
  OBVIOUS
<1> HIDE DEF less
<1>3. PICK x \in T : \A y \in T : ~(<<y, x>> \in less)
  BY <1>1, WFMin
<1>4. ASSUME NEW y \in T PROVE x <= y
  <2>1. x \in Nat /\ y \in Nat
    OBVIOUS
  <2>2. ~(y < x)
    BY <2>1, <1>2, <1>3
  <2> QED BY <2>1, <2>2
<1> QED BY <1>4

LEMMA GreatestNumber ==
  ASSUME NEW T \in SUBSET Nat, T # {}, NEW b \in Nat, \A x \in T : x <= b
  PROVE  \E x \in T : \A y \in T : y <= x
<1> DEFINE U == {n \in Nat : b - n \in T}
<1>1. U \in SUBSET Nat /\ U # {}
  <2>1. PICK x \in T : TRUE
    OBVIOUS
  <2>2. b - x \in Nat /\ b - (b - x) = x
    OBVIOUS
  <2> QED BY <2>1, <2>2
<1>2. PICK u \in U : \A y \in U : u <= y
  BY <1>1, LeastNumber
<1>3. ASSUME NEW y \in T PROVE y <= b - u
  <2>1. b - y \in Nat /\ b - (b - y) = y
    OBVIOUS
  <2>2. u \in Nat /\ u <= b - y
    BY <2>1, <1>2
  <2> QED BY <2>1, <2>2
<1> QED BY <1>2, <1>3

\* What holds of 0, and of n + 1 whenever it holds of n, holds of every number.
LEMMA NaturalsByInduction ==
  ASSUME NEW T \in SUBSET Nat, 0 \in T, \A n \in T : n + 1 \in T
  PROVE  T = Nat
<1> SUFFICES ASSUME Nat \ T # {} PROVE FALSE
  OBVIOUS
<1>1. PICK x \in Nat \ T : \A y \in Nat \ T : x <= y
  BY LeastNumber
<1>2. x # 0 /\ x - 1 \in Nat
  BY <1>1
<1>3. x - 1 \in T
  BY <1>1, <1>2
<1>4. (x - 1) + 1 \in T
  BY <1>3
<1> QED BY <1>1, <1>4

-----------------------------------------------------------------------------
\* R orders S strictly and totally.
Orders(R, S) ==
  /\ \A i \in S : <<i, i>> \notin R
  /\ \A i, j \in S : i # j => <<i, j>> \in R \/ <<j, i>> \in R
  /\ \A i, j, k \in S : <<i, j>> \in R /\ <<j, k>> \in R => <<i, k>> \in R

Ahead(i, R, S) == {j \in S : <<j, i>> \in R}
Rank(i, R, S) == Cardinality(Ahead(i, R, S))

\* order lists S without repetitions, as R says.
Lists(order, R, S) ==
  /\ Cardinality(S) \in Nat
  /\ order \in [1 .. Cardinality(S) -> S]
  /\ \A k, l \in 1 .. Cardinality(S) : k < l <=> <<order[k], order[l]>> \in R
  /\ \A k, l \in 1 .. Cardinality(S) : order[k] = order[l] => k = l
  /\ \A i \in S : \E k \in 1 .. Cardinality(S) : order[k] = i

LEMMA RankBelowSize ==
  ASSUME NEW S, IsFiniteSet(S), NEW R, Orders(R, S), NEW i \in S
  PROVE  Cardinality(S) \in Nat /\ Rank(i, R, S) \in 0 .. Cardinality(S) - 1
<1>1. Ahead(i, R, S) \in SUBSET (S \ {i})
  BY DEF Ahead, Orders
<1>2. IsFiniteSet(S \ {i}) /\ Cardinality(S \ {i}) = Cardinality(S) - 1
  BY FS_RemoveElement
<1>3. IsFiniteSet(Ahead(i, R, S)) /\ Cardinality(Ahead(i, R, S)) <= Cardinality(S \ {i})
  BY <1>1, <1>2, FS_Subset
<1>4. Cardinality(S) \in Nat /\ Cardinality(Ahead(i, R, S)) \in Nat
  BY <1>3, FS_CardinalityType
<1> QED BY <1>2, <1>3, <1>4 DEF Rank

LEMMA RankGrows ==
  ASSUME NEW S, IsFiniteSet(S), NEW R, Orders(R, S), NEW i \in S, NEW j \in S, <<i, j>> \in R
  PROVE  Rank(i, R, S) < Rank(j, R, S)
<1>1. Ahead(i, R, S) \in SUBSET Ahead(j, R, S) /\ i \in Ahead(j, R, S) /\ i \notin Ahead(i, R, S)
  BY DEF Ahead, Orders
<1>2. IsFiniteSet(Ahead(j, R, S))
  <2>1. Ahead(j, R, S) \in SUBSET S
    BY DEF Ahead
  <2> QED BY <2>1, FS_Subset
<1>3. Rank(i, R, S) <= Rank(j, R, S) /\ Rank(i, R, S) # Rank(j, R, S)
  BY <1>1, <1>2, FS_Subset DEF Rank
<1>4. Rank(i, R, S) \in Int /\ Rank(j, R, S) \in Int
  BY RankBelowSize
<1> QED BY <1>3, <1>4

LEMMA RankIsUnique ==
  ASSUME NEW S, IsFiniteSet(S), NEW R, Orders(R, S), NEW i \in S, NEW j \in S,
         Rank(i, R, S) = Rank(j, R, S)
  PROVE  i = j
<1>1. Rank(i, R, S) \in Int
  BY RankBelowSize
<1>2. CASE <<i, j>> \in R
  <2>1. Rank(i, R, S) < Rank(j, R, S)
    BY <1>2, RankGrows
  <2> QED BY <1>1, <2>1
<1>3. CASE <<j, i>> \in R
  <2>1. Rank(j, R, S) < Rank(i, R, S)
    BY <1>3, RankGrows
  <2> QED BY <1>1, <2>1
<1> QED BY <1>2, <1>3 DEF Orders

LEMMA RankExists ==
  ASSUME NEW S, IsFiniteSet(S), NEW R, Orders(R, S), NEW k \in 1 .. Cardinality(S)
  PROVE  \E i \in S : Rank(i, R, S) = k - 1
<1> DEFINE place == [i \in S |-> Rank(i, R, S) + 1]
<1>1. \A i \in S : Rank(i, R, S) \in Nat /\ Rank(i, R, S) + 1 \in 1 .. Cardinality(S)
  <2> SUFFICES ASSUME NEW i \in S
               PROVE  Rank(i, R, S) \in Nat /\ Rank(i, R, S) + 1 \in 1 .. Cardinality(S)
    OBVIOUS
  <2>1. Cardinality(S) \in Nat /\ Rank(i, R, S) \in 0 .. Cardinality(S) - 1
    BY RankBelowSize
  <2> QED BY <2>1
<1>2. place \in [S -> 1 .. Cardinality(S)] /\ \A i \in S : place[i] = Rank(i, R, S) + 1
  BY <1>1
<1> HIDE DEF place
<1>3. \A i, j \in S : place[i] = place[j] => i = j
  <2> SUFFICES ASSUME NEW i \in S, NEW j \in S, place[i] = place[j] PROVE i = j
    OBVIOUS
  <2>1. Rank(i, R, S) = Rank(j, R, S)
    BY <1>1, <1>2
  <2> QED BY <2>1, RankIsUnique
<1>4. place \in Injection(S, 1 .. Cardinality(S))
  BY <1>2, <1>3, Fun_IsInj
<1>5. Cardinality(S) \in Nat
  BY FS_CardinalityType
<1>6. IsFiniteSet(1 .. Cardinality(S)) /\ Cardinality(1 .. Cardinality(S)) = Cardinality(S)
  BY <1>5, FS_Interval
<1>7. place \in Surjection(S, 1 .. Cardinality(S))
  BY <1>4, <1>6, FS_Injection
<1>8. PICK i \in S : place[i] = k
  BY <1>7 DEF Surjection
<1>9. Rank(i, R, S) + 1 = k /\ Rank(i, R, S) \in Nat
  BY <1>1, <1>2, <1>8
<1> QED BY <1>9

LEMMA OrderLists ==
  ASSUME NEW S, IsFiniteSet(S), NEW R, Orders(R, S),
         NEW order \in [1 .. Cardinality(S) -> S],
         \A k \in 1 .. Cardinality(S) : Rank(order[k], R, S) = k - 1
  PROVE  Lists(order, R, S)
<1> DEFINE n == Cardinality(S)
<1>1. n \in Nat
  BY FS_CardinalityType
<1>3. \A k \in 1 .. n : order[k] \in S /\ Rank(order[k], R, S) = k - 1
  OBVIOUS
<1>4. order \in [1 .. n -> S]
  OBVIOUS
<1> HIDE DEF n
<1>5. ASSUME NEW k \in 1 .. n, NEW l \in 1 .. n, <<order[k], order[l]>> \in R PROVE k < l
  <2>1. Rank(order[k], R, S) < Rank(order[l], R, S)
    BY <1>3, <1>5, RankGrows
  <2>2. k - 1 < l - 1
    BY <1>3, <2>1
  <2> QED BY <2>2, <1>1
<1>6. ASSUME NEW k \in 1 .. n, NEW l \in 1 .. n, order[k] = order[l] PROVE k = l
  <2>1. k - 1 = l - 1
    BY <1>3, <1>6
  <2> QED BY <2>1, <1>1
<1>7. ASSUME NEW k \in 1 .. n, NEW l \in 1 .. n, k < l PROVE <<order[k], order[l]>> \in R
  <2>1. order[k] # order[l]
    BY <1>1, <1>6, <1>7
  <2>2. ~(l < k)
    BY <1>1, <1>7
  <2>3. <<order[l], order[k]>> \notin R
    BY <1>5, <2>2
  <2>4. order[k] \in S /\ order[l] \in S
    BY <1>3
  <2> QED BY <2>1, <2>3, <2>4 DEF Orders
<1>8. ASSUME NEW i \in S PROVE \E k \in 1 .. n : order[k] = i
  <2>1. Rank(i, R, S) \in 0 .. n - 1
    BY RankBelowSize DEF n
  <2>2. PICK k \in 1 .. n : k - 1 = Rank(i, R, S)
    <3>1. Rank(i, R, S) + 1 \in 1 .. n /\ (Rank(i, R, S) + 1) - 1 = Rank(i, R, S)
      BY <1>1, <2>1
    <3> QED BY <3>1
  <2>3. order[k] \in S /\ Rank(order[k], R, S) = Rank(i, R, S)
    BY <1>3, <2>2
  <2>4. order[k] = i
    BY <2>3, RankIsUnique
  <2> QED BY <2>4
<1> QED BY <1>1, <1>4, <1>5, <1>6, <1>7, <1>8 DEF Lists, n

-----------------------------------------------------------------------------
Less == {p \in Int \X Int : p[1] < p[2]}

LEMMA LessOrders == \A i, j \in Int : <<i, j>> \in Less <=> i < j
BY DEF Less

\* Numbers are sorted by <.
LEMMA NumbersSort ==
  ASSUME NEW P \in SUBSET Int, IsFiniteSet(P)
  PROVE  /\ Cardinality(P) \in Nat
         /\ Ascending(P) \in [1 .. Cardinality(P) -> P]
         /\ \A k, l \in 1 .. Cardinality(P) : k < l <=> Ascending(P)[k] < Ascending(P)[l]
         /\ \A k, l \in 1 .. Cardinality(P) : Ascending(P)[k] = Ascending(P)[l] => k = l
         /\ \A i \in P : \E k \in 1 .. Cardinality(P) : Ascending(P)[k] = i
<1> DEFINE order == Ascending(P)
<1>1. Orders(Less, P)
  BY LessOrders DEF Orders
<1>2. ASSUME NEW i \in P PROVE Cardinality({j \in P : j < i}) = Rank(i, Less, P)
  <2>1. {j \in P : j < i} = Ahead(i, Less, P)
    BY LessOrders DEF Ahead
  <2> QED BY <2>1 DEF Rank
<1>3. ASSUME NEW k \in 1 .. Cardinality(P)
      PROVE  order[k] \in P /\ Rank(order[k], Less, P) = k - 1
  <2>1. PICK i \in P : Rank(i, Less, P) = k - 1
    BY <1>1, RankExists
  <2>2. order[k] = CHOOSE j \in P : Cardinality({l \in P : l < j}) = k - 1
    BY DEF Sorted, Ascending
  <2>3. order[k] \in P /\ Cardinality({l \in P : l < order[k]}) = k - 1
    BY <1>2, <2>1, <2>2
  <2> QED BY <1>2, <2>3
<1>4. order \in [1 .. Cardinality(P) -> P]
  BY <1>3 DEF Sorted, Ascending
<1> HIDE DEF order
<1>5. Lists(order, Less, P)
  BY <1>1, <1>3, <1>4, OrderLists
<1> QED BY <1>5, LessOrders DEF Lists, order

\* An interval is sorted as it stands.
LEMMA IntervalSorts ==
  ASSUME NEW a \in Int, NEW b \in Int, a <= b + 1
  PROVE  /\ Cardinality(a .. b) = b - a + 1
         /\ \A k \in 1 .. b - a + 1 : Ascending(a .. b)[k] = a + k - 1
<1>1. IsFiniteSet(a .. b) /\ Cardinality(a .. b) = b - a + 1
  BY FS_Interval
<1> SUFFICES ASSUME NEW k \in 1 .. b - a + 1 PROVE Ascending(a .. b)[k] = a + k - 1
  BY <1>1
<1>2. ASSUME NEW i \in a .. b PROVE Cardinality({j \in a .. b : j < i}) = i - a
  <2>1. {j \in a .. b : j < i} = a .. i - 1
    OBVIOUS
  <2>2. i - 1 \in Int /\ ~(a > i) /\ (i - 1) - a + 1 = i - a
    OBVIOUS
  <2>3. Cardinality(a .. i - 1) = IF a > i - 1 THEN 0 ELSE (i - 1) - a + 1
    BY <2>2, FS_Interval
  <2>4. a > i - 1 => i - a = 0
    OBVIOUS
  <2>5. Cardinality(a .. i - 1) = i - a
    BY <2>2, <2>3, <2>4
  <2> QED BY <2>1, <2>5
<1>3. Ascending(a .. b)[k] = CHOOSE i \in a .. b : Cardinality({j \in a .. b : j < i}) = k - 1
  BY <1>1 DEF Sorted, Ascending
<1>4. a + k - 1 \in a .. b /\ (a + k - 1) - a = k - 1
  OBVIOUS
<1>5. \E i \in a .. b : Cardinality({j \in a .. b : j < i}) = k - 1
  BY <1>2, <1>4
<1>6. PICK i \in a .. b : i = Ascending(a .. b)[k] /\ Cardinality({j \in a .. b : j < i}) = k - 1
  BY <1>3, <1>5
<1>7. i - a = k - 1
  BY <1>2, <1>6
<1>8. i = a + k - 1
  BY <1>7
<1> QED BY <1>6, <1>8

-----------------------------------------------------------------------------
\* r is what is left of s when some of its places are dropped.
Sublist(r, s) ==
  \E g \in [DOMAIN r -> DOMAIN s] :
    /\ \A i \in DOMAIN r : r[i] = s[g[i]]
    /\ \A i, j \in DOMAIN r : i < j => g[i] < g[j]

\* A list has no more places than its length.
LEMMA PlacesAreFew ==
  ASSUME NEW S, NEW list \in Seq(S), NEW P \in SUBSET (DOMAIN list)
  PROVE  IsFiniteSet(P) /\ Cardinality(P) \in Nat /\ Cardinality(P) <= Len(list)
<1>1. Len(list) \in Nat /\ DOMAIN list = 1 .. Len(list)
  OBVIOUS
<1>2. IsFiniteSet(1 .. Len(list))
  BY <1>1, FS_Interval
<1>3. Cardinality(1 .. Len(list)) = Len(list)
  <2>1. Len(list) \in Int /\ 1 \in Int /\ 1 <= Len(list) + 1 /\ Len(list) - 1 + 1 = Len(list)
    BY <1>1
  <2>2. Cardinality(1 .. Len(list)) = Len(list) - 1 + 1
    BY <2>1, IntervalSorts
  <2> QED BY <2>1, <2>2
<1> QED BY <1>1, <1>2, <1>3, FS_Subset, FS_CardinalityType

LEMMA PlacesAreSublist ==
  ASSUME NEW S, NEW list \in Seq(S), NEW P \in SUBSET (DOMAIN list)
  PROVE  /\ AtPlaces(list, P) \in Seq(S) /\ Len(AtPlaces(list, P)) = Cardinality(P)
         /\ Sublist(AtPlaces(list, P), list)
         /\ \A i \in P : \E k \in DOMAIN AtPlaces(list, P) : AtPlaces(list, P)[k] = list[i]
         /\ \A k \in DOMAIN AtPlaces(list, P) : \E i \in P : AtPlaces(list, P)[k] = list[i]
<1> DEFINE order == Ascending(P)
           n == Cardinality(P)
           r == AtPlaces(list, P)
<1>1. P \in SUBSET Int /\ IsFiniteSet(P)
  <2>1. Len(list) \in Nat /\ DOMAIN list = 1 .. Len(list)
    OBVIOUS
  <2>2. IsFiniteSet(1 .. Len(list))
    BY <2>1, FS_Interval
  <2> QED BY <2>1, <2>2, FS_Subset
<1>2. /\ n \in Nat
      /\ order \in [1 .. n -> P]
      /\ \A k, l \in 1 .. n : k < l <=> order[k] < order[l]
      /\ \A i \in P : \E k \in 1 .. n : order[k] = i
  BY <1>1, NumbersSort
<1>3. r = [k \in DOMAIN order |-> list[order[k]]]
  BY DEF AtPlaces
<1> HIDE DEF order, n, r
<1>4. r = [k \in 1 .. n |-> list[order[k]]]
  BY <1>2, <1>3
<1>5. \A k \in 1 .. n : list[order[k]] \in S
  BY <1>2
<1>6. r \in Seq(S) /\ Len(r) = n /\ DOMAIN r = 1 .. n
  BY <1>2, <1>4, <1>5
<1>7. Sublist(r, list)
  <2>1. order \in [DOMAIN r -> DOMAIN list]
    BY <1>2, <1>6
  <2>2. \A k \in DOMAIN r : r[k] = list[order[k]]
    BY <1>4, <1>6
  <2>3. \A k, l \in DOMAIN r : k < l => order[k] < order[l]
    BY <1>2, <1>6
  <2> QED BY <2>1, <2>2, <2>3 DEF Sublist
<1>8. ASSUME NEW i \in P PROVE \E k \in DOMAIN r : r[k] = list[i]
  <2>1. PICK k \in 1 .. n : order[k] = i
    BY <1>2
  <2> QED BY <2>1, <1>4, <1>6
<1>9. ASSUME NEW k \in DOMAIN r PROVE \E i \in P : r[k] = list[i]
  BY <1>2, <1>4, <1>6
<1> QED BY <1>6, <1>7, <1>8, <1>9 DEF n, r

\* The last part of a list.
LEMMA SuffixIsSublist ==
  ASSUME NEW S, NEW s \in Seq(S), NEW a \in 1 .. Len(s) + 1
  PROVE  /\ SubSeq(s, a, Len(s)) \in Seq(S) /\ Len(SubSeq(s, a, Len(s))) = Len(s) - a + 1
         /\ Sublist(SubSeq(s, a, Len(s)), s)
<1> DEFINE r == SubSeq(s, a, Len(s))
           g == [i \in DOMAIN r |-> i + a - 1]
<1>1. r \in Seq(S) /\ Len(r) = Len(s) - a + 1 /\ DOMAIN r = 1 .. Len(r) /\ Len(s) \in Nat
  OBVIOUS
<1>2. \A i \in DOMAIN r : r[i] = s[i + a - 1] /\ i + a - 1 \in DOMAIN s
  BY <1>1
<1> HIDE DEF r
<1>3. g \in [DOMAIN r -> DOMAIN s] /\ \A i \in DOMAIN r : r[i] = s[g[i]]
  BY <1>2
<1>4. \A i, j \in DOMAIN r : i < j => g[i] < g[j]
  BY <1>1
<1> HIDE DEF g
<1>5. Sublist(r, s)
  BY <1>3, <1>4 DEF Sublist
<1> QED BY <1>1, <1>5 DEF r

LEMMA SublistOfItself == ASSUME NEW s PROVE Sublist(s, s)
<1> DEFINE g == [i \in DOMAIN s |-> i]
<1>1. /\ g \in [DOMAIN s -> DOMAIN s] /\ \A i \in DOMAIN s : s[i] = s[g[i]]
      /\ \A i, j \in DOMAIN s : i < j => g[i] < g[j]
  OBVIOUS
<1> QED BY <1>1 DEF Sublist

-----------------------------------------------------------------------------
\* What is known of the elements of lists.
LEMMA Elements ==
  ASSUME NEW S, NEW list \in Seq(S)
  PROVE  Len(list) \in Nat /\ DOMAIN list = 1 .. Len(list) /\ \A i \in 1 .. Len(list) : list[i] \in S
OBVIOUS

LEMMA PairOfNumbers ==
  ASSUME NEW pair \in Seq(Nat), Len(pair) = 2
  PROVE  pair[1] \in Nat /\ pair[2] \in Nat
OBVIOUS

LEMMA Retyped ==
  ASSUME NEW S, NEW T, NEW list \in Seq(S), \A i \in 1 .. Len(list) : list[i] \in T
  PROVE  list \in Seq(T)
OBVIOUS

LEMMA Joined ==
  ASSUME NEW S, NEW first \in Seq(S), NEW second \in Seq(S)
  PROVE  first \o second \in Seq(S) /\ Len(first \o second) = Len(first) + Len(second)
OBVIOUS
=============================================================================
