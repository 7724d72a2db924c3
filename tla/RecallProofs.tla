------------------------------ MODULE RecallProofs ------------------------------
(***************************************************************************)
(* What is proved of a recall for every catalogue of points, every query,  *)
(* every setting of the rerank limits, and every change of the collection  *)
(* beside it.                                                              *)
(*                                                                         *)
(* Sorting, collapsing and joining come first: they are arrangements of    *)
(* finite sets, so what they return follows from one fact, that a total    *)
(* order of a finite set lists it (ArrangedLists).  Ranking follows, for   *)
(* any hits; then one lemma for each phase; and last the invariant and the *)
(* six properties.                                                         *)
(***************************************************************************)
EXTENDS Recall, FiniteSetTheorems, SequenceTheorems, TLAPS

-------------------------------------------------------------------------------
(* Finite sets in order *)

TotalOrder(S, order) ==
  \A x, y \in S : /\ <<x, x>> \in order
                  /\ <<x, y>> \in order \/ <<y, x>> \in order
                  /\ <<x, y>> \in order /\ <<y, x>> \in order => x = y
                  /\ \A z \in S : <<x, y>> \in order /\ <<y, z>> \in order => <<x, z>> \in order

\* a has the elements of S at the places 1 to n, in their order.
Lists(a, n, S, order) ==
  /\ a \in [1 .. n -> S]
  /\ \A x \in S : \E k \in 1 .. n : a[k] = x
  /\ \A j, k \in 1 .. n : j <= k <=> <<a[j], a[k]>> \in order

UpTo(S, order, x) == {y \in S : <<y, x>> \in order}

LEMMA PlaceGrows ==
  ASSUME NEW S, IsFiniteSet(S), NEW order, TotalOrder(S, order), NEW x \in S, NEW y \in S
  PROVE  /\ Cardinality(UpTo(S, order, x)) \in 1 .. Cardinality(S)
         /\ <<x, y>> \in order <=> Cardinality(UpTo(S, order, x)) <= Cardinality(UpTo(S, order, y))
<1>1. \A z \in S : /\ UpTo(S, order, z) \in SUBSET S
                   /\ IsFiniteSet(UpTo(S, order, z))
                   /\ Cardinality(UpTo(S, order, z)) \in Nat
  <2> SUFFICES ASSUME NEW z \in S
               PROVE  /\ UpTo(S, order, z) \in SUBSET S
                      /\ IsFiniteSet(UpTo(S, order, z))
                      /\ Cardinality(UpTo(S, order, z)) \in Nat
    OBVIOUS
  <2>1. UpTo(S, order, z) \in SUBSET S
    BY DEF UpTo
  <2>2. IsFiniteSet(UpTo(S, order, z))
    BY <2>1, FS_Subset
  <2> QED BY <2>1, <2>2, FS_CardinalityType
<1>2. ASSUME NEW v \in S, NEW w \in S, <<v, w>> \in order
      PROVE  /\ Cardinality(UpTo(S, order, v)) <= Cardinality(UpTo(S, order, w))
             /\ Cardinality(UpTo(S, order, v)) = Cardinality(UpTo(S, order, w)) => v = w
  <2>1. UpTo(S, order, v) \in SUBSET UpTo(S, order, w)
    BY <1>2 DEF UpTo, TotalOrder
  <2>2. w \in UpTo(S, order, w) /\ (w \in UpTo(S, order, v) => v = w)
    BY <1>2 DEF UpTo, TotalOrder
  <2>3. /\ Cardinality(UpTo(S, order, v)) <= Cardinality(UpTo(S, order, w))
        /\ Cardinality(UpTo(S, order, w)) = Cardinality(UpTo(S, order, v))
              => UpTo(S, order, w) = UpTo(S, order, v)
    BY <1>1, <2>1, FS_Subset
  <2> QED BY <2>2, <2>3
<1>3. Cardinality(UpTo(S, order, x)) \in 1 .. Cardinality(S)
  <2>1. Cardinality(UpTo(S, order, x)) <= Cardinality(S) /\ Cardinality(S) \in Nat
    BY <1>1, FS_Subset, FS_CardinalityType
  <2>2. x \in UpTo(S, order, x)
    BY DEF UpTo, TotalOrder
  <2>3. Cardinality(UpTo(S, order, x)) # 0
    BY <1>1, <2>2, FS_EmptySet
  <2> QED BY <1>1, <2>1, <2>3
<1>4. <<x, y>> \in order \/ <<y, x>> \in order
  BY DEF TotalOrder
<1>5. <<x, x>> \in order
  BY DEF TotalOrder
<1> QED BY <1>1, <1>2, <1>3, <1>4, <1>5

LEMMA ArrangedLists ==
  ASSUME NEW S, IsFiniteSet(S), NEW order, TotalOrder(S, order)
  PROVE  Lists(Arranged(S, order), Cardinality(S), S, order)
<1> DEFINE n == Cardinality(S)
           place == [x \in S |-> Cardinality(UpTo(S, order, x))]
           a == Arranged(S, order)
<1>1. n \in Nat
  BY FS_CardinalityType
<1>2. place \in [S -> 1 .. n]
  BY PlaceGrows
<1>3. \A x, y \in S : <<x, y>> \in order <=> place[x] <= place[y]
  BY PlaceGrows
<1>4. \A x, y \in S : place[x] = place[y] => x = y
  <2> SUFFICES ASSUME NEW x \in S, NEW y \in S, place[x] = place[y] PROVE x = y
    BY Zenon
  <2>1. place[x] <= place[y] /\ place[y] <= place[x]
    <3> HIDE DEF place
    <3> QED BY <1>1, <1>2
  <2>2. <<x, y>> \in order /\ <<y, x>> \in order
    BY <1>3, <2>1, Zenon
  <2> QED BY <2>2 DEF TotalOrder
<1>5. \A k \in 1 .. n : \E x \in S : place[x] = k
  <2>1. place \in Injection(S, 1 .. n)
    <3> HIDE DEF place
    <3> QED BY <1>2, <1>4 DEF Injection, IsInjective
  <2>2. IsFiniteSet(1 .. n) /\ Cardinality(1 .. n) = n
    <3> HIDE DEF n
    <3> QED BY <1>1, FS_Interval
  <2>3. place \in Surjection(S, 1 .. n)
    <3> HIDE DEF place
    <3> QED BY <2>1, <2>2, FS_Injection
  <2> HIDE DEF place, n
  <2> QED BY <2>3 DEF Surjection
<1>6. DOMAIN a = 1 .. n
  BY DEF Arranged
<1>7. \A k \in 1 .. n : a[k] \in S /\ place[a[k]] = k
  <2> SUFFICES ASSUME NEW k \in 1 .. n PROVE a[k] \in S /\ place[a[k]] = k
    BY Zenon
  <2>1. a[k] = CHOOSE x \in S : Cardinality(UpTo(S, order, x)) = k
    BY DEF Arranged, UpTo
  <2>2. PICK x \in S : place[x] = k
    BY <1>5
  <2>3. Cardinality(UpTo(S, order, x)) = k
    BY <2>2
  <2>4. a[k] \in S /\ Cardinality(UpTo(S, order, a[k])) = k
    <3> HIDE DEF a, n, place
    <3> QED BY <2>1, <2>3, Zenon
  <2> HIDE DEF a, n
  <2> QED BY <2>4
<1>8. a \in [1 .. n -> S]
  <2> DEFINE c(k) == CHOOSE x \in S : Cardinality({y \in S : <<y, x>> \in order}) = k
  <2>1. a = [k \in 1 .. n |-> c(k)]
    BY DEF Arranged
  <2> HIDE DEF a, n, place, c
  <2> QED BY <1>7, <2>1
<1>9. ASSUME NEW x \in S PROVE \E k \in 1 .. n : a[k] = x
  <2>1. place[x] \in 1 .. n
    <3> HIDE DEF place, n
    <3> QED BY <1>2
  <2>2. a[place[x]] = x
    <3> HIDE DEF place, n, a
    <3> QED BY <1>4, <1>7, <2>1
  <2> HIDE DEF place, n, a
  <2> QED BY <2>1, <2>2
<1>10. \A j, k \in 1 .. n : j <= k <=> <<a[j], a[k]>> \in order
  <2> HIDE DEF place, n, a
  <2> QED BY <1>3, <1>7
<1> HIDE DEF place, n, a
<1>11. Lists(a, n, S, order)
  BY <1>8, <1>9, <1>10 DEF Lists
<1> QED BY <1>11 DEF a, n

\* Finite sets of numbers.
LEMMA AscendingLists ==
  ASSUME NEW S \in SUBSET Int, IsFiniteSet(S)
  PROVE  /\ Cardinality(S) \in Nat
         /\ Ascending(S) \in [1 .. Cardinality(S) -> S]
         /\ \A x \in S : \E k \in 1 .. Cardinality(S) : Ascending(S)[k] = x
         /\ \A j, k \in 1 .. Cardinality(S) : j < k <=> Ascending(S)[j] < Ascending(S)[k]
<1> DEFINE order == {p \in S \X S : p[1] <= p[2]}
           n == Cardinality(S)
           a == Ascending(S)
<1>1. \A x, y \in S : <<x, y>> \in order <=> x <= y
  OBVIOUS
<1>2. TotalOrder(S, order)
  <2> HIDE DEF order
  <2>1. \A x \in S : x \in Int
    OBVIOUS
  <2> SUFFICES ASSUME NEW x \in S, NEW y \in S, NEW z \in S
               PROVE  /\ <<x, x>> \in order
                      /\ <<x, y>> \in order \/ <<y, x>> \in order
                      /\ <<x, y>> \in order /\ <<y, x>> \in order => x = y
                      /\ <<x, y>> \in order /\ <<y, z>> \in order => <<x, z>> \in order
    BY Zenon DEF TotalOrder
  <2>2. /\ <<x, x>> \in order <=> x <= x
        /\ <<x, y>> \in order <=> x <= y
        /\ <<y, x>> \in order <=> y <= x
        /\ <<y, z>> \in order <=> y <= z
        /\ <<x, z>> \in order <=> x <= z
    BY <1>1, Zenon
  <2> QED BY <2>1, <2>2
<1>3. a = Arranged(S, order)
  BY DEF Ascending
<1>4. Lists(a, n, S, order)
  <2> HIDE DEF order, n, a
  <2> QED BY <1>2, <1>3, ArrangedLists DEF n
<1>5. n \in Nat
  BY FS_CardinalityType
<1>6. a \in [1 .. n -> S] /\ \A x \in S : \E k \in 1 .. n : a[k] = x
  <2> HIDE DEF order, n, a
  <2> QED BY <1>4 DEF Lists
<1>7. \A j, k \in 1 .. n : j <= k <=> a[j] <= a[k]
  <2> HIDE DEF order, n, a
  <2> QED BY <1>1, <1>4, <1>6 DEF Lists
<1> HIDE DEF order, n, a
<1>8. \A j, k \in 1 .. n : j < k <=> a[j] < a[k]
  <2> SUFFICES ASSUME NEW j \in 1 .. n, NEW k \in 1 .. n PROVE j < k <=> a[j] < a[k]
    BY Zenon
  <2>1. k <= j <=> a[k] <= a[j]
    BY <1>7
  <2>2. a[j] \in Int /\ a[k] \in Int
    BY <1>6
  <2> QED BY <2>1, <2>2, <1>5
<1> QED BY <1>5, <1>6, <1>8 DEF n, a

LEMMA Extremes ==
  ASSUME NEW S \in SUBSET Int, IsFiniteSet(S), S # {}
  PROVE  /\ Max(S) \in S /\ \A x \in S : Max(S) >= x
         /\ Min(S) \in S /\ \A x \in S : Min(S) <= x
<1> DEFINE n == Cardinality(S)
           a == Ascending(S)
<1>1. /\ n \in Nat /\ a \in [1 .. n -> S]
      /\ \A x \in S : \E k \in 1 .. n : a[k] = x
      /\ \A j, k \in 1 .. n : j < k <=> a[j] < a[k]
  BY AscendingLists, Zenon
<1> HIDE DEF n, a
<1>2. 1 \in 1 .. n /\ n \in 1 .. n
  <2>1. PICK x \in S : TRUE
    OBVIOUS
  <2>2. PICK k \in 1 .. n : a[k] = x
    BY <1>1, Zenon
  <2>3. n >= 1
    BY <1>1, <2>2
  <2> QED BY <1>1, <2>3
<1>0. \A k \in 1 .. n : a[k] \in S /\ a[k] \in Int
  BY <1>1
<1>3. a[n] \in S /\ \A x \in S : a[n] >= x
  <2> SUFFICES ASSUME NEW x \in S PROVE a[n] \in S /\ a[n] >= x
    BY Zenon
  <2>1. PICK k \in 1 .. n : a[k] = x
    BY <1>1
  <2>2. ~(n < k)
    BY <1>1
  <2>3. ~(a[n] < a[k])
    BY <1>1, <1>2, <2>2, Zenon
  <2> QED BY <1>0, <1>2, <2>1, <2>3
<1>4. a[1] \in S /\ \A x \in S : a[1] <= x
  <2> SUFFICES ASSUME NEW x \in S PROVE a[1] \in S /\ a[1] <= x
    BY Zenon
  <2>1. PICK k \in 1 .. n : a[k] = x
    BY <1>1
  <2>2. ~(k < 1)
    BY <1>1
  <2>3. ~(a[k] < a[1])
    BY <1>1, <1>2, <2>2, Zenon
  <2> QED BY <1>0, <1>2, <2>1, <2>3
<1>5. Max(S) \in S /\ \A x \in S : Max(S) >= x
  BY <1>3, Zenon DEF Max
<1>6. Min(S) \in S /\ \A x \in S : Min(S) <= x
  BY <1>4, Zenon DEF Min
<1> QED BY <1>5, <1>6

LEMMA Pair ==
  ASSUME NEW x \in Int, NEW y \in Int
  PROVE  /\ Min({x, y}) = IF x <= y THEN x ELSE y
         /\ Max({x, y}) = IF x <= y THEN y ELSE x
<1>1. IsFiniteSet({x, y})
  <2>1. {x, y} = {x} \cup {y}
    OBVIOUS
  <2>2. IsFiniteSet({x}) /\ IsFiniteSet({y})
    BY FS_Singleton, Zenon
  <2>3. IsFiniteSet({x} \cup {y})
    BY <2>2, FS_Union
  <2> QED BY <2>1, <2>3, Zenon
<1>2. /\ Max({x, y}) \in {x, y} /\ \A z \in {x, y} : Max({x, y}) >= z
      /\ Min({x, y}) \in {x, y} /\ \A z \in {x, y} : Min({x, y}) <= z
  BY <1>1, Extremes
<1> QED BY <1>2

-------------------------------------------------------------------------------
(* Sequences *)

LEMMA FunctionIsSeq ==
  ASSUME NEW X, NEW n \in Nat, NEW s \in [1 .. n -> X]
  PROVE  s \in Seq(X) /\ Len(s) = n
OBVIOUS

LEMMA LimitedIs ==
  ASSUME NEW X, NEW s \in Seq(X), NEW n \in Nat
  PROVE  /\ Limited(s, n) \in Seq(X)
         /\ Len(Limited(s, n)) = IF n <= Len(s) THEN n ELSE Len(s)
         /\ \A k \in 1 .. Len(Limited(s, n)) : k \in 1 .. Len(s) /\ Limited(s, n)[k] = s[k]
<1> DEFINE m == IF n <= Len(s) THEN n ELSE Len(s)
<1>1. Len(s) \in Nat
  OBVIOUS
<1>2. Limited(s, n) = SubSeq(s, 1, m)
  BY <1>1, Pair DEF Limited
<1>3. m \in Nat /\ m <= Len(s)
  BY <1>1
<1> HIDE DEF m
<1>4. \A k \in 1 .. m : k \in 1 .. Len(s) /\ s[k] \in X
  BY <1>1, <1>3
<1>5. SubSeq(s, 1, m) \in Seq(X) /\ Len(SubSeq(s, 1, m)) = m
  BY <1>1, <1>3, <1>4
<1>6. \A k \in 1 .. m : SubSeq(s, 1, m)[k] = s[k]
  BY <1>1, <1>3
<1> QED BY <1>2, <1>4, <1>5, <1>6 DEF m

LEMMA Indices ==
  ASSUME NEW X, NEW s \in Seq(X), NEW P \in SUBSET DOMAIN s
  PROVE  P \in SUBSET Int /\ IsFiniteSet(P) /\ Cardinality(P) \in Nat /\ DOMAIN s = 1 .. Len(s)
<1>1. DOMAIN s = 1 .. Len(s) /\ Len(s) \in Nat
  OBVIOUS
<1>2. IsFiniteSet(1 .. Len(s))
  BY <1>1, FS_Interval
<1> QED BY <1>1, <1>2, FS_Subset, FS_CardinalityType

\* What At makes of s comes from the positions, in their order.
Picks(t, s, P) ==
  /\ \A k \in 1 .. Len(t) : \E p \in P : t[k] = s[p]
  /\ \A p \in P : \E k \in 1 .. Len(t) : t[k] = s[p]
  /\ \A j, k \in 1 .. Len(t) : j < k => \E p, q \in P : p < q /\ t[j] = s[p] /\ t[k] = s[q]

LEMMA AtPicks ==
  ASSUME NEW X, NEW s \in Seq(X), NEW P \in SUBSET DOMAIN s
  PROVE  At(s, P) \in Seq(X) /\ Len(At(s, P)) = Cardinality(P) /\ Picks(At(s, P), s, P)
<1> DEFINE n == Cardinality(P)
           a == Ascending(P)
           t == At(s, P)
<1>1. P \in SUBSET Int /\ IsFiniteSet(P) /\ n \in Nat /\ DOMAIN s = 1 .. Len(s)
  BY Indices
<1>2. /\ a \in [1 .. n -> P]
      /\ \A x \in P : \E k \in 1 .. n : a[k] = x
      /\ \A j, k \in 1 .. n : j < k <=> a[j] < a[k]
  BY <1>1, AscendingLists, Zenon
<1>3. t = [k \in 1 .. n |-> s[a[k]]]
  BY DEF At
<1> HIDE DEF n, a, t
<1>4. \A k \in 1 .. n : s[a[k]] \in X
  BY <1>1, <1>2
<1>5. t \in Seq(X) /\ Len(t) = n
  BY <1>1, <1>3, <1>4
<1>6. \A k \in 1 .. n : a[k] \in P /\ t[k] = s[a[k]]
  BY <1>2, <1>3
<1>7. \A j, k \in 1 .. n : j < k => a[j] < a[k]
  BY <1>2
<1>8. \A p \in P : \E k \in 1 .. n : t[k] = s[p]
  BY <1>2, <1>6
<1>9. \A j, k \in 1 .. n : j < k => \E p, q \in P : p < q /\ t[j] = s[p] /\ t[k] = s[q]
  BY <1>6, <1>7
<1>10. \A k \in 1 .. n : \E p \in P : t[k] = s[p]
  BY <1>6, Zenon
<1>11. Picks(t, s, P)
  BY <1>5, <1>8, <1>9, <1>10 DEF Picks
<1> QED BY <1>5, <1>11 DEF n, t

\* An element of a sequence has a first occurrence.
LEMMA FirstPlace ==
  ASSUME NEW X, NEW s \in Seq(X), NEW k \in DOMAIN s
  PROVE  \E i \in DOMAIN s : s[i] = s[k] /\ \A j \in 1 .. i - 1 : s[j] # s[k]
<1> DEFINE P == {i \in DOMAIN s : s[i] = s[k]}
<1>1. P \in SUBSET Int /\ IsFiniteSet(P) /\ P # {} /\ DOMAIN s = 1 .. Len(s)
  BY Indices
<1>2. Min(P) \in P /\ \A x \in P : Min(P) <= x
  <2> HIDE DEF P
  <2> QED BY <1>1, Extremes
<1>3. \A j \in 1 .. Min(P) - 1 : j \in DOMAIN s /\ ~(Min(P) <= j)
  <2>1. Min(P) \in 1 .. Len(s) /\ Len(s) \in Nat
    BY <1>1, <1>2
  <2> HIDE DEF P
  <2> QED BY <2>1, <1>1
<1>4. \A j \in 1 .. Min(P) - 1 : s[j] # s[k]
  BY <1>2, <1>3
<1> QED BY <1>2, <1>4

LEMMA UniqueIs ==
  ASSUME NEW X, NEW s \in Seq(X)
  PROVE  Unique(s) \in Seq(X) /\ IsInjective(Unique(s)) /\ ToSet(Unique(s)) = ToSet(s) \ {<<>>}
<1> DEFINE P == {k \in DOMAIN s : s[k] # <<>> /\ \A j \in 1 .. k - 1 : s[j] # s[k]}
           t == Unique(s)
<1>1. t = At(s, P) /\ P \in SUBSET DOMAIN s
  BY DEF Unique
<1>2. P \in SUBSET Int /\ DOMAIN s = 1 .. Len(s)
  BY Indices
<1>3. \A p, q \in P : p < q => s[p] # s[q]
  <2> SUFFICES ASSUME NEW p \in P, NEW q \in P, p < q PROVE s[p] # s[q]
    BY Zenon
  <2>1. p \in 1 .. q - 1
    BY <1>2
  <2> QED BY <2>1
<1>4. \A k \in DOMAIN s : s[k] # <<>> => \E p \in P : s[p] = s[k]
  BY FirstPlace
<1>5. \A p \in P : s[p] # <<>> /\ p \in DOMAIN s
  OBVIOUS
<1> HIDE DEF P, t
<1>6. t \in Seq(X) /\ Picks(t, s, P)
  BY <1>1, AtPicks
<1>7. DOMAIN t = 1 .. Len(t) /\ Len(t) \in Nat
  BY <1>6
<1>8. \A j, k \in 1 .. Len(t) : j < k => t[j] # t[k]
  BY <1>3, <1>6 DEF Picks
<1>9. IsInjective(t)
  BY <1>7, <1>8 DEF IsInjective
<1>10. ToSet(t) = ToSet(s) \ {<<>>}
  <2>1. ASSUME NEW x \in ToSet(t) PROVE x \in ToSet(s) \ {<<>>}
    <3>1. PICK k \in 1 .. Len(t) : x = t[k]
      BY <1>7 DEF ToSet
    <3>2. PICK p \in P : t[k] = s[p]
      BY <1>6 DEF Picks
    <3> QED BY <3>1, <3>2, <1>5 DEF ToSet
  <2>2. ASSUME NEW x \in ToSet(s) \ {<<>>} PROVE x \in ToSet(t)
    <3>1. PICK k \in DOMAIN s : x = s[k]
      BY DEF ToSet
    <3>2. PICK p \in P : s[p] = s[k]
      BY <3>1, <1>4
    <3>3. PICK j \in 1 .. Len(t) : t[j] = s[p]
      BY <1>6 DEF Picks
    <3> QED BY <3>1, <3>2, <3>3, <1>7 DEF ToSet
  <2> QED BY <2>1, <2>2
<1> QED BY <1>6, <1>9, <1>10 DEF t

LEMMA JoinedIn ==
  ASSUME NEW X, NEW seqs \in Seq(Seq(X))
  PROVE  Joined(seqs) \in Seq(X)
<1> DEFINE places == UNION {{k} \X (DOMAIN seqs[k]) : k \in DOMAIN seqs}
           order  == {p \in places \X places : \/ p[1][1] < p[2][1]
                                               \/ p[1][1] = p[2][1] /\ p[1][2] <= p[2][2]}
           n == Cardinality(places)
           a == Arranged(places, order)
<1>1. /\ DOMAIN seqs = 1 .. Len(seqs) /\ Len(seqs) \in Nat
      /\ \A k \in DOMAIN seqs : /\ seqs[k] \in Seq(X) /\ Len(seqs[k]) \in Nat
                                /\ DOMAIN seqs[k] = 1 .. Len(seqs[k])
  OBVIOUS
<1>2. \A p \in places : /\ p[1] \in DOMAIN seqs /\ p[2] \in DOMAIN seqs[p[1]] /\ p = <<p[1], p[2]>>
                        /\ p[1] \in Int /\ p[2] \in Int
  <2> SUFFICES ASSUME NEW p \in places
               PROVE  /\ p[1] \in DOMAIN seqs /\ p[2] \in DOMAIN seqs[p[1]] /\ p = <<p[1], p[2]>>
                      /\ p[1] \in Int /\ p[2] \in Int
    BY Zenon
  <2>1. PICK k \in DOMAIN seqs : p \in {k} \X (DOMAIN seqs[k])
    OBVIOUS
  <2>2. p[1] = k /\ p[2] \in DOMAIN seqs[k] /\ p = <<p[1], p[2]>>
    BY <2>1
  <2> HIDE DEF places
  <2> QED BY <1>1, <2>2
<1>3. IsFiniteSet(places)
  <2>1. \A k \in DOMAIN seqs : IsFiniteSet({k} \X (DOMAIN seqs[k]))
    <3> SUFFICES ASSUME NEW k \in DOMAIN seqs PROVE IsFiniteSet({k} \X (DOMAIN seqs[k]))
      BY Zenon
    <3>1. IsFiniteSet({k})
      BY FS_Singleton, Zenon
    <3>2. DOMAIN seqs[k] = 1 .. Len(seqs[k]) /\ Len(seqs[k]) \in Int
      BY <1>1
    <3>3. IsFiniteSet(DOMAIN seqs[k])
      <4> DEFINE l == Len(seqs[k])
      <4> HIDE DEF l
      <4>1. IsFiniteSet(1 .. l)
        BY <3>2, FS_Interval DEF l
      <4> QED BY <3>2, <4>1 DEF l
    <3> QED BY <3>1, <3>3, FS_Product
  <2> DEFINE T == {{k} \X (DOMAIN seqs[k]) : k \in DOMAIN seqs}
             f == [k \in DOMAIN seqs |-> {k} \X (DOMAIN seqs[k])]
  <2>2. f \in Surjection(DOMAIN seqs, T)
    BY DEF Surjection
  <2>3. IsFiniteSet(DOMAIN seqs)
    BY <1>1, FS_Interval
  <2>4. IsFiniteSet(T)
    <3> HIDE DEF T, f
    <3> QED BY <2>2, <2>3, FS_Surjection
  <2>5. \A U \in T : IsFiniteSet(U)
    BY <2>1
  <2>6. places = UNION T
    OBVIOUS
  <2> HIDE DEF places, T
  <2> QED BY <2>4, <2>5, <2>6, FS_UNION
<1>4. \A x, y \in places : <<x, y>> \in order <=> (x[1] < y[1] \/ (x[1] = y[1] /\ x[2] <= y[2]))
  <2> HIDE DEF places
  <2> QED OBVIOUS
<1>5. TotalOrder(places, order)
  <2> HIDE DEF places, order
  <2> SUFFICES ASSUME NEW x \in places, NEW y \in places
               PROVE  /\ <<x, x>> \in order
                      /\ <<x, y>> \in order \/ <<y, x>> \in order
                      /\ <<x, y>> \in order /\ <<y, x>> \in order => x = y
                      /\ \A z \in places : <<x, y>> \in order /\ <<y, z>> \in order
                                              => <<x, z>> \in order
    BY Zenon DEF TotalOrder
  <2>1. <<x, x>> \in order /\ (<<x, y>> \in order \/ <<y, x>> \in order)
    BY <1>2, <1>4
  <2>2. <<x, y>> \in order /\ <<y, x>> \in order => x[1] = y[1] /\ x[2] = y[2]
    <3>1. x[1] \in Int /\ y[1] \in Int /\ x[2] \in Int /\ y[2] \in Int
      BY <1>2
    <3>2. /\ <<x, y>> \in order <=> (x[1] < y[1] \/ (x[1] = y[1] /\ x[2] <= y[2]))
          /\ <<y, x>> \in order <=> (y[1] < x[1] \/ (y[1] = x[1] /\ y[2] <= x[2]))
      BY <1>4
    <3> QED BY <3>1, <3>2
  <2>3. x = <<x[1], x[2]>> /\ y = <<y[1], y[2]>>
    BY <1>2, Zenon
  <2>4. ASSUME NEW z \in places, <<x, y>> \in order, <<y, z>> \in order
        PROVE  <<x, z>> \in order
    <3>1. x[1] \in Int /\ y[1] \in Int /\ z[1] \in Int /\ x[2] \in Int /\ y[2] \in Int /\ z[2] \in Int
      BY <1>2
    <3>2. x[1] < y[1] \/ (x[1] = y[1] /\ x[2] <= y[2])
      BY <2>4, <1>4
    <3>3. y[1] < z[1] \/ (y[1] = z[1] /\ y[2] <= z[2])
      BY <2>4, <1>4
    <3>4. x[1] < z[1] \/ (x[1] = z[1] /\ x[2] <= z[2])
      BY <3>1, <3>2, <3>3
    <3> QED BY <1>4, <3>4
  <2> QED BY <2>1, <2>2, <2>3, <2>4
<1>6. n \in Nat
  <2> HIDE DEF places
  <2> QED BY <1>3, FS_CardinalityType
<1>7. Lists(a, n, places, order)
  <2> HIDE DEF places, order
  <2> QED BY <1>3, <1>5, ArrangedLists
<1>8. Joined(seqs) = [k \in 1 .. n |-> seqs[a[k][1]][a[k][2]]]
  BY DEF Joined
<1> HIDE DEF n, a, places, order
<1>9. \A k \in 1 .. n : a[k] \in places
  BY <1>7 DEF Lists
<1>10. \A k \in 1 .. n : seqs[a[k][1]][a[k][2]] \in X
  <2> SUFFICES ASSUME NEW k \in 1 .. n PROVE seqs[a[k][1]][a[k][2]] \in X
    BY Zenon
  <2> DEFINE p == a[k]
  <2>1. p[1] \in DOMAIN seqs /\ p[2] \in DOMAIN seqs[p[1]]
    BY <1>2, <1>9
  <2> HIDE DEF p
  <2>2. seqs[p[1]][p[2]] \in X
    BY <1>1, <2>1
  <2> QED BY <2>2 DEF p
<1> QED BY <1>6, <1>8, <1>10

-------------------------------------------------------------------------------
(* Sorting *)

Lexical(order, D, f, g) ==
  \A i, j \in D : <<i, j>> \in order <=>
    \/ f[i] > f[j] \/ (f[i] = f[j] /\ g[i] > g[j])
    \/ ~(f[j] > f[i] \/ (f[j] = f[i] /\ g[j] > g[i])) /\ i <= j

\* t has the elements of s, those with the greater f first, and the greater g among these.
Permutes(p, t, s) ==
  /\ p \in [1 .. Len(s) -> 1 .. Len(s)]
  /\ \A k \in 1 .. Len(s) : t[k] = s[p[k]]
  /\ \A i \in 1 .. Len(s) : \E k \in 1 .. Len(s) : p[k] = i
  /\ \A j, k \in 1 .. Len(s) : p[j] = p[k] => j = k

SortedBy(t, s, f, g) ==
  \E p : /\ Permutes(p, t, s)
         /\ \A j, k \in 1 .. Len(s) : j <= k => \/ f[p[j]] > f[p[k]]
                                                \/ f[p[j]] = f[p[k]] /\ g[p[j]] >= g[p[k]]

LEMMA LexicalTotal ==
  ASSUME NEW n \in Nat, NEW f \in [1 .. n -> Int], NEW g \in [1 .. n -> Int], NEW order,
         Lexical(order, 1 .. n, f, g)
  PROVE  TotalOrder(1 .. n, order)
<1> SUFFICES ASSUME NEW x \in 1 .. n, NEW y \in 1 .. n, NEW z \in 1 .. n
             PROVE  /\ <<x, x>> \in order
                    /\ <<x, y>> \in order \/ <<y, x>> \in order
                    /\ <<x, y>> \in order /\ <<y, x>> \in order => x = y
                    /\ <<x, y>> \in order /\ <<y, z>> \in order => <<x, z>> \in order
  BY Zenon DEF TotalOrder
<1>1. /\ f[x] \in Int /\ f[y] \in Int /\ f[z] \in Int /\ g[x] \in Int /\ g[y] \in Int /\ g[z] \in Int
      /\ x \in Int /\ y \in Int /\ z \in Int
  OBVIOUS
<1>2. /\ <<x, x>> \in order <=> \/ f[x] > f[x] \/ (f[x] = f[x] /\ g[x] > g[x])
                                \/ ~(f[x] > f[x] \/ (f[x] = f[x] /\ g[x] > g[x])) /\ x <= x
      /\ <<x, y>> \in order <=> \/ f[x] > f[y] \/ (f[x] = f[y] /\ g[x] > g[y])
                                \/ ~(f[y] > f[x] \/ (f[y] = f[x] /\ g[y] > g[x])) /\ x <= y
      /\ <<y, x>> \in order <=> \/ f[y] > f[x] \/ (f[y] = f[x] /\ g[y] > g[x])
                                \/ ~(f[x] > f[y] \/ (f[x] = f[y] /\ g[x] > g[y])) /\ y <= x
      /\ <<y, z>> \in order <=> \/ f[y] > f[z] \/ (f[y] = f[z] /\ g[y] > g[z])
                                \/ ~(f[z] > f[y] \/ (f[z] = f[y] /\ g[z] > g[y])) /\ y <= z
      /\ <<x, z>> \in order <=> \/ f[x] > f[z] \/ (f[x] = f[z] /\ g[x] > g[z])
                                \/ ~(f[z] > f[x] \/ (f[z] = f[x] /\ g[z] > g[x])) /\ x <= z
  BY Zenon DEF Lexical
<1>3. <<x, x>> \in order
  BY <1>1, <1>2
<1>4. <<x, y>> \in order \/ <<y, x>> \in order
  BY <1>1, <1>2
<1>5. <<x, y>> \in order /\ <<y, x>> \in order => x = y
  BY <1>1, <1>2
<1>6. <<x, y>> \in order /\ <<y, z>> \in order => <<x, z>> \in order
  BY <1>1, <1>2
<1> QED BY <1>3, <1>4, <1>5, <1>6

LEMMA LexicalSorts ==
  ASSUME NEW X, NEW s \in Seq(X), NEW f \in [DOMAIN s -> Int], NEW g \in [DOMAIN s -> Int],
         NEW order, Lexical(order, DOMAIN s, f, g),
         NEW t, t = [k \in DOMAIN s |-> s[Arranged(DOMAIN s, order)[k]]]
  PROVE  t \in Seq(X) /\ Len(t) = Len(s) /\ SortedBy(t, s, f, g)
<1> DEFINE n == Len(s)
           a == Arranged(DOMAIN s, order)
<1>1. DOMAIN s = 1 .. n /\ n \in Nat
  OBVIOUS
<1>2. IsFiniteSet(1 .. n) /\ Cardinality(1 .. n) = n
  <2> HIDE DEF n
  <2> QED BY <1>1, FS_Interval
<1>3. TotalOrder(1 .. n, order)
  <2> HIDE DEF n
  <2> QED BY <1>1, LexicalTotal
<1>4. Lists(a, n, 1 .. n, order)
  <2>1. Lists(Arranged(1 .. n, order), Cardinality(1 .. n), 1 .. n, order)
    <3> HIDE DEF n
    <3> QED BY <1>2, <1>3, ArrangedLists
  <2> HIDE DEF n
  <2> QED BY <1>1, <1>2, <2>1
<1>5. t = [k \in 1 .. n |-> s[a[k]]] /\ \A i \in 1 .. n : s[i] \in X
  BY <1>1
<1> HIDE DEF n, a
<1>6. a \in [1 .. n -> 1 .. n] /\ \A i \in 1 .. n : \E k \in 1 .. n : a[k] = i
  BY <1>4 DEF Lists
<1>7. \A j, k \in 1 .. n : j <= k <=> <<a[j], a[k]>> \in order
  BY <1>4 DEF Lists
<1>8. \A k \in 1 .. n : t[k] = s[a[k]] /\ s[a[k]] \in X
  BY <1>5, <1>6, Zenon
<1>9. t \in Seq(X) /\ Len(t) = n
  <2> DEFINE b == [k \in 1 .. n |-> s[a[k]]]
  <2>1. b \in [1 .. n -> X]
    BY <1>8, Zenon
  <2>2. t = b /\ n \in Nat
    BY <1>1, <1>5, Zenon
  <2> HIDE DEF b
  <2>3. b \in Seq(X) /\ Len(b) = n
    BY <2>1, <2>2, FunctionIsSeq
  <2> QED BY <2>2, <2>3, Zenon
<1>10. \A j, k \in 1 .. n : a[j] = a[k] => j = k
  <2> SUFFICES ASSUME NEW j \in 1 .. n, NEW k \in 1 .. n, a[j] = a[k] PROVE j = k
    BY Zenon
  <2>1. j <= j /\ k <= k
    BY <1>1
  <2>2. <<a[j], a[j]>> \in order /\ <<a[k], a[k]>> \in order
    BY <1>7, <2>1, Zenon
  <2>3. j <= k /\ k <= j
    BY <1>7, <2>2, Zenon
  <2> QED BY <1>1, <2>3
<1>11. ASSUME NEW j \in 1 .. n, NEW k \in 1 .. n, j <= k
       PROVE  f[a[j]] > f[a[k]] \/ (f[a[j]] = f[a[k]] /\ g[a[j]] >= g[a[k]])
  <2> DEFINE x == a[j]
             y == a[k]
  <2>1. x \in 1 .. n /\ y \in 1 .. n
    BY <1>6
  <2>2. <<x, y>> \in order
    BY <1>7, <1>11
  <2> HIDE DEF x, y
  <2>3. f[x] \in Int /\ f[y] \in Int /\ g[x] \in Int /\ g[y] \in Int
    BY <1>1, <2>1
  <2>4. \/ f[x] > f[y] \/ (f[x] = f[y] /\ g[x] > g[y])
        \/ ~(f[y] > f[x] \/ (f[y] = f[x] /\ g[y] > g[x])) /\ x <= y
    BY <1>1, <2>1, <2>2, Zenon DEF Lexical
  <2>5. f[x] > f[y] \/ (f[x] = f[y] /\ g[x] >= g[y])
    BY <2>3, <2>4
  <2> QED BY <2>5 DEF x, y
<1>12. Permutes(a, t, s)
  BY <1>6, <1>8, <1>10, Zenon DEF Permutes, n
<1>13. SortedBy(t, s, f, g)
  BY <1>11, <1>12, Zenon DEF SortedBy, n
<1> QED BY <1>9, <1>13 DEF n

Zeros(s) == [k \in DOMAIN s |-> 0]

ScoresOf(s) == [k \in DOMAIN s |-> s[k].score]

LEMMA ByScoreSorts ==
  ASSUME NEW X, \A x \in X : x.score \in Int, NEW s \in Seq(X)
  PROVE  /\ ByScore(s) \in Seq(X) /\ Len(ByScore(s)) = Len(s)
         /\ SortedBy(ByScore(s), s, ScoresOf(s), Zeros(s))
<1> DEFINE D == DOMAIN s
           f == ScoresOf(s)
           g == Zeros(s)
           order == {p \in D \X D : \/ s[p[1]].score > s[p[2]].score
                                    \/ ~(s[p[2]].score > s[p[1]].score) /\ p[1] <= p[2]}
           t == ByScore(s)
<1>1. t = [k \in D |-> s[Arranged(D, order)[k]]]
  BY DEF ByScore, StableSort, Higher
<1>2. f \in [D -> Int] /\ g \in [D -> Int] /\ \A i \in D : f[i] = s[i].score /\ g[i] = 0
  BY DEF ScoresOf, Zeros
<1>3. \A i, j \in D : <<i, j>> \in order
                          <=> s[i].score > s[j].score \/ (~(s[j].score > s[i].score) /\ i <= j)
  <2> HIDE DEF D
  <2> QED OBVIOUS
<1> HIDE DEF order, f, g, t
<1>4. Lexical(order, D, f, g)
  <2> SUFFICES ASSUME NEW i \in D, NEW j \in D
               PROVE  <<i, j>> \in order <=>
                        \/ f[i] > f[j] \/ (f[i] = f[j] /\ g[i] > g[j])
                        \/ ~(f[j] > f[i] \/ (f[j] = f[i] /\ g[j] > g[i])) /\ i <= j
    BY Zenon DEF Lexical
  <2>1. /\ f[i] = s[i].score /\ f[j] = s[j].score /\ g[i] = 0 /\ g[j] = 0
        /\ f[i] \in Int /\ f[j] \in Int
    BY <1>2
  <2>2. <<i, j>> \in order <=> f[i] > f[j] \/ (~(f[j] > f[i]) /\ i <= j)
    BY <1>3, <2>1, Zenon
  <2> HIDE DEF D
  <2> QED BY <2>1, <2>2
<1>5. f \in [DOMAIN s -> Int] /\ g \in [DOMAIN s -> Int] /\ Lexical(order, DOMAIN s, f, g)
  BY <1>2, <1>4, Zenon
<1>6. t = [k \in DOMAIN s |-> s[Arranged(DOMAIN s, order)[k]]]
  BY <1>1
<1> HIDE DEF D
<1>7. t \in Seq(X)
  BY <1>5, <1>6, LexicalSorts
<1>8. Len(t) = Len(s)
  BY <1>5, <1>6, LexicalSorts
<1>9. SortedBy(t, s, f, g)
  BY <1>5, <1>6, LexicalSorts
<1> QED BY <1>7, <1>8, <1>9 DEF t, f, g

-------------------------------------------------------------------------------
(* Hits *)

LEMMA Catalogued ==
  /\ Point = 1 .. Len(Catalogue) /\ Point \in SUBSET Nat /\ IsFiniteSet(Point)
  /\ \A i \in Point :
       /\ Catalogue[i] \in Payload
       /\ Source(i) \in Primary /\ Source(i) # <<>>
       /\ Catalogue[i].neighbors # <<>> => Catalogue[i].surface = Tree
       /\ Catalogue[i].uri \in Uri /\ Catalogue[i].parent \in Uri /\ Catalogue[i].tree \in Uri
       /\ Catalogue[i].neighbors \in Seq(Uri) /\ Catalogue[i].time \in Nat
       /\ Catalogue[i].surface \in ToSet(Surfaces) \cup {NoSurface}
       /\ \A v \in Vector : Catalogue[i].score[v] \in Int
  /\ Primary \subseteq Uri
<1>1. Catalogue \in Seq(Payload)
  BY RecallAssumption
<1>2. Point = 1 .. Len(Catalogue) /\ Len(Catalogue) \in Nat
  BY <1>1 DEF Point
<1>3. IsFiniteSet(Point)
  BY <1>2, FS_Interval
<1>4. Point \in SUBSET Nat
  BY <1>2
<1>5. \A i \in Point : Catalogue[i] \in Payload
  BY <1>1, <1>2
<1>6. \A i \in Point : /\ Source(i) \in Primary /\ Source(i) # <<>>
                       /\ Catalogue[i].neighbors # <<>> => Catalogue[i].surface = Tree
  BY RecallAssumption
<1>7. \A i \in Point :
       /\ Catalogue[i].uri \in Uri /\ Catalogue[i].parent \in Uri /\ Catalogue[i].tree \in Uri
       /\ Catalogue[i].neighbors \in Seq(Uri) /\ Catalogue[i].time \in Nat
       /\ Catalogue[i].surface \in ToSet(Surfaces) \cup {NoSurface}
       /\ \A v \in Vector : Catalogue[i].score[v] \in Int
  BY <1>5 DEF Payload
<1>8. Primary \subseteq Uri
  BY <1>7 DEF Primary
<1> QED BY <1>2, <1>3, <1>4, <1>5, <1>6, <1>7, <1>8

HitsAt(points) == [point : points, score : Int]

LEMMA BestHits ==
  ASSUME NEW points \in SUBSET Point, NEW v \in Vector, NEW n \in Nat
  PROVE  Best(points, v, n) \in Seq(HitsAt(points))
<1> DEFINE m == Cardinality(points)
           a == Ascending(points)
<1>1. IsFiniteSet(points) /\ points \in SUBSET Int
  <2>1. IsFiniteSet(Point) /\ Point \in SUBSET Nat
    BY Catalogued, Zenon
  <2>2. IsFiniteSet(points)
    BY <2>1, FS_Subset
  <2> QED BY <2>1, <2>2
<1>2. m \in Nat /\ a \in [1 .. m -> points]
  BY <1>1, AscendingLists
<1>3. Hits(points, v) = [k \in 1 .. m |-> [point |-> a[k], score |-> Catalogue[a[k]].score[v]]]
  BY DEF Hits
<1> HIDE DEF m, a
<1>4. \A k \in 1 .. m : [point |-> a[k], score |-> Catalogue[a[k]].score[v]] \in HitsAt(points)
  <2> SUFFICES ASSUME NEW k \in 1 .. m
               PROVE  [point |-> a[k], score |-> Catalogue[a[k]].score[v]] \in HitsAt(points)
    BY Zenon
  <2>1. a[k] \in points /\ a[k] \in Point
    BY <1>2
  <2>2. Catalogue[a[k]].score[v] \in Int
    BY <2>1, Catalogued
  <2> QED BY <2>1, <2>2 DEF HitsAt
<1>5. Hits(points, v) \in Seq(HitsAt(points))
  BY <1>2, <1>3, <1>4
<1>6. ByScore(Hits(points, v)) \in Seq(HitsAt(points))
  <2>1. \A h \in HitsAt(points) : h.score \in Int
    BY DEF HitsAt
  <2> QED BY <1>5, <2>1, ByScoreSorts
<1> QED BY <1>6, LimitedIs DEF Best

LEMMA TopOfAll ==
  ASSUME NEW points \in SUBSET Point, NEW found \in Seq(Seq(HitsAt(points)))
  PROVE  TopRecords(found) \in Seq(HitsAt(points))
<1>1. Joined(found) \in Seq(HitsAt(points))
  BY JoinedIn
<1>2. ByScore(Joined(found)) \in Seq(HitsAt(points))
  <2>1. \A h \in HitsAt(points) : h.score \in Int
    BY DEF HitsAt
  <2> QED BY <1>1, <2>1, ByScoreSorts
<1>3. TopK \in Nat
  BY DEF TopK
<1> QED BY <1>2, <1>3, LimitedIs DEF TopRecords

\* A sequence made of another.
LEMMA Mapped ==
  ASSUME NEW X, NEW Y, NEW s \in Seq(X), NEW f, DOMAIN f = DOMAIN s, \A k \in DOMAIN s : f[k] \in Y,
         NEW t, t = [k \in DOMAIN s |-> f[k]]
  PROVE  t \in Seq(Y) /\ Len(t) = Len(s)
<1>1. DOMAIN s = 1 .. Len(s) /\ Len(s) \in Nat
  OBVIOUS
<1> QED BY <1>1

LEMMA ImageFinite ==
  ASSUME NEW S, IsFiniteSet(S), NEW f, DOMAIN f = S
  PROVE  IsFiniteSet({f[x] : x \in S})
<1> DEFINE T == {f[x] : x \in S}
<1>0. \A x \in S : f[x] \in T
  OBVIOUS
<1>1. [x \in S |-> f[x]] \in Surjection(S, T)
  BY DEF Surjection
<1> HIDE DEF T
<1>2. IsFiniteSet(T)
  BY <1>1, FS_Surjection
<1> QED BY <1>2 DEF T

LEMMA ElementsFinite ==
  ASSUME NEW X, NEW s \in Seq(X)
  PROVE  IsFiniteSet(ToSet(s)) /\ ToSet(s) \in SUBSET X /\ (s # <<>> => s[1] \in ToSet(s))
<1>1. DOMAIN s = 1 .. Len(s) /\ Len(s) \in Nat
  OBVIOUS
<1>2. IsFiniteSet(DOMAIN s)
  BY <1>1, FS_Interval
<1>3. IsFiniteSet(ToSet(s))
  BY <1>2, ImageFinite DEF ToSet
<1>4. s # <<>> => 1 \in DOMAIN s
  OBVIOUS
<1>5. ToSet(s) \in SUBSET X
  BY <1>1 DEF ToSet
<1> QED BY <1>3, <1>4, <1>5 DEF ToSet

LEMMA ScoreOfSource ==
  ASSUME NEW hits \in SUBSET Hit, IsFiniteSet(hits), NEW u, \E h \in hits : Source(h.point) = u
  PROVE  Score(hits, u) \in Int
<1> DEFINE own == {x \in hits : Source(x.point) = u}
           f == [h \in own |-> h.score]
           S == {h.score : h \in own}
<1>1. IsFiniteSet(own) /\ own # {}
  BY FS_Subset
<1>2. IsFiniteSet({f[h] : h \in own})
  <2> HIDE DEF own
  <2> QED BY <1>1, ImageFinite
<1>3. S = {f[h] : h \in own}
  <2> HIDE DEF own
  <2> QED OBVIOUS
<1>4. S \in SUBSET Int /\ S # {}
  BY <1>1 DEF Hit
<1>5. Max(S) \in Int
  <2> HIDE DEF S
  <2> QED BY <1>2, <1>3, <1>4, Extremes
<1> QED BY <1>5 DEF Score

LEMMA TopScoreTyped ==
  ASSUME NEW hits \in Seq(Hit)
  PROVE  TopScore(hits) \in Int
<1>1. hits # <<>> => hits[1] \in Hit
  BY ElementsFinite
<1> QED BY <1>1 DEF TopScore, Hit

LEMMA EvidenceTyped ==
  ASSUME NEW objects \in Seq(Hit), NEW locators \in Seq(Hit)
  PROVE  EvidenceOf(objects, locators) \in Evidence
<1> DEFINE hits   == ToSet(objects) \cup ToSet(locators)
           T      == {k \in DOMAIN locators : Catalogue[locators[k].point].surface = Tree}
           trees  == At(locators, T)
           src    == [h \in hits |-> Source(h.point)]
           found  == {Source(h.point) : h \in hits}
           scores == {Score(hits, u) : u \in found}
           top    == Max(scores)
           first  == CHOOSE u \in found : Score(hits, u) = top
           rest   == {Score(hits, u) : u \in found \ {first}}
           gap    == IF Cardinality(found) < 2 THEN 0 ELSE top - Max(rest)
<1>1. trees \in Seq(Hit)
  <2>1. T \in SUBSET DOMAIN locators
    OBVIOUS
  <2> HIDE DEF T
  <2> QED BY <2>1, AtPicks
<1>2. /\ Len(objects) \in Nat /\ Len(locators) \in Nat /\ Len(trees) \in Nat
      /\ TopScore(objects) \in Int /\ TopScore(locators) \in Int /\ TopScore(trees) \in Int
  <2> HIDE DEF trees
  <2> QED BY <1>1, TopScoreTyped
<1>3. hits \in SUBSET Hit /\ IsFiniteSet(hits)
  BY ElementsFinite, FS_Union
<1>4. IsFiniteSet(found)
  <2>1. found = {src[h] : h \in hits}
    <3> HIDE DEF hits
    <3> QED OBVIOUS
  <2> HIDE DEF hits
  <2>2. DOMAIN src = hits
    OBVIOUS
  <2> HIDE DEF src, found
  <2> QED BY <1>3, <2>1, <2>2, ImageFinite
<1>5. \A u \in found : Score(hits, u) \in Int
  <2> SUFFICES ASSUME NEW u \in found PROVE Score(hits, u) \in Int
    OBVIOUS
  <2>1. \E h \in hits : Source(h.point) = u
    OBVIOUS
  <2> HIDE DEF hits, found
  <2> QED BY <1>3, <2>1, ScoreOfSource
<1>6. \A D \in SUBSET found : /\ IsFiniteSet({Score(hits, u) : u \in D})
                              /\ {Score(hits, u) : u \in D} \in SUBSET Int
  <2> HIDE DEF hits, found
  <2> SUFFICES ASSUME NEW D \in SUBSET found
               PROVE  /\ IsFiniteSet({Score(hits, u) : u \in D})
                      /\ {Score(hits, u) : u \in D} \in SUBSET Int
    BY Zenon
  <2> DEFINE f == [u \in D |-> Score(hits, u)]
  <2>1. IsFiniteSet(D)
    BY <1>4, FS_Subset
  <2>2. IsFiniteSet({f[u] : u \in D})
    BY <2>1, ImageFinite
  <2>3. {f[u] : u \in D} = {Score(hits, u) : u \in D}
    OBVIOUS
  <2> QED BY <1>5, <2>2, <2>3
<1>7. found # {} => /\ top \in scores /\ top \in Int
                    /\ \A x \in scores : x \in Int /\ top >= x
  <2> HIDE DEF hits
  <2>1. found # {} => scores # {}
    <3> HIDE DEF found
    <3> QED OBVIOUS
  <2>2. IsFiniteSet(scores) /\ scores \in SUBSET Int
    <3> HIDE DEF found
    <3> QED BY <1>6
  <2> HIDE DEF found, scores
  <2> QED BY <2>1, <2>2, Extremes
<1>8. Cardinality(found) \in Nat /\ (Cardinality(found) # 0 => found # {})
  <2> HIDE DEF found
  <2> QED BY <1>4, FS_CardinalityType, FS_EmptySet
<1>9. gap \in Nat
  <2> HIDE DEF hits
  <2>1. CASE Cardinality(found) < 2
    <3> HIDE DEF found, top, rest
    <3> QED BY <2>1
  <2>2. CASE ~(Cardinality(found) < 2)
    <3>1. found # {}
      <4> HIDE DEF found
      <4> QED BY <1>8, <2>2
    <3>2. found \ {first} # {}
      <4> SUFFICES ASSUME found \ {first} = {} PROVE FALSE
        OBVIOUS
      <4> HIDE DEF found, first
      <4>1. found \in SUBSET {first}
        BY Zenon
      <4>2. Cardinality(found) <= Cardinality({first}) /\ Cardinality({first}) = 1
        BY <4>1, FS_Singleton, FS_Subset
      <4> QED BY <1>8, <2>2, <4>2
    <3>3. IsFiniteSet(rest) /\ rest \in SUBSET Int
      <4> HIDE DEF found, first
      <4> QED BY <1>6
    <3>4. rest # {} /\ rest \in SUBSET scores
      <4> HIDE DEF found, first
      <4> QED BY <3>2
    <3> HIDE DEF rest, found, first, scores
    <3>5. Max(rest) \in rest
      BY <3>3, <3>4, Extremes
    <3>6. Max(rest) \in Int /\ top \in Int /\ top >= Max(rest)
      BY <1>7, <3>1, <3>4, <3>5
    <3> HIDE DEF top
    <3> QED BY <2>2, <3>6
  <2> QED BY <2>1, <2>2
<1>10. (IF found = {} THEN 0 ELSE top) \in Int
  <2> HIDE DEF found, top
  <2> QED BY <1>7
<1>11. EvidenceOf(objects, locators)
         = [top |-> IF found = {} THEN 0 ELSE top, gap |-> gap,
            objectTop |-> TopScore(objects), locatorTop |-> TopScore(locators),
            treeTop |-> TopScore(trees), candidates |-> Cardinality(found),
            objects |-> Len(objects), locators |-> Len(locators), trees |-> Len(trees)]
  BY DEF EvidenceOf
<1> HIDE DEF gap, top, found, trees
<1> QED BY <1>2, <1>8, <1>9, <1>10, <1>11 DEF Evidence

LEMMA StartingTyped ==
  ASSUME NEW objects \in Seq(Hit), NEW locators \in Seq(Hit)
  PROVE  StartingUris(objects, locators) \in Seq(Uri) /\ IsInjective(StartingUris(objects, locators))
<1> DEFINE p(h) == Catalogue[h.point]
           trees == [k \in DOMAIN locators |-> p(locators[k]).tree]
           near  == [k \in DOMAIN locators |-> <<p(locators[k]).parent, Source(locators[k].point)>>
                                               \o p(locators[k]).neighbors]
           own   == [k \in DOMAIN objects |-> <<p(objects[k]).parent, p(objects[k]).uri>>]
           all   == Joined(<<trees>> \o near \o own)
<1>1. \A h \in Hit : /\ p(h).tree \in Uri /\ p(h).parent \in Uri /\ p(h).uri \in Uri
                     /\ Source(h.point) \in Uri /\ p(h).neighbors \in Seq(Uri)
  BY Catalogued DEF Hit
<1>2. /\ DOMAIN locators = 1 .. Len(locators) /\ Len(locators) \in Nat
      /\ DOMAIN objects = 1 .. Len(objects) /\ Len(objects) \in Nat
      /\ \A k \in DOMAIN locators : locators[k] \in Hit
      /\ \A k \in DOMAIN objects : objects[k] \in Hit
  OBVIOUS
<1>3. trees \in Seq(Uri)
  <2>1. \A k \in DOMAIN locators : p(locators[k]).tree \in Uri
    BY <1>1, <1>2, Zenon
  <2> HIDE DEF p
  <2> QED BY <1>2, <2>1
<1>4. near \in Seq(Seq(Uri))
  <2>1. \A k \in DOMAIN locators : /\ p(locators[k]).parent \in Uri /\ Source(locators[k].point) \in Uri
                                   /\ p(locators[k]).neighbors \in Seq(Uri)
    BY <1>1, <1>2, Zenon
  <2> HIDE DEF p
  <2>2. \A k \in DOMAIN locators :
          <<p(locators[k]).parent, Source(locators[k].point)>> \o p(locators[k]).neighbors \in Seq(Uri)
    BY <2>1
  <2> QED BY <1>2, <2>2
<1>5. own \in Seq(Seq(Uri))
  <2>1. \A k \in DOMAIN objects : p(objects[k]).parent \in Uri /\ p(objects[k]).uri \in Uri
    BY <1>1, <1>2, Zenon
  <2> HIDE DEF p
  <2>2. \A k \in DOMAIN objects : <<p(objects[k]).parent, p(objects[k]).uri>> \in Seq(Uri)
    BY <2>1
  <2> QED BY <1>2, <2>2
<1>6. <<trees>> \o near \o own \in Seq(Seq(Uri))
  <2> HIDE DEF trees, near, own
  <2> QED BY <1>3, <1>4, <1>5
<1>7. Unique(all) \in Seq(Uri) /\ IsInjective(Unique(all))
  <2>1. all \in Seq(Uri)
    <3> HIDE DEF trees, near, own
    <3> QED BY <1>6, JoinedIn
  <2> HIDE DEF all
  <2> QED BY <2>1, UniqueIs
<1>8. StartingUris(objects, locators) = Limited(Unique(all), TopK)
  BY DEF StartingUris
<1> DEFINE u == Unique(all)
           t == Limited(u, TopK)
<1>9. u \in Seq(Uri) /\ IsInjective(u)
  BY <1>7
<1> HIDE DEF u
<1>10. t \in Seq(Uri) /\ \A k \in 1 .. Len(t) : k \in 1 .. Len(u) /\ t[k] = u[k]
  BY <1>9, LimitedIs DEF TopK
<1> HIDE DEF t
<1>11. IsInjective(t)
  <2>1. DOMAIN t = 1 .. Len(t) /\ DOMAIN u = 1 .. Len(u)
    BY <1>9, <1>10
  <2> QED BY <1>9, <1>10, <2>1 DEF IsInjective
<1> QED BY <1>8, <1>10, <1>11 DEF t, u

-------------------------------------------------------------------------------
(* Ranking *)

\* The points of a surface, which a search can find.
Surfaced == {i \in Point : Catalogue[i].surface \in ToSet(Surfaces)}

RawHit == HitsAt(Surfaced)

\* What is the same from the selection on.
Planned == query \in Queries /\ evidence \in Evidence

LEMMA SurfaceNames == ToSet(Surfaces) = {Object, Anchor, Fact, Entity, Tree}
<1>1. DOMAIN Surfaces = {1, 2, 3, 4, 5}
  BY DEF Surfaces
<1>2. /\ Surfaces[1] = Object /\ Surfaces[2] = Anchor /\ Surfaces[3] = Fact
      /\ Surfaces[4] = Entity /\ Surfaces[5] = Tree
  BY DEF Surfaces
<1> QED BY <1>1, <1>2 DEF ToSet

LEMMA QueryFields ==
  ASSUME NEW q \in Queries
  PROVE  /\ q.type \in QueryType /\ q.limit \in 1 .. 50 /\ q.vectors \in Seq(Vector)
         /\ q.order \in {"none", "latest", "earliest"} /\ q.after \in Nat /\ q.before \in Nat
<1>1. q \in Query
  BY RecallAssumption
<1> QED BY <1>1 DEF Query

LEMMA WeightPositive ==
  ASSUME Planned, NEW s \in ToSet(Surfaces)
  PROVE  Weight(query, evidence, s) \in Nat \ {0} /\ Bonus(query, s) \in Nat
<1>1. s \in {Object, Anchor, Fact, Entity, Tree}
  BY SurfaceNames
<1>2. query.type \in {"factual", "temporal", "reasoning", "summary"}
  BY QueryFields DEF Planned, QueryType
<1>3. BaseWeight(s) \in 88 .. 100 /\ BaseBonus(s) \in 0 .. 12 /\ (s = Tree => BaseBonus(s) = 10)
  BY <1>1 DEF BaseWeight, BaseBonus, Object, Anchor, Fact, Entity, Tree
<1>4. QueryWeight(query.type, s) \in -8 .. 12
  <2> DEFINE t == query.type
  <2>1. t \in {"factual", "temporal", "reasoning", "summary"}
    BY <1>2
  <2> HIDE DEF t
  <2>2. QueryWeight(t, s) \in -8 .. 12
    BY <1>1, <2>1 DEF QueryWeight, Object, Anchor, Fact, Entity, Tree
  <2> QED BY <2>2 DEF t
<1>5. Weight(query, evidence, s) \in Nat \ {0}
  <2> DEFINE b == BaseWeight(s)
             c == QueryWeight(query.type, s)
             l == IF evidence.locators > 0 /\ s \in {Anchor, Entity} THEN 4 ELSE 0
             o == IF evidence.objects > 0 THEN 0 ELSE IF s = Tree THEN 5 ELSE IF s = Fact THEN 4 ELSE 0
  <2>1. Weight(query, evidence, s) = b + c + l + o
    BY DEF Weight
  <2>2. b \in 88 .. 100 /\ c \in -8 .. 12
    BY <1>3, <1>4
  <2>3. l \in 0 .. 4
    OBVIOUS
  <2>4. o \in 0 .. 5
    OBVIOUS
  <2> HIDE DEF b, c, l, o
  <2> QED BY <2>1, <2>2, <2>3, <2>4
<1>6. Bonus(query, s) \in Nat
  <2> DEFINE t == query.type
             b == BaseBonus(s)
             x == CASE <<t, s>> = <<"factual", Fact>>   -> 4
                    [] <<t, s>> = <<"factual", Object>> -> 3
                    [] <<t, s>> = <<"factual", Tree>>   -> -4
                    [] <<t, s>> = <<"temporal", Fact>>  -> 5
                    [] OTHER                            -> 0
  <2>1. Bonus(query, s) = b + x
    BY DEF Bonus
  <2>2. b \in 0 .. 12 /\ (s = Tree => b = 10)
    BY <1>3
  <2>3. t \in {"factual", "temporal", "reasoning", "summary"}
    BY <1>2
  <2> HIDE DEF t, b
  <2>4. x \in -4 .. 5 /\ (s # Tree => x >= 0)
    BY <1>1, <2>3 DEF Object, Anchor, Fact, Entity, Tree
  <2> HIDE DEF x
  <2> QED BY <2>1, <2>2, <2>4
<1> QED BY <1>5, <1>6

LEMMA Scaled ==
  ASSUME NEW x \in Int, NEW y \in Int, NEW w \in Nat \ {0}, x > y
  PROVE  x * w > y * w
<1> DEFINE d == x - y
<1>1. d \in Nat \ {0} /\ x = y + d
  OBVIOUS
<1> HIDE DEF d
<1>2. d * w > 0
  BY <1>1
<1>3. (y + d) * w = y * w + d * w
  BY <1>1
<1> QED BY <1>1, <1>2, <1>3

LEMMA WeightedScores ==
  ASSUME Planned, NEW g \in RawHit, NEW h \in RawHit
  PROVE  /\ Weighted(g) \in Int /\ Weighted(h) \in Int
         /\ g.score > h.score /\ Catalogue[g.point].surface = Catalogue[h.point].surface
               => Weighted(g) > Weighted(h)
<1> DEFINE v == Weight(query, evidence, Catalogue[g.point].surface)
           w == Weight(query, evidence, Catalogue[h.point].surface)
<1>1. /\ Catalogue[g.point].surface \in ToSet(Surfaces) /\ Catalogue[h.point].surface \in ToSet(Surfaces)
      /\ g.score \in Int /\ h.score \in Int
  BY DEF RawHit, HitsAt, Surfaced
<1>2. v \in Nat \ {0} /\ w \in Nat \ {0}
  BY <1>1, WeightPositive
<1>3. Weighted(g) = g.score * v /\ Weighted(h) = h.score * w
  BY DEF Weighted
<1>4. Catalogue[g.point].surface = Catalogue[h.point].surface => v = w
  OBVIOUS
<1> HIDE DEF v, w
<1>5. Weighted(g) \in Int /\ Weighted(h) \in Int
  BY <1>1, <1>2, <1>3
<1>6. g.score > h.score => g.score * w > h.score * w
  BY <1>1, <1>2, Scaled
<1> QED BY <1>3, <1>4, <1>5, <1>6

LEMMA OwnHits ==
  ASSUME NEW hits \in Seq(RawHit), NEW u, \E h \in ToSet(hits) : Source(h.point) = u
  PROVE  /\ HitsOf(hits, u) \in Seq(RawHit) /\ HitsOf(hits, u) # <<>>
         /\ ToSet(HitsOf(hits, u)) = {h \in ToSet(hits) : Source(h.point) = u}
<1> DEFINE P == {k \in DOMAIN hits : Source(hits[k].point) = u}
           own == HitsOf(hits, u)
<1>1. own = At(hits, P) /\ P \in SUBSET DOMAIN hits
  BY DEF HitsOf
<1>2. ToSet(hits) = {hits[k] : k \in DOMAIN hits}
  BY DEF ToSet
<1>3. \A k \in P : hits[k] \in ToSet(hits) /\ Source(hits[k].point) = u
  BY <1>2
<1>4. \A h \in ToSet(hits) : Source(h.point) = u => \E k \in P : hits[k] = h
  BY <1>2
<1> HIDE DEF P, own
<1>5. own \in Seq(RawHit) /\ Picks(own, hits, P)
  BY <1>1, AtPicks
<1>6. DOMAIN own = 1 .. Len(own)
  BY <1>5
<1>7. ToSet(own) = {own[k] : k \in 1 .. Len(own)}
  BY <1>6 DEF ToSet
<1>8. ASSUME NEW h \in ToSet(own) PROVE h \in ToSet(hits) /\ Source(h.point) = u
  <2>1. PICK k \in 1 .. Len(own) : h = own[k]
    BY <1>7
  <2>2. PICK p \in P : own[k] = hits[p]
    BY <1>5 DEF Picks
  <2> QED BY <1>3, <2>1, <2>2
<1>9. ASSUME NEW h \in ToSet(hits), Source(h.point) = u PROVE h \in ToSet(own)
  <2>1. PICK p \in P : hits[p] = h
    BY <1>4, <1>9
  <2>2. PICK k \in 1 .. Len(own) : own[k] = hits[p]
    BY <1>5 DEF Picks
  <2> QED BY <1>7, <2>1, <2>2
<1>10. ToSet(own) = {h \in ToSet(hits) : Source(h.point) = u}
  BY <1>8, <1>9
<1>11. own # <<>>
  <2>1. PICK h \in ToSet(own) : TRUE
    BY <1>10
  <2>2. PICK k \in 1 .. Len(own) : h = own[k]
    BY <1>7
  <2> QED BY <2>2
<1> QED BY <1>5, <1>10, <1>11 DEF own

LEMMA BestIs ==
  ASSUME Planned, NEW own \in Seq(RawHit), own # <<>>
  PROVE  /\ BestHit(own) \in ToSet(own)
         /\ \A h \in ToSet(own) : Weighted(BestHit(own)) >= Weighted(h)
<1> DEFINE D == DOMAIN own
           f == [k \in D |-> Weighted(own[k])]
           g == Zeros(own)
           order == {p \in D \X D : \/ Weighted(own[p[1]]) > Weighted(own[p[2]])
                                    \/ ~(Weighted(own[p[2]]) > Weighted(own[p[1]])) /\ p[1] <= p[2]}
           t == [k \in D |-> own[Arranged(D, order)[k]]]
           n == Len(own)
<1>1. BestHit(own) = t[1]
  BY DEF BestHit, StableSort
<1>2. D = 1 .. n /\ n \in Nat /\ \A k \in D : own[k] \in RawHit
  OBVIOUS
<1>3. f \in [D -> Int] /\ g \in [D -> Int] /\ \A i \in D : f[i] = Weighted(own[i]) /\ g[i] = 0
  <2>1. \A k \in D : Weighted(own[k]) \in Int
    BY <1>2, WeightedScores, Zenon
  <2>2. g \in [D -> Int] /\ \A i \in D : g[i] = 0
    BY DEF Zeros
  <2>3. f \in [D -> Int] /\ \A i \in D : f[i] = Weighted(own[i])
    <3> HIDE DEF D
    <3> QED BY <2>1, Zenon
  <2> QED BY <2>2, <2>3, Zenon
<1>4. \A i, j \in D : <<i, j>> \in order
          <=> Weighted(own[i]) > Weighted(own[j]) \/ (~(Weighted(own[j]) > Weighted(own[i])) /\ i <= j)
  <2> HIDE DEF D
  <2> QED OBVIOUS
<1> HIDE DEF order, f, g
<1>5. Lexical(order, D, f, g)
  <2> SUFFICES ASSUME NEW i \in D, NEW j \in D
               PROVE  <<i, j>> \in order <=>
                        \/ f[i] > f[j] \/ (f[i] = f[j] /\ g[i] > g[j])
                        \/ ~(f[j] > f[i] \/ (f[j] = f[i] /\ g[j] > g[i])) /\ i <= j
    BY Zenon DEF Lexical
  <2>1. f[i] = Weighted(own[i]) /\ f[j] = Weighted(own[j]) /\ g[i] = 0 /\ g[j] = 0
    BY <1>3, Zenon
  <2>2. f[i] \in Int /\ f[j] \in Int
    BY <1>3
  <2>3. <<i, j>> \in order <=> f[i] > f[j] \/ (~(f[j] > f[i]) /\ i <= j)
    <3>1. <<i, j>> \in order
          <=> Weighted(own[i]) > Weighted(own[j]) \/ (~(Weighted(own[j]) > Weighted(own[i])) /\ i <= j)
      BY <1>4, Zenon
    <3> QED BY <2>1, <3>1, Zenon
  <2> HIDE DEF D
  <2> QED BY <2>1, <2>2, <2>3
<1>6. SortedBy(t, own, f, g)
  BY <1>3, <1>5, LexicalSorts
<1> HIDE DEF t
<1>7. PICK p : /\ Permutes(p, t, own)
               /\ \A j, k \in 1 .. n : j <= k => \/ f[p[j]] > f[p[k]]
                                                 \/ f[p[j]] = f[p[k]] /\ g[p[j]] >= g[p[k]]
  BY <1>6, Zenon DEF SortedBy
<1>8. 1 \in 1 .. n
  BY <1>2
<1> HIDE DEF n, D
<1>9. /\ p[1] \in D /\ t[1] = own[p[1]]
      /\ \A i \in D : \E k \in 1 .. n : p[k] = i
  BY <1>2, <1>7, <1>8 DEF Permutes, n
<1>10. ASSUME NEW h \in ToSet(own) PROVE Weighted(t[1]) >= Weighted(h)
  <2>1. PICK i \in D : own[i] = h
    BY DEF ToSet, D
  <2>2. PICK k \in 1 .. n : p[k] = i
    BY <1>9, Zenon
  <2>3. 1 <= k
    BY <1>2, <2>2
  <2>4. f[p[1]] > f[i] \/ f[p[1]] = f[i]
    BY <1>7, <1>8, <2>2, <2>3, Zenon
  <2>5. f[p[1]] = Weighted(t[1]) /\ f[i] = Weighted(h)
    BY <1>3, <1>9, <2>1, Zenon
  <2>6. f[p[1]] \in Int /\ f[i] \in Int
    BY <1>3, <1>9
  <2> QED BY <2>4, <2>5, <2>6
<1>11. t[1] \in ToSet(own)
  BY <1>9 DEF ToSet, D
<1> QED BY <1>1, <1>10, <1>11

LEMMA BonusesGrow ==
  ASSUME Planned, NEW A \in SUBSET ToSet(Surfaces), NEW B \in SUBSET A
  PROVE  Bonuses(B) \in Nat /\ Bonuses(A) \in Nat /\ Bonuses(B) <= Bonuses(A)
<1> DEFINE a(s) == IF s \in A THEN Bonus(query, s) ELSE 0
           b(s) == IF s \in B THEN Bonus(query, s) ELSE 0
<1>1. ASSUME NEW s \in {Object, Anchor, Fact, Entity, Tree}
      PROVE  a(s) \in Nat /\ b(s) \in Nat /\ b(s) <= a(s)
  BY WeightPositive, SurfaceNames
<1>2. Bonuses(A) = a(Object) + a(Anchor) + a(Fact) + a(Entity) + a(Tree)
  BY DEF Bonuses
<1>3. Bonuses(B) = b(Object) + b(Anchor) + b(Fact) + b(Entity) + b(Tree)
  BY DEF Bonuses
<1> HIDE DEF a, b
<1>4. /\ a(Object) \in Nat /\ b(Object) \in Nat /\ b(Object) <= a(Object)
      /\ a(Anchor) \in Nat /\ b(Anchor) \in Nat /\ b(Anchor) <= a(Anchor)
      /\ a(Fact) \in Nat /\ b(Fact) \in Nat /\ b(Fact) <= a(Fact)
      /\ a(Entity) \in Nat /\ b(Entity) \in Nat /\ b(Entity) <= a(Entity)
      /\ a(Tree) \in Nat /\ b(Tree) \in Nat /\ b(Tree) <= a(Tree)
  BY <1>1
<1> QED BY <1>2, <1>3, <1>4

LEMMA ExtraGrows ==
  ASSUME Planned, NEW A \in SUBSET ToSet(Surfaces), NEW B \in SUBSET A, B # {}, NEW u, NEW w,
         IsNear(w) => IsNear(u)
  PROVE  Extra(u, A) \in Nat /\ Extra(w, B) \in Nat /\ Extra(w, B) <= Extra(u, A)
<1> DEFINE m == 4 * (Cardinality(A) - 1)
           n == 4 * (Cardinality(B) - 1)
           near(x) == IF IsNear(x) THEN 5 ELSE 0
<1>1. IsFiniteSet(ToSet(Surfaces))
  <2>1. Surfaces \in Seq({Object, Anchor, Fact, Entity, Tree})
    BY DEF Surfaces
  <2> QED BY <2>1, ElementsFinite
<1>2. IsFiniteSet(A)
  BY <1>1, FS_Subset
<1>3. /\ Cardinality(A) \in Nat /\ Cardinality(B) \in Nat /\ Cardinality(B) <= Cardinality(A)
      /\ Cardinality(B) # 0
  BY <1>2, FS_Subset, FS_CardinalityType, FS_EmptySet
<1>4. m \in Nat /\ n \in Nat /\ n <= m
  BY <1>3
<1>5. Extra(u, A) = Min({18, m}) + Bonuses(A) + near(u)
  BY DEF Extra
<1>6. Extra(w, B) = Min({18, n}) + Bonuses(B) + near(w)
  BY DEF Extra
<1>7. near(u) \in Nat /\ near(w) \in Nat /\ near(w) <= near(u)
  OBVIOUS
<1> HIDE DEF m, n, near
<1>8. Min({18, m}) \in Nat /\ Min({18, n}) \in Nat /\ Min({18, n}) <= Min({18, m})
  BY <1>4, Pair
<1> QED BY <1>5, <1>6, <1>7, <1>8, BonusesGrow

LEMMA Normalised ==
  ASSUME Planned, NEW pool \in Seq(RawHit), NEW g \in ToSet(pool), NEW h \in ToSet(pool)
  PROVE  /\ Normal(pool, g) \in Nat /\ Normal(pool, h) \in Nat /\ Unit(pool) \in Nat \ {0}
         /\ Weighted(g) > Weighted(h) => Normal(pool, g) > Normal(pool, h)
<1> DEFINE W == Weights(pool)
           f == [x \in ToSet(pool) |-> Weighted(x)]
<1>1. IsFiniteSet(ToSet(pool)) /\ ToSet(pool) \in SUBSET RawHit
  BY ElementsFinite
<1>2. \A x \in ToSet(pool) : Weighted(x) \in Int
  BY <1>1, WeightedScores
<1>3. W = {f[x] : x \in ToSet(pool)}
  BY DEF Weights
<1>4. IsFiniteSet(W)
  <2> HIDE DEF W
  <2> QED BY <1>1, <1>3, ImageFinite
<1>5. W \in SUBSET Int /\ Weighted(g) \in W /\ Weighted(h) \in W
  BY <1>2 DEF Weights
<1> HIDE DEF W
<1>6. W # {}
  BY <1>5
<1>7. /\ Max(W) \in W /\ \A x \in W : Max(W) >= x
      /\ Min(W) \in W /\ \A x \in W : Min(W) <= x
  BY <1>4, <1>5, <1>6, Extremes
<1>8. /\ Max(W) \in Int /\ Min(W) \in Int /\ Weighted(g) \in Int /\ Weighted(h) \in Int
      /\ Max(W) >= Weighted(g) /\ Max(W) >= Weighted(h) /\ Min(W) <= Weighted(g) /\ Min(W) <= Weighted(h)
  BY <1>5, <1>7
<1>9. Spread(pool) = Max(W) - Min(W)
  BY DEF Spread, W
<1>10. /\ Normal(pool, g) = IF Spread(pool) = 0 THEN 1 ELSE Weighted(g) - Min(W)
       /\ Normal(pool, h) = IF Spread(pool) = 0 THEN 1 ELSE Weighted(h) - Min(W)
       /\ Unit(pool) = IF Spread(pool) = 0 THEN 1 ELSE Spread(pool)
  BY DEF Normal, Unit, W
<1> DEFINE x == Max(W)
           y == Min(W)
<1> HIDE DEF x, y
<1>11. Spread(pool) = x - y
  BY <1>9 DEF x, y
<1>12. /\ Normal(pool, g) = IF x - y = 0 THEN 1 ELSE Weighted(g) - y
       /\ Normal(pool, h) = IF x - y = 0 THEN 1 ELSE Weighted(h) - y
       /\ Unit(pool) = IF x - y = 0 THEN 1 ELSE x - y
  BY <1>10, <1>11 DEF y
<1>13. /\ x \in Int /\ y \in Int /\ Weighted(g) \in Int /\ Weighted(h) \in Int
       /\ x >= Weighted(g) /\ x >= Weighted(h) /\ y <= Weighted(g) /\ y <= Weighted(h)
  BY <1>8 DEF x, y
<1> QED BY <1>12, <1>13

\* One hit for a source, from its hits.
LEMMA CollapsedIs ==
  ASSUME Planned, NEW hits \in Seq(RawHit), NEW u, \E h \in ToSet(hits) : Source(h.point) = u
  PROVE  /\ Collapsed(hits, u) \in Ranked /\ Collapsed(hits, u).source = u
         /\ \E h \in ToSet(hits) : h.point = Collapsed(hits, u).point /\ Source(h.point) = u
<1> DEFINE own == HitsOf(hits, u)
           best == BestHit(own)
           A == SurfacesOf(own)
<1>1. own \in Seq(RawHit) /\ own # <<>> /\ ToSet(own) = {h \in ToSet(hits) : Source(h.point) = u}
  BY OwnHits
<1> HIDE DEF own
<1>2. best \in ToSet(own)
  BY <1>1, BestIs
<1> HIDE DEF best
<1>3. best \in ToSet(hits) /\ Source(best.point) = u
  BY <1>1, <1>2
<1>4. ToSet(own) \in SUBSET RawHit /\ ToSet(hits) \in SUBSET RawHit
  BY <1>1, ElementsFinite
<1>5. best.point \in Point /\ u \in Primary
  BY <1>3, <1>4, Catalogued DEF RawHit, HitsAt, Surfaced
<1>6. A \in SUBSET ToSet(Surfaces) /\ A # {}
  BY <1>2, <1>4 DEF SurfacesOf, RawHit, HitsAt, Surfaced
<1> HIDE DEF A
<1>7. Extra(u, A) \in Nat
  BY <1>6, ExtraGrows
<1>8. Normal(hits, best) \in Nat /\ Unit(hits) \in Nat
  BY <1>3, Normalised
<1>9. 100 * Normal(hits, best) + Unit(hits) * Extra(u, A) \in Nat
  <2> DEFINE n == Normal(hits, best)
             m == Unit(hits)
             e == Extra(u, A)
  <2>1. n \in Nat /\ m \in Nat /\ e \in Nat
    BY <1>7, <1>8
  <2> HIDE DEF n, m, e
  <2>2. m * e \in Nat
    BY <2>1
  <2>3. 100 * n + m * e \in Nat
    BY <2>1, <2>2
  <2> QED BY <2>3 DEF n, m, e
<1>10. Collapsed(hits, u) = [source |-> u, point |-> best.point,
                             score |-> 100 * Normal(hits, best) + Unit(hits) * Extra(u, A)]
  BY DEF Collapsed, own, best, A
<1>11. Collapsed(hits, u) \in Ranked
  BY <1>5, <1>9, <1>10 DEF Ranked
<1>12. Collapsed(hits, u).source = u /\ Collapsed(hits, u).point = best.point
  BY <1>10
<1> QED BY <1>3, <1>11, <1>12

\* A record that another one dominates among the hits, as Dominates has it of raw.
DominatesIn(hits, a, b) ==
  /\ \A h \in ToSet(hits) : Source(h.point) = b =>
        \E g \in ToSet(hits) : /\ Source(g.point) = a /\ g.score > h.score
                               /\ Catalogue[g.point].surface = Catalogue[h.point].surface
  /\ IsNear(b) => IsNear(a)

LEMMA DominantScoresMore ==
  ASSUME Planned, NEW hits \in Seq(RawHit), NEW u, \E h \in ToSet(hits) : Source(h.point) = u,
         NEW w, \E h \in ToSet(hits) : Source(h.point) = w, DominatesIn(hits, u, w)
  PROVE  Collapsed(hits, u).score > Collapsed(hits, w).score
<1> DEFINE U == HitsOf(hits, u)
           W == HitsOf(hits, w)
           g == BestHit(U)
           h == BestHit(W)
           A == SurfacesOf(U)
           B == SurfacesOf(W)
<1>1. U \in Seq(RawHit) /\ U # <<>> /\ ToSet(U) = {x \in ToSet(hits) : Source(x.point) = u}
  BY OwnHits
<1>2. W \in Seq(RawHit) /\ W # <<>> /\ ToSet(W) = {x \in ToSet(hits) : Source(x.point) = w}
  BY OwnHits
<1> HIDE DEF U, W
<1>3. g \in ToSet(U) /\ \A x \in ToSet(U) : Weighted(g) >= Weighted(x)
  BY <1>1, BestIs
<1>4. h \in ToSet(W) /\ \A x \in ToSet(W) : Weighted(h) >= Weighted(x)
  BY <1>2, BestIs
<1> HIDE DEF g, h
<1>5. ToSet(hits) \in SUBSET RawHit
  BY ElementsFinite
<1>6. g \in ToSet(hits) /\ h \in ToSet(hits) /\ Source(h.point) = w
  BY <1>1, <1>2, <1>3, <1>4
<1>7. PICK x \in ToSet(hits) : /\ Source(x.point) = u /\ x.score > h.score
                               /\ Catalogue[x.point].surface = Catalogue[h.point].surface
  BY <1>6 DEF DominatesIn
<1>8. Weighted(g) > Weighted(h)
  <2>1. x \in ToSet(U)
    BY <1>1, <1>7
  <2>2. Weighted(g) >= Weighted(x)
    BY <1>3, <2>1
  <2>3. x \in RawHit /\ h \in RawHit /\ g \in RawHit
    BY <1>5, <1>6
  <2>4. Weighted(x) > Weighted(h) /\ Weighted(x) \in Int /\ Weighted(h) \in Int
    BY <1>7, <2>3, WeightedScores
  <2>5. Weighted(g) \in Int
    BY <2>3, WeightedScores
  <2> QED BY <2>2, <2>4, <2>5
<1>9. /\ Normal(hits, g) \in Nat /\ Normal(hits, h) \in Nat /\ Unit(hits) \in Nat \ {0}
      /\ Normal(hits, g) > Normal(hits, h)
  BY <1>6, <1>8, Normalised
<1>10. A \in SUBSET ToSet(Surfaces) /\ B \in SUBSET A /\ B # {}
  <2>1. B # {}
    BY <1>4 DEF SurfacesOf
  <2>2. A \in SUBSET ToSet(Surfaces)
    BY <1>1, <1>5 DEF SurfacesOf, RawHit, HitsAt, Surfaced
  <2>3. ASSUME NEW s \in B PROVE s \in A
    <3>1. PICK y \in ToSet(W) : s = Catalogue[y.point].surface
      BY DEF SurfacesOf
    <3>2. y \in ToSet(hits) /\ Source(y.point) = w
      BY <1>2
    <3>3. PICK z \in ToSet(hits) : /\ Source(z.point) = u
                                   /\ Catalogue[z.point].surface = Catalogue[y.point].surface
      BY <3>2 DEF DominatesIn
    <3>4. z \in ToSet(U)
      BY <1>1, <3>3
    <3> QED BY <3>1, <3>3, <3>4 DEF SurfacesOf
  <2> QED BY <2>1, <2>2, <2>3
<1> HIDE DEF A, B
<1>11. Extra(u, A) \in Nat /\ Extra(w, B) \in Nat /\ Extra(w, B) <= Extra(u, A)
  BY <1>10, ExtraGrows DEF DominatesIn
<1>12. /\ Collapsed(hits, u).score = 100 * Normal(hits, g) + Unit(hits) * Extra(u, A)
       /\ Collapsed(hits, w).score = 100 * Normal(hits, h) + Unit(hits) * Extra(w, B)
  BY DEF Collapsed, U, W, g, h, A, B
<1> DEFINE n == Normal(hits, g)
           m == Normal(hits, h)
           d == Unit(hits)
           e == Extra(u, A)
           i == Extra(w, B)
<1>13. n \in Nat /\ m \in Nat /\ n > m /\ d \in Nat \ {0} /\ e \in Nat /\ i \in Nat /\ i <= e
  BY <1>9, <1>11
<1>14. Collapsed(hits, u).score = 100 * n + d * e /\ Collapsed(hits, w).score = 100 * m + d * i
  BY <1>12
<1> HIDE DEF n, m, d, e, i
<1>15. d * i <= d * e
  <2>1. CASE i = e
    <3>1. d * i \in Int
      BY <1>13
    <3> QED BY <2>1, <3>1
  <2>2. CASE i # e
    <3>1. e > i /\ e \in Int /\ i \in Int
      BY <1>13, <2>2
    <3>2. e * d > i * d
      BY <1>13, <3>1, Scaled
    <3>3. e * d = d * e /\ i * d = d * i
      BY <1>13
    <3>4. d * e \in Int /\ d * i \in Int
      BY <1>13
    <3> QED BY <3>2, <3>3, <3>4
  <2> QED BY <2>1, <2>2
<1>16. d * i \in Int /\ d * e \in Int
  BY <1>13
<1>17. 100 * n + d * e > 100 * m + d * i
  <2> DEFINE k == d * e
             l == d * i
  <2>1. k \in Int /\ l \in Int /\ l <= k
    BY <1>15, <1>16
  <2> HIDE DEF k, l
  <2>2. 100 * n + k > 100 * m + l
    BY <1>13, <2>1
  <2> QED BY <2>2 DEF k, l
<1> QED BY <1>14, <1>17

-------------------------------------------------------------------------------
(* The order of the records *)

FoundIn(hits) == {Source(h.point) : h \in ToSet(hits)}

LEMMA SourcesAre ==
  ASSUME NEW hits \in Seq(RawHit)
  PROVE  /\ Sources(hits) \in Seq(Primary) /\ IsInjective(Sources(hits))
         /\ ToSet(Sources(hits)) = FoundIn(hits)
         /\ IsFiniteSet(FoundIn(hits)) /\ Cardinality(FoundIn(hits)) = Len(Sources(hits))
<1> DEFINE of == [k \in DOMAIN hits |-> Source(hits[k].point)]
           s == Sources(hits)
<1>0. ToSet(hits) \in SUBSET RawHit
  BY ElementsFinite
<1>1. \A h \in ToSet(hits) : Source(h.point) \in Primary /\ Source(h.point) # <<>>
  <2> SUFFICES ASSUME NEW h \in ToSet(hits)
               PROVE  Source(h.point) \in Primary /\ Source(h.point) # <<>>
    BY Zenon
  <2>1. h.point \in Point
    BY <1>0 DEF RawHit, HitsAt, Surfaced
  <2> QED BY <2>1, Catalogued
<1>2. \A k \in DOMAIN hits : hits[k] \in ToSet(hits)
  BY DEF ToSet
<1>3. \A k \in DOMAIN hits : of[k] = Source(hits[k].point) /\ of[k] \in Primary /\ of[k] # <<>>
  BY <1>1, <1>2
<1>4. DOMAIN of = DOMAIN hits /\ s = Unique(of)
  BY DEF Sources
<1>5. of \in Seq(Primary)
  <2>1. of = [k \in DOMAIN hits |-> of[k]]
    OBVIOUS
  <2> HIDE DEF of
  <2> QED BY <1>3, <1>4, <2>1, Mapped
<1>6. ToSet(of) = FoundIn(hits)
  <2>1. ASSUME NEW u \in ToSet(of) PROVE u \in FoundIn(hits)
    <3>1. PICK k \in DOMAIN hits : u = of[k]
      BY <1>4 DEF ToSet
    <3> QED BY <1>2, <1>3, <3>1 DEF FoundIn
  <2>2. ASSUME NEW u \in FoundIn(hits) PROVE u \in ToSet(of)
    <3>1. PICK h \in ToSet(hits) : u = Source(h.point)
      BY DEF FoundIn
    <3>2. PICK k \in DOMAIN hits : h = hits[k]
      BY DEF ToSet
    <3>3. u = of[k] /\ k \in DOMAIN of
      BY <1>3, <1>4, <3>1, <3>2
    <3> HIDE DEF of
    <3> QED BY <3>3 DEF ToSet
  <2> QED BY <2>1, <2>2
<1>7. <<>> \notin FoundIn(hits)
  BY <1>1 DEF FoundIn
<1> HIDE DEF of, s
<1>8. s \in Seq(Primary) /\ IsInjective(s) /\ ToSet(s) = FoundIn(hits)
  <2>1. s \in Seq(Primary) /\ IsInjective(s) /\ ToSet(s) = ToSet(of) \ {<<>>}
    BY <1>4, <1>5, UniqueIs
  <2> QED BY <2>1, <1>6, <1>7
<1>9. DOMAIN s = 1 .. Len(s) /\ Len(s) \in Nat
  BY <1>8
<1>10. s \in Injection(1 .. Len(s), FoundIn(hits)) /\ s \in Surjection(1 .. Len(s), FoundIn(hits))
  <2>1. s \in [1 .. Len(s) -> FoundIn(hits)]
    BY <1>8, <1>9 DEF ToSet
  <2>2. \A u \in FoundIn(hits) : \E k \in 1 .. Len(s) : s[k] = u
    BY <1>8, <1>9 DEF ToSet
  <2> QED BY <1>8, <1>9, <2>1, <2>2 DEF Injection, Surjection
<1>11. IsFiniteSet(1 .. Len(s)) /\ Cardinality(1 .. Len(s)) = Len(s)
  <2> DEFINE n == Len(s)
  <2>0. n \in Nat
    BY <1>9
  <2> HIDE DEF n
  <2>1. IsFiniteSet(1 .. n) /\ Cardinality(1 .. n) = n
    BY <2>0, FS_Interval
  <2> QED BY <2>1 DEF n
<1>12. IsFiniteSet(FoundIn(hits)) /\ Cardinality(FoundIn(hits)) = Len(s)
  BY <1>10, <1>11, FS_Surjection
<1> QED BY <1>8, <1>12 DEF s

\* Every record that was found is once in s, with its best hit.
AllOnce(s, hits) ==
  /\ s \in Seq(Ranked) /\ Len(s) = Cardinality(FoundIn(hits))
  /\ \A k \in 1 .. Len(s) : s[k].source \in FoundIn(hits) /\ s[k] = Collapsed(hits, s[k].source)
  /\ \A j, k \in 1 .. Len(s) : s[j].source = s[k].source => j = k
  /\ \A u \in FoundIn(hits) : \E k \in 1 .. Len(s) : s[k].source = u

LEMMA FusedAllOnce ==
  ASSUME Planned, NEW hits \in Seq(RawHit)
  PROVE  AllOnce(Fused(hits), hits)
<1> DEFINE s == Sources(hits)
           t == Fused(hits)
<1>1. /\ s \in Seq(Primary) /\ IsInjective(s) /\ ToSet(s) = FoundIn(hits)
      /\ Cardinality(FoundIn(hits)) = Len(s)
  BY SourcesAre
<1>2. t = [k \in DOMAIN s |-> Collapsed(hits, s[k])]
  BY DEF Fused
<1> HIDE DEF s, t
<1>3. DOMAIN s = 1 .. Len(s) /\ Len(s) \in Nat
  BY <1>1
<1>4. \A k \in 1 .. Len(s) : s[k] \in FoundIn(hits)
  BY <1>1, <1>3 DEF ToSet
<1>5. \A u \in FoundIn(hits) : \E h \in ToSet(hits) : Source(h.point) = u
  BY DEF FoundIn
<1>6. \A u \in FoundIn(hits) : Collapsed(hits, u) \in Ranked /\ Collapsed(hits, u).source = u
  BY <1>5, CollapsedIs
<1>7. t \in Seq(Ranked) /\ Len(t) = Len(s)
  <2>1. t \in [1 .. Len(s) -> Ranked]
    BY <1>2, <1>3, <1>4, <1>6
  <2> QED BY <1>3, <2>1, FunctionIsSeq
<1>8. \A k \in 1 .. Len(s) : t[k] = Collapsed(hits, s[k]) /\ t[k].source = s[k]
  BY <1>2, <1>3, <1>4, <1>6
<1>9. \A k \in 1 .. Len(t) : t[k].source \in FoundIn(hits) /\ t[k] = Collapsed(hits, t[k].source)
  BY <1>4, <1>7, <1>8
<1>10. \A j, k \in 1 .. Len(t) : t[j].source = t[k].source => j = k
  BY <1>1, <1>3, <1>7, <1>8 DEF IsInjective
<1>11. \A u \in FoundIn(hits) : \E k \in 1 .. Len(t) : t[k].source = u
  <2> SUFFICES ASSUME NEW u \in FoundIn(hits) PROVE \E k \in 1 .. Len(t) : t[k].source = u
    BY Zenon
  <2>1. PICK k \in 1 .. Len(s) : s[k] = u
    BY <1>1, <1>3 DEF ToSet
  <2> QED BY <1>7, <1>8, <2>1
<1> QED BY <1>1, <1>7, <1>9, <1>10, <1>11 DEF AllOnce, t

LEMMA PermutedAllOnce ==
  ASSUME NEW s, NEW hits, AllOnce(s, hits), NEW t \in Seq(Ranked), Len(t) = Len(s), NEW p,
         Permutes(p, t, s)
  PROVE  AllOnce(t, hits)
<1>1. /\ \A k \in 1 .. Len(s) : p[k] \in 1 .. Len(s) /\ t[k] = s[p[k]]
      /\ \A i \in 1 .. Len(s) : \E k \in 1 .. Len(s) : p[k] = i
      /\ \A j, k \in 1 .. Len(s) : p[j] = p[k] => j = k
  BY DEF Permutes
<1>2. \A k \in 1 .. Len(t) : t[k].source \in FoundIn(hits) /\ t[k] = Collapsed(hits, t[k].source)
  <2> SUFFICES ASSUME NEW k \in 1 .. Len(t)
               PROVE  t[k].source \in FoundIn(hits) /\ t[k] = Collapsed(hits, t[k].source)
    BY Zenon
  <2>1. p[k] \in 1 .. Len(s) /\ t[k] = s[p[k]]
    BY <1>1, Zenon
  <2> QED BY <2>1, Zenon DEF AllOnce
<1>3. \A j, k \in 1 .. Len(t) : t[j].source = t[k].source => j = k
  <2> SUFFICES ASSUME NEW j \in 1 .. Len(t), NEW k \in 1 .. Len(t), t[j].source = t[k].source
               PROVE  j = k
    BY Zenon
  <2>1. /\ p[j] \in 1 .. Len(s) /\ t[j] = s[p[j]] /\ j \in 1 .. Len(s)
        /\ p[k] \in 1 .. Len(s) /\ t[k] = s[p[k]] /\ k \in 1 .. Len(s)
    BY <1>1, Zenon
  <2>2. s[p[j]].source = s[p[k]].source
    BY <2>1, Zenon
  <2>3. p[j] = p[k]
    BY <2>1, <2>2, Zenon DEF AllOnce
  <2> QED BY <1>1, <2>1, <2>3, Zenon
<1>4. \A u \in FoundIn(hits) : \E k \in 1 .. Len(t) : t[k].source = u
  <2> SUFFICES ASSUME NEW u \in FoundIn(hits) PROVE \E k \in 1 .. Len(t) : t[k].source = u
    BY Zenon
  <2>1. PICK i \in 1 .. Len(s) : s[i].source = u
    BY DEF AllOnce
  <2>2. PICK k \in 1 .. Len(s) : p[k] = i
    BY <1>1, <2>1
  <2> QED BY <1>1, <2>1, <2>2
<1> QED BY <1>2, <1>3, <1>4 DEF AllOnce

\* What Before compares first and then.
First(x) == IF query.order = "latest" THEN Time(x)
            ELSE IF query.order = "earliest" THEN 0 - Time(x) ELSE x.score

Second(x) == IF query.order = "latest" THEN x.score
             ELSE IF query.order = "earliest" THEN 0 - x.score ELSE 0

LEMMA BeforeIs ==
  ASSUME Planned, NEW x \in Ranked, NEW y \in Ranked
  PROVE  /\ First(x) \in Int /\ Second(x) \in Int /\ Time(x) \in Nat
         /\ Before(x, y) <=> First(x) > First(y) \/ (First(x) = First(y) /\ Second(x) > Second(y))
<1>1. x.score \in Nat /\ y.score \in Nat /\ x.point \in Point /\ y.point \in Point
  BY DEF Ranked
<1>2. Time(x) \in Nat /\ Time(y) \in Nat
  BY <1>1, Catalogued DEF Time
<1>3. query.order \in {"none", "latest", "earliest"}
  BY QueryFields DEF Planned
<1> DEFINE a == Time(x)
           b == Time(y)
           c == x.score
           d == y.score
<1>4. a \in Nat /\ b \in Nat /\ c \in Nat /\ d \in Nat
  BY <1>1, <1>2
<1>5. CASE query.order = "latest"
  <2>1. First(x) = a /\ First(y) = b /\ Second(x) = c /\ Second(y) = d
    BY <1>5 DEF First, Second
  <2>2. Before(x, y) <=> (a > b \/ (a = b /\ c > d))
    BY <1>5 DEF Before
  <2> HIDE DEF a, b, c, d
  <2> QED BY <1>2, <1>4, <2>1, <2>2
<1>6. CASE query.order = "earliest"
  <2>1. First(x) = 0 - a /\ First(y) = 0 - b /\ Second(x) = 0 - c /\ Second(y) = 0 - d
    BY <1>6 DEF First, Second
  <2>2. Before(x, y) <=> (a < b \/ (a = b /\ c < d))
    BY <1>6 DEF Before
  <2> HIDE DEF a, b, c, d
  <2> QED BY <1>2, <1>4, <2>1, <2>2
<1>7. CASE query.order = "none"
  <2>1. First(x) = c /\ First(y) = d /\ Second(x) = 0 /\ Second(y) = 0
    BY <1>7 DEF First, Second
  <2>2. Before(x, y) <=> c > d
    BY <1>7 DEF Before
  <2> HIDE DEF a, b, c, d
  <2> QED BY <1>2, <1>4, <2>1, <2>2
<1> QED BY <1>3, <1>5, <1>6, <1>7

Sorted(s) == StableSort(s, Before)

LEMMA SortedIs ==
  ASSUME Planned, NEW s \in Seq(Ranked)
  PROVE  /\ Sorted(s) \in Seq(Ranked) /\ Len(Sorted(s)) = Len(s)
         /\ \E p : Permutes(p, Sorted(s), s)
         /\ \A j, k \in 1 .. Len(s) : j <= k => First(Sorted(s)[j]) >= First(Sorted(s)[k])
<1> DEFINE D == DOMAIN s
           f == [k \in D |-> First(s[k])]
           g == [k \in D |-> Second(s[k])]
           order == {p \in D \X D : \/ Before(s[p[1]], s[p[2]])
                                    \/ ~Before(s[p[2]], s[p[1]]) /\ p[1] <= p[2]}
           t == Sorted(s)
           n == Len(s)
<1>1. t = [k \in D |-> s[Arranged(D, order)[k]]]
  BY DEF Sorted, StableSort
<1>2. D = 1 .. n /\ n \in Nat /\ \A k \in D : s[k] \in Ranked
  OBVIOUS
<1>3. \A i, j \in D : /\ First(s[i]) \in Int /\ Second(s[i]) \in Int
                      /\ Before(s[i], s[j]) <=> \/ First(s[i]) > First(s[j])
                                                \/ /\ First(s[i]) = First(s[j])
                                                   /\ Second(s[i]) > Second(s[j])
  BY <1>2, BeforeIs, Zenon
<1>4. f \in [D -> Int] /\ g \in [D -> Int] /\ \A i \in D : f[i] = First(s[i]) /\ g[i] = Second(s[i])
  <2> HIDE DEF D
  <2> QED BY <1>3, Zenon
<1>5. \A i, j \in D : <<i, j>> \in order
                          <=> Before(s[i], s[j]) \/ (~Before(s[j], s[i]) /\ i <= j)
  <2> HIDE DEF D
  <2> QED OBVIOUS
<1> HIDE DEF order, f, g, t
<1>6. Lexical(order, D, f, g)
  <2> SUFFICES ASSUME NEW i \in D, NEW j \in D
               PROVE  <<i, j>> \in order <=>
                        \/ f[i] > f[j] \/ (f[i] = f[j] /\ g[i] > g[j])
                        \/ ~(f[j] > f[i] \/ (f[j] = f[i] /\ g[j] > g[i])) /\ i <= j
    BY Zenon DEF Lexical
  <2>1. f[i] = First(s[i]) /\ g[i] = Second(s[i]) /\ f[j] = First(s[j]) /\ g[j] = Second(s[j])
    BY <1>4, Zenon
  <2>2. Before(s[i], s[j]) <=> f[i] > f[j] \/ (f[i] = f[j] /\ g[i] > g[j])
    BY <1>3, <2>1, Zenon
  <2>3. Before(s[j], s[i]) <=> f[j] > f[i] \/ (f[j] = f[i] /\ g[j] > g[i])
    BY <1>3, <2>1, Zenon
  <2> QED BY <1>5, <2>2, <2>3, Zenon
<1>7. t \in Seq(Ranked) /\ Len(t) = n /\ SortedBy(t, s, f, g)
  <2>1. f \in [DOMAIN s -> Int] /\ g \in [DOMAIN s -> Int]
    BY <1>4, Zenon
  <2>2. Lexical(order, DOMAIN s, f, g)
    BY <1>6
  <2>3. t = [k \in DOMAIN s |-> s[Arranged(DOMAIN s, order)[k]]]
    BY <1>1
  <2> HIDE DEF D, n
  <2>4. t \in Seq(Ranked)
    BY <2>1, <2>2, <2>3, LexicalSorts
  <2>5. Len(t) = Len(s)
    BY <2>1, <2>2, <2>3, LexicalSorts
  <2>6. SortedBy(t, s, f, g)
    BY <2>1, <2>2, <2>3, LexicalSorts
  <2> QED BY <2>4, <2>5, <2>6 DEF n
<1>8. PICK p : /\ Permutes(p, t, s)
               /\ \A j, k \in 1 .. n : j <= k => \/ f[p[j]] > f[p[k]]
                                                 \/ f[p[j]] = f[p[k]] /\ g[p[j]] >= g[p[k]]
  BY <1>7, Zenon DEF SortedBy
<1> HIDE DEF n, D
<1>9. ASSUME NEW j \in 1 .. n, NEW k \in 1 .. n, j <= k PROVE First(t[j]) >= First(t[k])
  <2>1. p[j] \in D /\ p[k] \in D /\ t[j] = s[p[j]] /\ t[k] = s[p[k]]
    BY <1>2, <1>8 DEF Permutes, n
  <2>2. f[p[j]] = First(t[j]) /\ f[p[k]] = First(t[k]) /\ First(t[j]) \in Int /\ First(t[k]) \in Int
    BY <1>3, <1>4, <2>1, Zenon
  <2>3. First(t[j]) > First(t[k]) \/ First(t[j]) = First(t[k])
    BY <1>8, <1>9, <2>2, Zenon
  <2> QED BY <2>2, <2>3
<1> QED BY <1>7, <1>8, <1>9 DEF t, n

\* The records of r are among those found, at a point where they were found, each once.
FromHits(r, hits) ==
  /\ r \in Seq(Ranked)
  /\ \A k \in DOMAIN r : \E h \in ToSet(hits) : h.point = r[k].point /\ Source(h.point) = r[k].source
  /\ \A j, k \in DOMAIN r : r[j].source = r[k].source => j = k

\* The ranked records are in the order of the times they were found with.
InTime(r) ==
  \A i, j \in DOMAIN r : i < j => /\ query.order = "latest"   => Time(r[i]) >= Time(r[j])
                                  /\ query.order = "earliest" => Time(r[i]) <= Time(r[j])

\* DominantFirst, of any hits and what is made of them.
DominantsBefore(r, hits) ==
  query.order = "none" =>
    \A j \in DOMAIN r : \A a \in FoundIn(hits) :
       DominatesIn(hits, a, r[j].source) => \E i \in 1 .. j - 1 : r[i].source = a

RankFacts(r, hits, limit) ==
  /\ FromHits(r, hits)
  /\ Len(r) = IF limit <= Cardinality(FoundIn(hits)) THEN limit ELSE Cardinality(FoundIn(hits))
  /\ InTime(r)
  /\ DominantsBefore(r, hits)

\* What RetrievalRanker.rank makes of any hits.
LEMMA RankIs ==
  ASSUME Planned, NEW hits \in Seq(RawHit), NEW limit \in Nat
  PROVE  RankFacts(Rank(hits, limit), hits, limit)
<1>1. CASE hits = <<>>
  <2>1. FoundIn(hits) = {}
    BY <1>1 DEF FoundIn, ToSet
  <2>2. Cardinality(FoundIn(hits)) = 0
    BY <2>1, FS_EmptySet
  <2>3. Rank(hits, limit) = <<>>
    BY <1>1 DEF Rank
  <2> QED BY <2>2, <2>3 DEF RankFacts, FromHits, InTime, DominantsBefore
<1>2. CASE hits # <<>>
  <2> DEFINE s == ByScore(Fused(hits))
             t == Sorted(s)
             r == Rank(hits, limit)
             m == Cardinality(FoundIn(hits))
  <2>1. r = Limited(t, limit)
    BY <1>2 DEF Rank, Sorted
  <2>2. AllOnce(Fused(hits), hits)
    BY FusedAllOnce
  <2>3. \A x \in Ranked : x.score \in Int
    BY DEF Ranked
  <2>4. s \in Seq(Ranked) /\ Len(s) = Len(Fused(hits)) /\ \E p : Permutes(p, s, Fused(hits))
    <3>1. Fused(hits) \in Seq(Ranked)
      BY <2>2 DEF AllOnce
    <3>2. /\ s \in Seq(Ranked) /\ Len(s) = Len(Fused(hits))
          /\ SortedBy(s, Fused(hits), ScoresOf(Fused(hits)), Zeros(Fused(hits)))
      BY <2>3, <3>1, ByScoreSorts
    <3> QED BY <3>2, Zenon DEF SortedBy
  <2> HIDE DEF s
  <2>5. AllOnce(s, hits)
    BY <2>2, <2>4, PermutedAllOnce
  <2>6. /\ t \in Seq(Ranked) /\ Len(t) = Len(s) /\ \E p : Permutes(p, t, s)
        /\ \A j, k \in 1 .. Len(s) : j <= k => First(t[j]) >= First(t[k])
    BY <2>4, SortedIs
  <2> HIDE DEF t, r
  <2>7. AllOnce(t, hits)
    BY <2>5, <2>6, PermutedAllOnce
  <2>8. /\ t \in Seq(Ranked) /\ Len(t) = m /\ m \in Nat
        /\ \A k \in 1 .. m : t[k].source \in FoundIn(hits) /\ t[k] = Collapsed(hits, t[k].source)
        /\ \A j, k \in 1 .. m : t[j].source = t[k].source => j = k
        /\ \A u \in FoundIn(hits) : \E k \in 1 .. m : t[k].source = u
        /\ \A j, k \in 1 .. m : j <= k => First(t[j]) >= First(t[k])
    BY <2>6, <2>7 DEF AllOnce
  <2> HIDE DEF m
  <2>9. /\ r \in Seq(Ranked) /\ Len(r) = IF limit <= m THEN limit ELSE m
        /\ \A k \in 1 .. Len(r) : k \in 1 .. m /\ r[k] = t[k]
    BY <2>1, <2>8, LimitedIs
  <2>10. DOMAIN r = 1 .. Len(r) /\ Len(r) \in Nat
    BY <2>9
  <2>11. \A k \in 1 .. m : t[k] \in Ranked
    BY <2>8
  <2>12. ASSUME NEW u \in FoundIn(hits)
         PROVE  \E h \in ToSet(hits) : h.point = Collapsed(hits, u).point /\ Source(h.point) = u
    <3>1. \E h \in ToSet(hits) : Source(h.point) = u
      BY DEF FoundIn
    <3> QED BY <3>1, CollapsedIs
  <2>13. FromHits(r, hits)
    <3>1. ASSUME NEW k \in DOMAIN r
          PROVE  \E h \in ToSet(hits) : h.point = r[k].point /\ Source(h.point) = r[k].source
      <4>1. r[k].source \in FoundIn(hits) /\ r[k] = Collapsed(hits, r[k].source)
        BY <2>8, <2>9, <2>10
      <4> QED BY <4>1, <2>12
    <3>2. \A j, k \in DOMAIN r : r[j].source = r[k].source => j = k
      BY <2>8, <2>9, <2>10
    <3> QED BY <2>9, <3>1, <3>2 DEF FromHits
  <2>14. InTime(r)
    <3> SUFFICES ASSUME NEW i \in DOMAIN r, NEW j \in DOMAIN r, i < j
                 PROVE  /\ query.order = "latest"   => Time(r[i]) >= Time(r[j])
                        /\ query.order = "earliest" => Time(r[i]) <= Time(r[j])
      BY Zenon DEF InTime
    <3>1. i \in 1 .. m /\ j \in 1 .. m /\ r[i] = t[i] /\ r[j] = t[j] /\ i <= j
      BY <2>9, <2>10
    <3>2. First(r[i]) >= First(r[j])
      BY <2>8, <3>1
    <3>3. Time(r[i]) \in Nat /\ Time(r[j]) \in Nat
      BY <2>11, <3>1, BeforeIs
    <3> QED BY <3>2, <3>3 DEF First
  <2>15. DominantsBefore(r, hits)
    <3> SUFFICES ASSUME query.order = "none", NEW j \in DOMAIN r, NEW a \in FoundIn(hits),
                        DominatesIn(hits, a, r[j].source)
                 PROVE  \E i \in 1 .. j - 1 : r[i].source = a
      BY Zenon DEF DominantsBefore
    <3>1. j \in 1 .. m /\ j \in 1 .. Len(r) /\ r[j] = t[j]
      BY <2>9, <2>10
    <3>2. t[j].source \in FoundIn(hits) /\ t[j] = Collapsed(hits, t[j].source)
      BY <2>8, <3>1
    <3>3. PICK i \in 1 .. m : t[i].source = a
      BY <2>8
    <3>4. t[i] = Collapsed(hits, a)
      BY <2>8, <3>3
    <3>5. Collapsed(hits, a).score > Collapsed(hits, t[j].source).score
      <4>1. (\E h \in ToSet(hits) : Source(h.point) = a)
            /\ \E h \in ToSet(hits) : Source(h.point) = t[j].source
        BY <3>2 DEF FoundIn
      <4> QED BY <3>1, <4>1, DominantScoresMore
    <3>6. t[i].score > t[j].score
      BY <3>2, <3>4, <3>5
    <3>7. First(t[i]) = t[i].score /\ First(t[j]) = t[j].score
      BY DEF First
    <3>8. t[i].score \in Nat /\ t[j].score \in Nat
      BY <2>11, <3>1 DEF Ranked
    <3>9. i < j
      <4>1. ~(j <= i)
        BY <2>8, <3>1, <3>6, <3>7, <3>8
      <4> QED BY <3>1, <4>1
    <3>10. i \in 1 .. Len(r) /\ i \in 1 .. j - 1
      BY <3>1, <3>9, <2>10
    <3> QED BY <3>3, <3>10, <2>9
  <2> QED BY <2>9, <2>13, <2>14, <2>15 DEF RankFacts, r, m
<1> QED BY <1>1, <1>2

-------------------------------------------------------------------------------
(* What the steps of a recall find *)

LEMMA LimitsTyped ==
  ASSUME Planned
  PROVE  /\ query.limit \in Nat /\ ConeBudget(query) \in Nat
         /\ \A s \in ToSet(Surfaces) : SurfaceLimit(query, evidence, s) \in Nat
         /\ \A b \in BOOLEAN : RerankLimit(b, SeedLimit) \in Nat /\ RerankLimit(b, FinalLimit) \in Nat
         /\ InitialLimit \in Nat
<1>1. query.limit \in 1 .. 50 /\ SeedLimit \in Nat /\ FinalLimit \in Nat
  BY QueryFields, RecallAssumption DEF Planned
<1>2. CandidateLimit(query, evidence) \in Nat
  <2> DEFINE l == query.limit
             base == Max({6 * l, l + 12})
             weak == IF Confidence(evidence) < 4500 \/ evidence.candidates = 0 THEN 3 * l ELSE 0
             extra == IF evidence.locators > 0 THEN l ELSE 0
  <2>1. CandidateLimit(query, evidence) = Min({96, base + weak + extra})
    BY DEF CandidateLimit
  <2>2. l \in Nat
    BY <1>1
  <2> HIDE DEF l
  <2>3. base \in Nat
    <3>1. 6 * l \in Int /\ l + 12 \in Int /\ 6 * l >= 0 /\ l + 12 >= 0
      BY <2>2
    <3>2. base = IF 6 * l <= l + 12 THEN l + 12 ELSE 6 * l
      BY <3>1, Pair
    <3> QED BY <3>1, <3>2
  <2>4. weak \in Nat /\ extra \in Nat
    BY <2>2
  <2> HIDE DEF base, weak, extra
  <2> DEFINE sum == base + weak + extra
  <2>5. sum \in Nat
    BY <2>3, <2>4
  <2> HIDE DEF sum
  <2>6. Min({96, sum}) = IF 96 <= sum THEN 96 ELSE sum
    BY <2>5, Pair
  <2> QED BY <2>1, <2>5, <2>6 DEF sum
<1>3. ASSUME NEW s \in ToSet(Surfaces) PROVE SurfaceLimit(query, evidence, s) \in Nat
  <2> DEFINE c == CandidateLimit(query, evidence)
  <2>1. SurfaceLimit(query, evidence, s) \in {Max({8, c \div 2}), Max({6, c \div 3}), Max({8, c \div 3}),
                                              Max({5, c \div 4})}
    BY DEF SurfaceLimit
  <2>2. c \in Nat
    BY <1>2
  <2> HIDE DEF c
  <2>3. c \div 2 \in Nat /\ c \div 3 \in Nat /\ c \div 4 \in Nat
    BY <2>2
  <2>4. \A x \in Nat, y \in Nat : Max({x, y}) \in Nat
    <3> SUFFICES ASSUME NEW x \in Nat, NEW y \in Nat PROVE Max({x, y}) \in Nat
      BY Zenon
    <3> QED BY Pair
  <2> QED BY <2>1, <2>3, <2>4
<1>4. ASSUME NEW b \in BOOLEAN, NEW setting \in Nat PROVE RerankLimit(b, setting) \in Nat
  <2>1. Min({30, setting}) \in Nat
    BY Pair
  <2> DEFINE x == IF b THEN Min({30, setting}) ELSE setting
  <2>2. x \in Nat
    BY <2>1
  <2>3. RerankLimit(b, setting) = Max({1, x})
    BY DEF RerankLimit
  <2> HIDE DEF x
  <2>4. Max({1, x}) = IF 1 <= x THEN x ELSE 1
    <3>1. x \in Int /\ 1 \in Int
      BY <2>2
    <3> QED BY <3>1, Pair
  <2> QED BY <2>2, <2>3, <2>4
<1>5. ConeBudget(query) \in Nat
  BY DEF ConeBudget, MaxSeeds
<1>6. InitialLimit \in Nat
  <2>1. /\ RerankLimit(TRUE, SeedLimit) \in Nat /\ RerankLimit(TRUE, FinalLimit) \in Nat
        /\ query.limit \in Nat
    <3>1. TRUE \in BOOLEAN /\ query.limit \in Nat
      BY <1>1
    <3>2. RerankLimit(TRUE, SeedLimit) \in Nat /\ RerankLimit(TRUE, FinalLimit) \in Nat
      BY <1>1, <1>4, <3>1, Zenon
    <3> QED BY <3>1, <3>2
  <2>2. InitialLimit \in {RerankLimit(TRUE, SeedLimit), RerankLimit(TRUE, FinalLimit), query.limit}
    BY Zenon DEF InitialLimit
  <2> QED BY <2>1, <2>2
<1> QED BY <1>1, <1>3, <1>4, <1>5, <1>6

LEMMA SomePoints ==
  ASSUME NEW S \in SUBSET Point
  PROVE  /\ IsFiniteSet(S) /\ Ascending(S) \in Seq(S) /\ ToSet(Ascending(S)) = S
         /\ S = {} <=> Ascending(S) = <<>>
<1>1. Point \in SUBSET Nat /\ IsFiniteSet(Point)
  BY Catalogued
<1>2. IsFiniteSet(S) /\ S \in SUBSET Int
  <2>1. S \in SUBSET Int
    <3> HIDE DEF Point
    <3> QED BY <1>1
  <2>2. IsFiniteSet(S)
    BY <1>1, FS_Subset, Zenon
  <2> QED BY <2>1, <2>2
<1> DEFINE n == Cardinality(S)
           a == Ascending(S)
<1>3. n \in Nat /\ a \in [1 .. n -> S] /\ \A x \in S : \E k \in 1 .. n : a[k] = x
  BY <1>2, AscendingLists
<1> HIDE DEF n, a
<1>4. a \in Seq(S) /\ Len(a) = n
  BY <1>3, FunctionIsSeq
<1>5. ToSet(a) = S
  BY <1>3 DEF ToSet
<1>6. S = {} <=> a = <<>>
  <2>1. CASE S = {}
    <3>1. n = 0
      BY <1>3, <2>1
    <3> QED BY <1>4, <2>1, <3>1
  <2>2. CASE S # {}
    <3>1. PICK k \in 1 .. n : TRUE
      BY <1>3, <2>2
    <3> QED BY <1>4, <2>2, <3>1
  <2> QED BY <2>1, <2>2
<1> QED BY <1>2, <1>4, <1>5, <1>6 DEF a

\* The probe types its evidence and entry points.
LEMMA ProbeTyped ==
  ASSUME Planned, index \subseteq Point, Probe
  PROVE  evidence' \in Evidence /\ starting' \in Seq(Uri) /\ IsInjective(starting')
<1> DEFINE vector == query.vectors
           o == [k \in DOMAIN vector |-> ProbeObjects(vector[k])]
           l == [k \in DOMAIN vector |-> ProbeLocators(vector[k])]
           objects == TopRecords(o)
           locators == TopRecords(l)
<1>1. evidence' = EvidenceOf(objects, locators) /\ starting' = StartingUris(objects, locators)
  BY DEF Probe
<1>2. vector \in Seq(Vector)
  BY QueryFields DEF Planned
<1>3. \A s, key : Visible(s, key) \in SUBSET Point
  BY DEF Visible
<1>4. HitsAt(Point) = Hit /\ TopK \in Nat
  BY DEF HitsAt, Hit, TopK
<1>5. \A s, key : \A v \in Vector : Best(Visible(s, key), v, TopK) \in Seq(Hit)
  <2> SUFFICES ASSUME NEW s, NEW key, NEW v \in Vector
               PROVE  Best(Visible(s, key), v, TopK) \in Seq(Hit)
    BY Zenon
  <2> DEFINE S == Visible(s, key)
  <2>1. S \in SUBSET Point
    BY <1>3
  <2> HIDE DEF S
  <2>2. Best(S, v, TopK) \in Seq(HitsAt(S))
    BY <1>4, <2>1, BestHits
  <2>3. HitsAt(S) \subseteq Hit
    BY <2>1 DEF HitsAt, Hit
  <2>4. Best(S, v, TopK) \in Seq(Hit)
    BY <2>2, <2>3
  <2> QED BY <2>4 DEF S
<1>6. ASSUME NEW v \in Vector PROVE ProbeObjects(v) \in Seq(Hit)
  BY <1>5 DEF ProbeObjects
<1>7. ASSUME NEW v \in Vector PROVE ProbeLocators(v) \in Seq(Hit)
  <2> DEFINE found == [k \in DOMAIN LocatorSurfaces |-> Best(Visible(LocatorSurfaces[k], "tenant_id"), v, TopK)]
  <2>1. ProbeLocators(v) = TopRecords(found)
    BY DEF ProbeLocators, TopRecords
  <2>2. found \in Seq(Seq(Hit))
    <3>1. DOMAIN LocatorSurfaces = 1 .. 3
      BY DEF LocatorSurfaces
    <3>2. found \in [1 .. 3 -> Seq(Hit)]
      BY <1>5, <3>1
    <3> QED BY <3>2, FunctionIsSeq
  <2> HIDE DEF found
  <2> QED BY <2>1, <2>2, <1>4, TopOfAll
<1>8. DOMAIN vector = 1 .. Len(vector) /\ Len(vector) \in Nat /\ \A k \in DOMAIN vector : vector[k] \in Vector
  BY <1>2
<1>9. o \in Seq(Seq(Hit)) /\ l \in Seq(Seq(Hit))
  <2> HIDE DEF vector
  <2>1. o \in [1 .. Len(vector) -> Seq(Hit)] /\ l \in [1 .. Len(vector) -> Seq(Hit)]
    BY <1>6, <1>7, <1>8
  <2> QED BY <1>8, <2>1, FunctionIsSeq
<1> HIDE DEF o, l
<1>10. objects \in Seq(Hit) /\ locators \in Seq(Hit)
  BY <1>4, <1>9, TopOfAll
<1> HIDE DEF objects, locators
<1> QED BY <1>1, <1>10, EvidenceTyped, StartingTyped

\* The selection adds tree nodes of the collection.
LEMMA SelectTyped ==
  ASSUME index \subseteq Point, starting \in Seq(Uri), Select
  PROVE  /\ starting' \in Seq(Uri) /\ IsInjective(starting')
         /\ raw' \in Seq(RawHit)
         /\ \A h \in ToSet(raw') : h.point \in index /\ Catalogue[h.point].surface = Tree
<1> DEFINE Trees == {i \in index : Catalogue[i].surface = Tree}
<1>1. TreeCandidates \subseteq Trees
  <2> DEFINE at(i) == {Catalogue[i].source, Catalogue[i].tree, Catalogue[i].parent} \ {<<>>}
             near == {i \in Visible(Tree, "source_tenant_id") : at(i) \cap ToSet(starting) # {}}
             some == Limited(Ascending(near), MaxTreeNodes)
  <2>1. near \in SUBSET Trees
    BY DEF Visible
  <2>2. near \in SUBSET Point
    BY <2>1
  <2>3. TreeCandidates = ToSet(some) \/ TreeCandidates = {}
    BY DEF TreeCandidates
  <2> HIDE DEF near
  <2>4. Ascending(near) \in Seq(near)
    BY <2>2, SomePoints
  <2>5. MaxTreeNodes \in Nat
    BY DEF MaxTreeNodes
  <2>6. some \in Seq(near)
    BY <2>4, <2>5, LimitedIs
  <2> HIDE DEF some, Trees
  <2>7. ToSet(some) \subseteq near
    BY <2>6, ElementsFinite
  <2> QED BY <2>1, <2>3, <2>7
<1>2. PICK nodes \in UNION {[1 .. n -> TreeCandidates] : n \in 0 .. 3} :
             /\ starting' = Unique([k \in DOMAIN nodes |-> Catalogue[nodes[k]].uri] \o starting)
             /\ raw' = [k \in DOMAIN nodes |-> [point |-> nodes[k], score |-> 0]]
  BY DEF Select
<1> DEFINE chosen == TreeCandidates
           uris == [k \in DOMAIN nodes |-> Catalogue[nodes[k]].uri]
<1>3. /\ starting' = Unique(uris \o starting)
      /\ raw' = [k \in DOMAIN nodes |-> [point |-> nodes[k], score |-> 0]]
  BY <1>2
<1>4. chosen \in SUBSET Trees /\ chosen \in SUBSET Point
  BY <1>1
<1>5. nodes \in Seq(chosen)
  <2>1. PICK n \in 0 .. 3 : nodes \in [1 .. n -> chosen]
    BY <1>2
  <2> QED BY <2>1
<1> HIDE DEF chosen
<1>6. DOMAIN nodes = 1 .. Len(nodes) /\ Len(nodes) \in Nat /\ \A k \in DOMAIN nodes : nodes[k] \in chosen
  BY <1>5
<1>7. uris \in Seq(Uri)
  <2>1. \A k \in DOMAIN nodes : Catalogue[nodes[k]].uri \in Uri
    BY <1>4, <1>6, Catalogued
  <2>2. uris \in [1 .. Len(nodes) -> Uri]
    BY <1>6, <2>1
  <2> HIDE DEF uris
  <2> QED BY <1>6, <2>2, FunctionIsSeq
<1> HIDE DEF uris
<1>8. uris \o starting \in Seq(Uri)
  BY <1>7
<1>9. starting' \in Seq(Uri) /\ IsInjective(starting')
  BY <1>3, <1>8, UniqueIs
<1>10. \A k \in DOMAIN nodes : nodes[k] \in Surfaced /\ nodes[k] \in Trees
  <2>1. Tree \in ToSet(Surfaces)
    BY SurfaceNames
  <2> QED BY <1>4, <1>6, <2>1 DEF Surfaced
<1>11. raw' \in Seq(HitsAt(Surfaced \cap Trees))
  <2>1. raw' \in [1 .. Len(nodes) -> HitsAt(Surfaced \cap Trees)]
    BY <1>3, <1>6, <1>10 DEF HitsAt
  <2> QED BY <1>6, <2>1, FunctionIsSeq
<1>12. raw' \in Seq(RawHit)
  <2>1. HitsAt(Surfaced \cap Trees) \subseteq RawHit
    BY DEF RawHit, HitsAt
  <2> QED BY <1>11, <2>1
<1>13. \A h \in ToSet(raw') : h.point \in index /\ Catalogue[h.point].surface = Tree
  <2>1. ToSet(raw') \in SUBSET HitsAt(Surfaced \cap Trees)
    BY <1>11, ElementsFinite
  <2> QED BY <2>1 DEF HitsAt
<1> QED BY <1>9, <1>12, <1>13

\* The points that a search can find for the query.
Eligible == {i \in index : Catalogue[i].surface \in ToSet(Surfaces) /\ InRange(i)}

LEMMA ExecutedTyped ==
  ASSUME Planned, index \subseteq Point, NEW late
  PROVE  Executed(late) \in Seq(HitsAt(Eligible))
<1> DEFINE vector == query.vectors
           one(s, v) == IF <<s, v>> \in late THEN <<>> ELSE SearchSurface(Surfaces[s], vector[v])
           of(s) == Joined([v \in DOMAIN vector |-> one(s, v)])
           X == HitsAt(Eligible)
<1>1. Executed(late) = Joined([s \in DOMAIN Surfaces |-> of(s)])
  BY DEF Executed
<1>2. vector \in Seq(Vector)
  BY QueryFields DEF Planned
<1>3. DOMAIN vector = 1 .. Len(vector) /\ Len(vector) \in Nat /\ \A k \in DOMAIN vector : vector[k] \in Vector
  BY <1>2
<1>4. DOMAIN Surfaces = 1 .. 5 /\ \A s \in 1 .. 5 : Surfaces[s] \in ToSet(Surfaces)
  <2>1. DOMAIN Surfaces = 1 .. 5
    BY DEF Surfaces
  <2> QED BY <2>1 DEF ToSet
<1>5. ASSUME NEW s \in ToSet(Surfaces), NEW v \in Vector PROVE SearchSurface(s, v) \in Seq(X)
  <2> DEFINE P == {i \in Visible(s, "tenant_id") : InRange(i)}
             n == SurfaceLimit(query, evidence, s)
  <2>1. P \in SUBSET Eligible /\ P \in SUBSET Point
    BY DEF Visible, Eligible
  <2>2. n \in Nat
    BY LimitsTyped
  <2>3. SearchSurface(s, v) = Best(P, v, n)
    BY DEF SearchSurface
  <2> HIDE DEF P, n
  <2>4. Best(P, v, n) \in Seq(HitsAt(P))
    BY <2>1, <2>2, BestHits
  <2>5. HitsAt(P) \subseteq X
    BY <2>1 DEF HitsAt
  <2> HIDE DEF X
  <2> QED BY <2>3, <2>4, <2>5
<1>6. ASSUME NEW s \in 1 .. 5, NEW v \in DOMAIN vector PROVE one(s, v) \in Seq(X)
  <2>1. SearchSurface(Surfaces[s], vector[v]) \in Seq(X)
    BY <1>3, <1>4, <1>5
  <2>2. <<>> \in Seq(X)
    OBVIOUS
  <2> HIDE DEF X
  <2> QED BY <2>1, <2>2
<1> HIDE DEF one, vector, X
<1>7. ASSUME NEW s \in 1 .. 5 PROVE of(s) \in Seq(X)
  <2>1. [v \in DOMAIN vector |-> one(s, v)] \in [1 .. Len(vector) -> Seq(X)]
    BY <1>3, <1>6
  <2>2. [v \in DOMAIN vector |-> one(s, v)] \in Seq(Seq(X))
    BY <1>3, <2>1, FunctionIsSeq
  <2> QED BY <2>2, JoinedIn
<1> HIDE DEF of
<1>8. [s \in DOMAIN Surfaces |-> of(s)] \in Seq(Seq(X))
  <2>1. [s \in DOMAIN Surfaces |-> of(s)] \in [1 .. 5 -> Seq(X)]
    BY <1>4, <1>7
  <2> QED BY <2>1, FunctionIsSeq
<1> QED BY <1>1, <1>8, JoinedIn DEF X

\* The neighbours of the ranked points.
Linked == {u \in Uri : \E k \in DOMAIN ranked : u \in ToSet(Catalogue[ranked[k].point].neighbors)}

\* The time of a record, as the cone has it.
TimeOf(u) == Max({0} \cup {Time(h) : h \in {x \in ToSet(ranked) : x.source = u}})

LEMMA TimeOfTyped ==
  ASSUME ranked \in Seq(Ranked), NEW u
  PROVE  TimeOf(u) \in Int
<1> DEFINE own == {x \in ToSet(ranked) : x.source = u}
           f == [h \in own |-> Time(h)]
           S == {Time(h) : h \in own}
<1>1. IsFiniteSet(ToSet(ranked)) /\ ToSet(ranked) \in SUBSET Ranked
  BY ElementsFinite
<1>2. IsFiniteSet(own) /\ own \in SUBSET Ranked
  BY <1>1, FS_Subset
<1>3. S = {f[h] : h \in own} /\ DOMAIN f = own
  OBVIOUS
<1>4. S \in SUBSET Int
  <2> SUFFICES ASSUME NEW h \in own PROVE Time(h) \in Int
    OBVIOUS
  <2>1. h.point \in Point
    BY <1>2 DEF Ranked
  <2> QED BY <2>1, Catalogued DEF Time
<1> HIDE DEF own, f
<1>5. IsFiniteSet(S)
  BY <1>2, <1>3, ImageFinite
<1> HIDE DEF S
<1>6. IsFiniteSet({0} \cup S)
  BY <1>5, FS_Singleton, FS_Union
<1>7. {0} \cup S \in SUBSET Int /\ {0} \cup S # {}
  BY <1>4
<1>8. Max({0} \cup S) \in Int
  BY <1>6, <1>7, Extremes
<1> QED BY <1>8 DEF TimeOf, S, own

LEMMA NeighborsLinked ==
  ASSUME Planned, ranked \in Seq(Ranked)
  PROVE  Neighbors \in Seq(Linked)
<1> DEFINE seeds  == Limited(ranked, MaxSeeds)
           known  == [k \in DOMAIN seeds |-> seeds[k].source]
           near   == [k \in DOMAIN seeds |-> Catalogue[seeds[k].point].neighbors]
           linked == Unique(Joined(near))
           new    == At(linked, {k \in DOMAIN linked : linked[k] \notin ToSet(known)})
           D      == DOMAIN new
           order  == {p \in D \X D : \/ TimeOf(new[p[1]]) < TimeOf(new[p[2]])
                                     \/ ~(TimeOf(new[p[2]]) < TimeOf(new[p[1]])) /\ p[1] <= p[2]}
           sorted == [k \in D |-> new[Arranged(D, order)[k]]]
           f      == [k \in D |-> 0 - TimeOf(new[k])]
           g      == Zeros(new)
<1>1. Neighbors = Limited(IF query.type = "temporal" THEN sorted ELSE new, ConeBudget(query))
  BY DEF Neighbors, StableSort, TimeOf
<1>2. seeds \in Seq(Ranked) /\ \A k \in DOMAIN seeds : k \in DOMAIN ranked /\ seeds[k] = ranked[k]
  <2>1. /\ seeds \in Seq(Ranked)
        /\ \A k \in 1 .. Len(seeds) : k \in 1 .. Len(ranked) /\ seeds[k] = ranked[k]
    BY LimitedIs DEF MaxSeeds
  <2>2. DOMAIN seeds = 1 .. Len(seeds) /\ DOMAIN ranked = 1 .. Len(ranked)
    BY <2>1
  <2> QED BY <2>1, <2>2
<1> HIDE DEF seeds
<1>3. \A k \in DOMAIN seeds : Catalogue[seeds[k].point].neighbors \in Seq(Linked)
  <2> SUFFICES ASSUME NEW k \in DOMAIN seeds
               PROVE  Catalogue[seeds[k].point].neighbors \in Seq(Linked)
    BY Zenon
  <2> DEFINE s == Catalogue[seeds[k].point].neighbors
  <2>1. k \in DOMAIN ranked /\ s = Catalogue[ranked[k].point].neighbors /\ seeds[k].point \in Point
    <3>1. k \in DOMAIN ranked /\ seeds[k] = ranked[k] /\ seeds[k] \in Ranked
      BY <1>2
    <3> QED BY <3>1 DEF Ranked
  <2>2. s \in Seq(Uri)
    BY <2>1, Catalogued
  <2>3. \A j \in DOMAIN s : s[j] \in ToSet(s) /\ s[j] \in Uri
    BY <2>2 DEF ToSet
  <2>4. \A j \in DOMAIN s : s[j] \in Linked
    BY <2>1, <2>3 DEF Linked
  <2> HIDE DEF s
  <2>5. s \in [1 .. Len(s) -> Linked] /\ Len(s) \in Nat
    BY <2>2, <2>4
  <2> QED BY <2>5, FunctionIsSeq DEF s
<1>4. near \in Seq(Seq(Linked))
  <2>1. DOMAIN seeds = 1 .. Len(seeds) /\ Len(seeds) \in Nat
    BY <1>2
  <2>2. near \in [1 .. Len(seeds) -> Seq(Linked)]
    BY <1>3, <2>1
  <2> HIDE DEF near
  <2> QED BY <2>1, <2>2, FunctionIsSeq
<1> HIDE DEF near, known
<1>5. linked \in Seq(Linked)
  <2>1. Joined(near) \in Seq(Linked)
    BY <1>4, JoinedIn
  <2> QED BY <2>1, UniqueIs
<1> HIDE DEF linked
<1>6. new \in Seq(Linked)
  <2> DEFINE P == {k \in DOMAIN linked : linked[k] \notin ToSet(known)}
  <2>1. P \in SUBSET DOMAIN linked
    OBVIOUS
  <2> HIDE DEF P
  <2>2. At(linked, P) \in Seq(Linked)
    BY <1>5, <2>1, AtPicks
  <2> QED BY <2>2 DEF P
<1> HIDE DEF new
<1>7. sorted \in Seq(Linked)
  <2>1. \A i \in D : TimeOf(new[i]) \in Int
    BY TimeOfTyped
  <2>2. /\ f \in [D -> Int] /\ g \in [D -> Int]
        /\ \A i \in D : f[i] = 0 - TimeOf(new[i]) /\ g[i] = 0
    <3> HIDE DEF D
    <3>1. g \in [D -> Int] /\ \A i \in D : g[i] = 0
      BY DEF Zeros, D
    <3>2. \A i \in D : 0 - TimeOf(new[i]) \in Int
      BY <2>1
    <3>3. f \in [D -> Int] /\ \A i \in D : f[i] = 0 - TimeOf(new[i])
      BY <3>2
    <3> QED BY <3>1, <3>3
  <2>3. \A i, j \in D : <<i, j>> \in order
             <=> TimeOf(new[i]) < TimeOf(new[j]) \/ (~(TimeOf(new[j]) < TimeOf(new[i])) /\ i <= j)
    <3> HIDE DEF D
    <3> QED OBVIOUS
  <2> HIDE DEF order, f, g
  <2>4. Lexical(order, D, f, g)
    <3> SUFFICES ASSUME NEW i \in D, NEW j \in D
                 PROVE  <<i, j>> \in order <=>
                          \/ f[i] > f[j] \/ (f[i] = f[j] /\ g[i] > g[j])
                          \/ ~(f[j] > f[i] \/ (f[j] = f[i] /\ g[j] > g[i])) /\ i <= j
      BY Zenon DEF Lexical
    <3> DEFINE a == TimeOf(new[i])
               b == TimeOf(new[j])
    <3>1. f[i] = 0 - a /\ f[j] = 0 - b /\ g[i] = 0 /\ g[j] = 0 /\ a \in Int /\ b \in Int
      BY <2>1, <2>2, Zenon
    <3>2. <<i, j>> \in order <=> a < b \/ (~(b < a) /\ i <= j)
      BY <2>3, Zenon
    <3> HIDE DEF a, b, D
    <3> QED BY <3>1, <3>2
  <2>5. f \in [DOMAIN new -> Int] /\ g \in [DOMAIN new -> Int] /\ Lexical(order, DOMAIN new, f, g)
    BY <2>2, <2>4, Zenon
  <2>6. sorted = [k \in DOMAIN new |-> new[Arranged(DOMAIN new, order)[k]]]
    OBVIOUS
  <2> HIDE DEF sorted, D
  <2> QED BY <1>6, <2>5, <2>6, LexicalSorts
<1>8. ConeBudget(query) \in Nat
  BY LimitsTyped
<1> DEFINE all == IF query.type = "temporal" THEN sorted ELSE new
<1> HIDE DEF sorted
<1>9. all \in Seq(Linked)
  BY <1>6, <1>7
<1> HIDE DEF all
<1>10. Limited(all, ConeBudget(query)) \in Seq(Linked)
  BY <1>8, <1>9, LimitedIs
<1> QED BY <1>1, <1>10 DEF all

LEMMA ConePointsLinked ==
  ASSUME Planned, ranked \in Seq(Ranked), NEW i \in ConePoints
  PROVE  /\ i \in index /\ Catalogue[i].surface = Object
         /\ \E k \in DOMAIN ranked : Catalogue[i].uri \in ToSet(Catalogue[ranked[k].point].neighbors)
<1>1. Neighbors \in Seq(Linked)
  BY NeighborsLinked
<1>2. ToSet(Neighbors) \in SUBSET Linked
  BY <1>1, ElementsFinite
<1>3. i \in Visible(Object, "tenant_id") /\ Catalogue[i].uri \in ToSet(Neighbors)
  BY DEF ConePoints
<1> QED BY <1>2, <1>3 DEF Visible, Linked

\* The ranked hits in another order.
Reordered(t, s) ==
  /\ t \in Seq(Ranked) /\ Len(t) = Len(s)
  /\ \E p : Permutes(p, t, s)

LEMMA ReorderingsPermute ==
  ASSUME ranked \in Seq(Ranked), NEW planned \in BOOLEAN, NEW limit \in Nat,
         NEW t \in Reorderings(planned, limit)
  PROVE  Reordered(t, ranked)
<1> DEFINE m == Len(ranked)
           n == Min({limit, m})
<1>1. m \in Nat /\ DOMAIN ranked = 1 .. m /\ \A k \in 1 .. m : ranked[k] \in Ranked
  OBVIOUS
<1>2. CASE t = ranked
  <2> DEFINE p == [k \in 1 .. m |-> k]
  <2>1. Permutes(p, ranked, ranked)
    BY <1>1 DEF Permutes
  <2> QED BY <1>2, <2>1 DEF Reordered
<1>3. CASE t # ranked
  <2>1. PICK q \in Bijection(1 .. n, 1 .. n) :
              t = [k \in DOMAIN ranked |-> IF k <= n THEN ranked[q[k]] ELSE ranked[k]]
    BY <1>3 DEF Reorderings
  <2>2. n \in Nat /\ n <= m
    <3> HIDE DEF m
    <3> QED BY <1>1, Pair
  <2> HIDE DEF m, n
  <2>3. /\ \A k \in 1 .. n : q[k] \in 1 .. n
        /\ \A i \in 1 .. n : \E k \in 1 .. n : q[k] = i
        /\ \A j, k \in 1 .. n : q[j] = q[k] => j = k
    BY DEF Bijection, Injection, Surjection, IsInjective
  <2> DEFINE p == [k \in 1 .. m |-> IF k <= n THEN q[k] ELSE k]
  <2>4. \A k \in 1 .. m : /\ k <= n => k \in 1 .. n /\ p[k] = q[k] /\ q[k] \in 1 .. n
                          /\ ~(k <= n) => p[k] = k
    BY <1>1, <2>2, <2>3
  <2>5. p \in [1 .. m -> 1 .. m]
    <3>1. \A k \in 1 .. n : k \in 1 .. m
      BY <1>1, <2>2
    <3>2. \A k \in 1 .. m : p[k] \in 1 .. m
      BY <2>4, <3>1
    <3> HIDE DEF p
    <3> QED BY <3>2 DEF p
  <2>6. \A k \in 1 .. m : t[k] = ranked[p[k]]
    BY <1>1, <2>1
  <2> HIDE DEF p
  <2>7. \A i \in 1 .. m : \E k \in 1 .. m : p[k] = i
    <3> SUFFICES ASSUME NEW i \in 1 .. m PROVE \E k \in 1 .. m : p[k] = i
      BY Zenon
    <3>1. CASE i <= n
      <4>1. i \in 1 .. n
        BY <1>1, <2>2, <3>1
      <4>2. PICK k \in 1 .. n : q[k] = i
        BY <2>3, <4>1
      <4>3. k \in 1 .. m /\ k <= n
        BY <1>1, <2>2
      <4> QED BY <2>4, <4>2, <4>3
    <3>2. CASE ~(i <= n)
      BY <2>4, <3>2
    <3> QED BY <3>1, <3>2
  <2>8. \A j, k \in 1 .. m : p[j] = p[k] => j = k
    <3> SUFFICES ASSUME NEW j \in 1 .. m, NEW k \in 1 .. m, p[j] = p[k] PROVE j = k
      BY Zenon
    <3>1. CASE j <= n /\ k <= n
      BY <2>3, <2>4, <3>1
    <3>2. CASE ~(j <= n) /\ ~(k <= n)
      BY <2>4, <3>2
    <3>3. CASE j <= n /\ ~(k <= n)
      <4>1. p[j] \in 1 .. n /\ p[k] = k
        BY <2>4, <3>3
      <4> QED BY <1>1, <2>2, <3>3, <4>1
    <3>4. CASE ~(j <= n) /\ k <= n
      <4>1. p[k] \in 1 .. n /\ p[j] = j
        BY <2>4, <3>4
      <4> QED BY <1>1, <2>2, <3>4, <4>1
    <3> QED BY <3>1, <3>2, <3>3, <3>4
  <2>9. Permutes(p, t, ranked)
    BY <2>5, <2>6, <2>7, <2>8 DEF Permutes, m
  <2>10. t \in Seq(Ranked) /\ Len(t) = m
    <3>1. DOMAIN t = 1 .. m
      BY <1>1, <2>1
    <3>2. \A k \in 1 .. m : t[k] \in Ranked
      BY <1>1, <2>5, <2>6
    <3>3. t = [k \in 1 .. m |-> t[k]]
      BY <2>1, <1>1
    <3>4. t \in [1 .. m -> Ranked]
      BY <3>2, <3>3
    <3> QED BY <1>1, <3>4, FunctionIsSeq
  <2> QED BY <2>9, <2>10 DEF Reordered, m
<1> QED BY <1>2, <1>3

LEMMA ReorderedFromHits ==
  ASSUME NEW s, NEW hits, FromHits(s, hits), NEW t, Reordered(t, s)
  PROVE  FromHits(t, hits)
<1>1. PICK p : Permutes(p, t, s)
  BY DEF Reordered
<1>2. DOMAIN t = 1 .. Len(s) /\ DOMAIN s = 1 .. Len(s) /\ t \in Seq(Ranked)
  BY DEF Reordered, FromHits
<1>3. /\ \A k \in DOMAIN t : p[k] \in DOMAIN s /\ t[k] = s[p[k]]
      /\ \A j, k \in DOMAIN t : p[j] = p[k] => j = k
  BY <1>1, <1>2 DEF Permutes
<1>4. ASSUME NEW k \in DOMAIN t
      PROVE  \E h \in ToSet(hits) : h.point = t[k].point /\ Source(h.point) = t[k].source
  <2>1. p[k] \in DOMAIN s /\ t[k] = s[p[k]]
    BY <1>3, Zenon
  <2>2. \E h \in ToSet(hits) : h.point = s[p[k]].point /\ Source(h.point) = s[p[k]].source
    BY <2>1, Zenon DEF FromHits
  <2> QED BY <2>1, <2>2
<1>5. ASSUME NEW j \in DOMAIN t, NEW k \in DOMAIN t, t[j].source = t[k].source
      PROVE  j = k
  <2>1. p[j] \in DOMAIN s /\ t[j] = s[p[j]] /\ p[k] \in DOMAIN s /\ t[k] = s[p[k]]
    BY <1>3, Zenon
  <2>2. s[p[j]].source = s[p[k]].source
    BY <1>5, <2>1
  <2>3. p[j] = p[k]
    BY <2>1, <2>2, Zenon DEF FromHits
  <2> QED BY <1>3, <2>3, Zenon
<1> QED BY <1>2, <1>4, <1>5, Zenon DEF FromHits

LEMMA LimitedFromHits ==
  ASSUME NEW s, NEW hits, FromHits(s, hits), NEW n \in Nat
  PROVE  FromHits(Limited(s, n), hits) /\ (InTime(s) => InTime(Limited(s, n)))
<1> DEFINE t == Limited(s, n)
<1>1. s \in Seq(Ranked)
  BY DEF FromHits
<1>2. t \in Seq(Ranked) /\ \A k \in 1 .. Len(t) : k \in 1 .. Len(s) /\ t[k] = s[k]
  BY <1>1, LimitedIs
<1> HIDE DEF t
<1>3. DOMAIN t = 1 .. Len(t) /\ DOMAIN s = 1 .. Len(s)
  BY <1>1, <1>2
<1>4. \A k \in DOMAIN t : k \in DOMAIN s /\ t[k] = s[k]
  BY <1>2, <1>3
<1>5. FromHits(t, hits)
  BY <1>2, <1>4 DEF FromHits
<1>6. InTime(s) => InTime(t)
  BY <1>4, Zenon DEF InTime
<1> QED BY <1>5, <1>6 DEF t

-------------------------------------------------------------------------------
(* The inductive invariant *)

\* Types, and what the phases leave to each other: hits of surfaces, and ranked hits
\* that are among them.
Shape ==
  /\ TypeOK
  /\ raw \in Seq(RawHit) /\ FromHits(ranked, raw)
  /\ pc = "probe" => raw = <<>>
  /\ pc \in {"probe", "select", "search"} => ranked = <<>>

\* What may be found out of the range of the query.
RangeOrTree(hits) ==
  \A h \in ToSet(hits) :
     \/ InRange(h.point)
     \/ \E g \in ToSet(hits) : /\ Catalogue[g.point].surface = Tree
                               /\ \/ g.point = h.point
                                  \/ Source(h.point) \in ToSet(Catalogue[g.point].neighbors)

RawInRange == RangeOrTree(raw)

RawInIndex == calm => \A h \in ToSet(raw) : h.point \in index

Budget ==
  LET planned == (IF SeedPlanned THEN {RerankLimit(TRUE, SeedLimit)} ELSE {})
                   \cup (IF FinalPlanned THEN {RerankLimit(TRUE, FinalLimit)} ELSE {})
  IN  Min({query.limit} \cup planned)

Enough(r, hits) == Len(r) >= Budget \/ Len(r) >= Cardinality(FoundIn(hits))

\* At each phase there are as many records as the answers need.
EnoughRanked ==
  /\ pc \in {"seed", "cone", "final", "load", "compose", "done"} => Enough(ranked, raw)
  /\ pc \in {"load", "compose", "done"} => Len(ranked) <= query.limit

OrderKept ==
  /\ pc = "seed" => InTime(ranked)
  /\ pc \in {"cone", "final", "load", "compose", "done"} /\ ~reranked => InTime(ranked)
  /\ pc \in {"compose", "done"} => DOMAIN answers = DOMAIN ranked

IInv ==
  /\ Shape /\ RawInRange /\ RawInIndex /\ EnoughRanked /\ OrderKept
  /\ DominantFirst /\ AnswersArePrimary

LEMMA BudgetIs ==
  ASSUME Planned
  PROVE  /\ Budget \in Nat /\ Budget <= query.limit /\ Budget <= InitialLimit
         /\ Budget <= IF FinalPlanned THEN RerankLimit(TRUE, FinalLimit) ELSE query.limit
<1> DEFINE l == query.limit
           a == RerankLimit(TRUE, SeedLimit)
           b == RerankLimit(TRUE, FinalLimit)
           S == {l} \cup ((IF SeedPlanned THEN {a} ELSE {}) \cup (IF FinalPlanned THEN {b} ELSE {}))
<1>1. l \in Nat /\ a \in Nat /\ b \in Nat
  <2>1. TRUE \in BOOLEAN
    OBVIOUS
  <2> QED BY <2>1, LimitsTyped
<1>2. Budget = Min(S)
  BY DEF Budget
<1>3. InitialLimit = IF SeedPlanned THEN a ELSE IF FinalPlanned THEN b ELSE l
  BY DEF InitialLimit
<1> HIDE DEF l, a, b
<1>4. S \in SUBSET {l, a, b} /\ l \in S /\ (SeedPlanned => a \in S) /\ (FinalPlanned => b \in S)
  OBVIOUS
<1> HIDE DEF S
<1>5. IsFiniteSet({l, a, b})
  <2>1. IsFiniteSet({l}) /\ IsFiniteSet({a}) /\ IsFiniteSet({b})
    BY FS_Singleton
  <2>2. IsFiniteSet({l} \cup ({a} \cup {b}))
    BY <2>1, FS_Union
  <2>3. {l, a, b} = {l} \cup ({a} \cup {b})
    OBVIOUS
  <2> QED BY <2>2, <2>3
<1>6. IsFiniteSet(S) /\ S \in SUBSET Nat /\ S # {}
  BY <1>1, <1>4, <1>5, FS_Subset
<1>7. Min(S) \in S /\ \A x \in S : Min(S) <= x
  <2>1. S \in SUBSET Int
    BY <1>6
  <2> QED BY <1>6, <2>1, Extremes
<1>8. Budget \in Nat /\ \A x \in S : Budget <= x
  BY <1>2, <1>6, <1>7
<1>9. Budget <= l /\ (SeedPlanned => Budget <= a) /\ (FinalPlanned => Budget <= b)
  BY <1>4, <1>8
<1>10. Budget <= InitialLimit
  BY <1>3, <1>9
<1>11. Budget <= IF FinalPlanned THEN b ELSE l
  BY <1>9
<1> QED BY <1>8, <1>9, <1>10, <1>11 DEF l, b

LEMMA ShapePlans ==
  ASSUME Shape
  PROVE  /\ Planned /\ index \subseteq Point /\ raw \in Seq(RawHit) /\ ranked \in Seq(Ranked)
         /\ starting \in Seq(Uri)
BY DEF Shape, TypeOK, Planned

\* Two sequences of hits, one behind the other.
LEMMA JoinedHits ==
  ASSUME NEW X, NEW s \in Seq(X), NEW t \in Seq(X)
  PROVE  s \o t \in Seq(X) /\ ToSet(s \o t) = ToSet(s) \cup ToSet(t)
<1>1. /\ s \o t \in Seq(X) /\ Len(s \o t) = Len(s) + Len(t)
      /\ \A k \in 1 .. Len(s) + Len(t) : (s \o t)[k] = IF k <= Len(s) THEN s[k] ELSE t[k - Len(s)]
  OBVIOUS
<1>2. DOMAIN (s \o t) = 1 .. Len(s) + Len(t) /\ DOMAIN s = 1 .. Len(s) /\ DOMAIN t = 1 .. Len(t)
  BY <1>1
<1> DEFINE m == Len(s)
           n == Len(t)
           w == s \o t
<1>3. m \in Nat /\ n \in Nat
  OBVIOUS
<1>4. ToSet(w) = {w[k] : k \in 1 .. m + n} /\ ToSet(s) = {s[k] : k \in 1 .. m} /\ ToSet(t) = {t[k] : k \in 1 .. n}
  BY <1>2 DEF ToSet
<1>5. \A k \in 1 .. m + n : w[k] = IF k <= m THEN s[k] ELSE t[k - m]
  BY <1>1
<1> HIDE DEF m, n, w
<1>6. ASSUME NEW x \in ToSet(w) PROVE x \in ToSet(s) \cup ToSet(t)
  <2>1. PICK k \in 1 .. m + n : x = w[k]
    BY <1>4
  <2>2. CASE k <= m
    <3>1. k \in 1 .. m /\ x = s[k]
      BY <1>3, <1>5, <2>1, <2>2
    <3> QED BY <1>4, <3>1
  <2>3. CASE ~(k <= m)
    <3>1. k - m \in 1 .. n /\ x = t[k - m]
      BY <1>3, <1>5, <2>1, <2>3
    <3> QED BY <1>4, <3>1
  <2> QED BY <2>2, <2>3
<1>7. ASSUME NEW x \in ToSet(s) PROVE x \in ToSet(w)
  <2>1. PICK k \in 1 .. m : x = s[k]
    BY <1>4
  <2>2. k \in 1 .. m + n /\ k <= m
    BY <1>3
  <2>3. x = w[k]
    BY <1>5, <2>1, <2>2
  <2> QED BY <1>4, <2>2, <2>3
<1>8. ASSUME NEW x \in ToSet(t) PROVE x \in ToSet(w)
  <2>1. PICK k \in 1 .. n : x = t[k]
    BY <1>4
  <2>2. k + m \in 1 .. m + n /\ ~(k + m <= m) /\ (k + m) - m = k
    BY <1>3
  <2>3. x = w[k + m]
    BY <1>5, <2>1, <2>2
  <2> QED BY <1>4, <2>2, <2>3
<1>9. ToSet(w) = ToSet(s) \cup ToSet(t)
  BY <1>6, <1>7, <1>8
<1> QED BY <1>1, <1>9 DEF w

\* The searches find points of the collection in the range of the query, and all is ranked.
SearchDoes ==
  /\ raw' \in Seq(RawHit) /\ ToSet(raw) \subseteq ToSet(raw')
  /\ \A h \in ToSet(raw') : h \in ToSet(raw) \/ (h.point \in index /\ InRange(h.point))
  /\ RankFacts(ranked', raw', InitialLimit)

LEMMA SearchStep ==
  ASSUME Shape, Search
  PROVE  SearchDoes
<1>1. Planned /\ index \subseteq Point /\ raw \in Seq(RawHit)
  BY ShapePlans
<1>2. PICK late \in Late : raw' = Executed(late) \o raw
  BY DEF Search
<1> DEFINE found == Executed(late)
<1>3. found \in Seq(HitsAt(Eligible))
  BY <1>1, ExecutedTyped
<1>4. raw' = found \o raw
  BY <1>2
<1> HIDE DEF found
<1>5. HitsAt(Eligible) \subseteq RawHit
  BY <1>1 DEF HitsAt, RawHit, Eligible, Surfaced
<1>6. found \in Seq(RawHit)
  BY <1>3, <1>5
<1>7. raw' \in Seq(RawHit) /\ ToSet(raw') = ToSet(found) \cup ToSet(raw)
  BY <1>1, <1>4, <1>6, JoinedHits
<1>8. ToSet(found) \in SUBSET HitsAt(Eligible)
  BY <1>3, ElementsFinite
<1>9. \A h \in ToSet(found) : h.point \in index /\ InRange(h.point)
  BY <1>8 DEF HitsAt, Eligible
<1>10. ranked' = Rank(raw', InitialLimit)
  BY DEF Search
<1>11. InitialLimit \in Nat
  BY <1>1, LimitsTyped
<1>12. RankFacts(Rank(raw', InitialLimit), raw', InitialLimit)
  BY <1>1, <1>7, <1>11, RankIs
<1> QED BY <1>7, <1>9, <1>10, <1>12 DEF SearchDoes

\* The cone ranks anew what it found, or finds nothing.
ExpandDoes ==
  /\ raw' \in Seq(RawHit) /\ ToSet(raw) \subseteq ToSet(raw')
  /\ \A h \in ToSet(raw') : h \in ToSet(raw) \/ h.point \in ConePoints
  /\ \/ raw' = raw /\ ranked' = ranked /\ reranked' = reranked
     \/ RankFacts(ranked', raw', IF FinalPlanned THEN RerankLimit(TRUE, FinalLimit) ELSE query.limit)

LEMMA ExpandStep ==
  ASSUME Shape, Expand
  PROVE  ExpandDoes
<1>1. Planned /\ index \subseteq Point /\ raw \in Seq(RawHit)
  BY ShapePlans
<1> DEFINE new  == Ascending(ConePoints)
           cone == [k \in DOMAIN new |-> [point |-> new[k], score |-> ConeBonus]]
           limit == IF FinalPlanned THEN RerankLimit(TRUE, FinalLimit) ELSE query.limit
<1>2. /\ raw' = raw \o cone
      /\ IF new = <<>> THEN ranked' = ranked /\ reranked' = reranked
         ELSE ranked' = Rank(raw \o cone, limit)
  BY DEF Expand
<1>3. ConePoints \in SUBSET Point /\ \A i \in ConePoints : Catalogue[i].surface = Object
  BY <1>1 DEF ConePoints, Visible
<1>4. new \in Seq(ConePoints)
  BY <1>3, SomePoints
<1>5. limit \in Nat
  <2>1. TRUE \in BOOLEAN
    OBVIOUS
  <2> QED BY <1>1, <2>1, LimitsTyped
<1> HIDE DEF new, limit
<1>6. cone \in Seq(HitsAt(ConePoints))
  <2>1. DOMAIN new = 1 .. Len(new) /\ Len(new) \in Nat /\ \A k \in DOMAIN new : new[k] \in ConePoints
    BY <1>4
  <2>2. cone \in [1 .. Len(new) -> HitsAt(ConePoints)]
    BY <2>1 DEF HitsAt, ConeBonus
  <2> HIDE DEF cone
  <2> QED BY <2>1, <2>2, FunctionIsSeq
<1>7. new = <<>> => cone = <<>>
  OBVIOUS
<1> HIDE DEF cone
<1>8. HitsAt(ConePoints) \subseteq RawHit
  BY <1>3, SurfaceNames DEF HitsAt, RawHit, Surfaced
<1>9. cone \in Seq(RawHit)
  BY <1>6, <1>8
<1>10. raw' \in Seq(RawHit) /\ ToSet(raw') = ToSet(raw) \cup ToSet(cone)
  BY <1>1, <1>2, <1>9, JoinedHits
<1>11. ToSet(cone) \in SUBSET HitsAt(ConePoints)
  BY <1>6, ElementsFinite
<1>12. \A h \in ToSet(cone) : h.point \in ConePoints
  BY <1>11 DEF HitsAt
<1>13. \/ raw' = raw /\ ranked' = ranked /\ reranked' = reranked
       \/ RankFacts(ranked', raw', limit)
  <2>1. CASE new = <<>>
    <3>1. raw' = raw
      BY <1>1, <1>2, <1>7, <2>1
    <3> QED BY <1>2, <2>1, <3>1
  <2>2. CASE new # <<>>
    <3>1. ranked' = Rank(raw', limit)
      BY <1>2, <2>2
    <3>2. RankFacts(Rank(raw', limit), raw', limit)
      BY <1>1, <1>5, <1>10, RankIs
    <3> QED BY <3>1, <3>2
  <2> QED BY <2>1, <2>2
<1> QED BY <1>10, <1>12, <1>13 DEF ExpandDoes, limit

LEMMA SeedRerankStep ==
  ASSUME Shape, SeedRerank
  PROVE  Reordered(ranked', ranked)
<1>1. Planned /\ ranked \in Seq(Ranked)
  BY ShapePlans
<1>2. RerankLimit(SeedPlanned, SeedLimit) \in Nat /\ SeedPlanned \in BOOLEAN
  <2>1. SeedPlanned \in BOOLEAN
    BY DEF SeedPlanned, SeedRerankPlanned, MultiQuery
  <2> QED BY <1>1, <2>1, LimitsTyped
<1>3. ranked' \in Reorderings(SeedPlanned, RerankLimit(SeedPlanned, SeedLimit))
  BY DEF SeedRerank
<1> QED BY <1>1, <1>2, <1>3, ReorderingsPermute

FinalRerankDoes ==
  \E order : /\ Reordered(order, ranked) /\ ranked' = Limited(order, query.limit)
             /\ ~reranked' => ~reranked /\ order = ranked

LEMMA FinalRerankStep ==
  ASSUME Shape, FinalRerank
  PROVE  FinalRerankDoes
<1>1. Planned /\ ranked \in Seq(Ranked)
  BY ShapePlans
<1>2. RerankLimit(FinalPlanned, FinalLimit) \in Nat /\ FinalPlanned \in BOOLEAN
  <2>1. FinalPlanned \in BOOLEAN
    BY DEF FinalPlanned, FinalRerankPlanned, SeedRerankPlanned, MultiQuery
  <2> QED BY <1>1, <2>1, LimitsTyped
<1>3. PICK order \in Reorderings(FinalPlanned, RerankLimit(FinalPlanned, FinalLimit)) :
              /\ ranked' = Limited(order, query.limit)
              /\ reranked' = (reranked \/ order # ranked)
  BY DEF FinalRerank
<1>4. Reordered(order, ranked)
  BY <1>1, <1>2, ReorderingsPermute
<1>5. ~reranked' => ~reranked /\ order = ranked
  BY <1>3, Zenon
<1> QED BY <1>3, <1>4, <1>5 DEF FinalRerankDoes

LEMMA NothingFound ==
  /\ EvidenceOf(<<>>, <<>>) \in Evidence
  /\ <<>> \in Seq(Uri) /\ IsInjective(<<>>) /\ <<>> \in Seq(Hit) /\ <<>> \in Seq(RawHit)
  /\ \A hits : FromHits(<<>>, hits)
<1>1. <<>> \in Seq(Hit)
  OBVIOUS
<1>2. EvidenceOf(<<>>, <<>>) \in Evidence
  BY <1>1, EvidenceTyped
<1>3. IsInjective(<<>>)
  BY DEF IsInjective
<1>4. \A hits : FromHits(<<>>, hits)
  BY DEF FromHits
<1> QED BY <1>1, <1>2, <1>3, <1>4

\* A change leaves everything of the recall as it is.
ChangeDoes ==
  /\ pc \in Running /\ index' \subseteq Point /\ changes' \in 0 .. MaxChanges
  /\ calm' \in BOOLEAN /\ (calm' => calm /\ pc = "probe")
  /\ UNCHANGED <<query, pc, evidence, starting, raw, ranked, answers, composed, reranked>>

LEMMA ChangeStep ==
  ASSUME Shape, NEW u \in Primary, Store(u) \/ Derive(u) \/ Project(u) \/ Forget(u)
  PROVE  ChangeDoes
<1>1. index \subseteq Point /\ changes \in 0 .. MaxChanges /\ calm \in BOOLEAN
  BY DEF Shape, TypeOK
<1>2. ASSUME NEW new \in SUBSET Point, Change(new) PROVE ChangeDoes
  <2>1. /\ pc \in Running /\ index' = new /\ changes < MaxChanges /\ changes' = changes + 1
        /\ UNCHANGED <<query, pc, evidence, starting, raw, ranked, answers, composed, reranked>>
    BY <1>2 DEF Change
  <2>2. changes' \in 0 .. MaxChanges
    <3>1. MaxChanges \in Nat
      BY RecallAssumption
    <3> QED BY <1>1, <2>1, <3>1
  <2>3. calm' \in BOOLEAN /\ (calm' => calm /\ pc = "probe")
    <3>1. calm' = (calm /\ pc = "probe")
      BY <1>2 DEF Change
    <3> QED BY <3>1, Zenon
  <2> QED BY <2>1, <2>2, <2>3 DEF ChangeDoes
<1>3. PrimaryOf(u) \subseteq Point /\ ProjectionsOf(u) \subseteq Point
  BY DEF PrimaryOf, ProjectionsOf
<1>4. CASE Store(u)
  BY <1>1, <1>2, <1>4 DEF Store
<1>5. CASE Derive(u)
  BY <1>1, <1>2, <1>3, <1>5 DEF Derive
<1>6. CASE Project(u)
  BY <1>1, <1>2, <1>3, <1>6 DEF Project
<1>7. CASE Forget(u)
  BY <1>1, <1>2, <1>7 DEF Forget
<1> QED BY <1>4, <1>5, <1>6, <1>7

LEMMA ShapeInit ==
  ASSUME Init
  PROVE  Shape
<1>1. index \subseteq Point
  <2>1. PICK ready \in SUBSET Primary, projected \in SUBSET Primary :
          index = UNION ({PrimaryOf(u) : u \in ready} \cup {ProjectionsOf(u) : u \in projected})
    BY DEF Init
  <2>2. \A u : PrimaryOf(u) \subseteq Point /\ ProjectionsOf(u) \subseteq Point
    BY DEF PrimaryOf, ProjectionsOf
  <2> QED BY <2>1, <2>2
<1>2. 0 \in 0 .. MaxChanges
  BY RecallAssumption
<1>3. /\ query \in Queries /\ pc = "probe" /\ evidence = EvidenceOf(<<>>, <<>>)
      /\ starting = <<>> /\ raw = <<>> /\ ranked = <<>> /\ answers = <<>>
      /\ composed = FALSE /\ changes = 0 /\ calm = TRUE /\ reranked = FALSE
  BY DEF Init
<1>4. answers \in Seq([source : Primary, point : Point]) /\ ranked \in Seq(Ranked)
  BY <1>3
<1>5. TypeOK
  BY <1>1, <1>2, <1>3, <1>4, NothingFound DEF TypeOK, Running
<1> QED BY <1>3, <1>5, NothingFound DEF Shape

LEMMA ShapeStep ==
  ASSUME Shape, [Next]_vars
  PROVE  Shape'
<1> USE DEF Shape
<1>0. /\ TypeOK /\ Planned /\ index \subseteq Point /\ raw \in Seq(RawHit) /\ ranked \in Seq(Ranked)
      /\ starting \in Seq(Uri) /\ FromHits(ranked, raw)
  BY ShapePlans
<1>h. ASSUME NEW s \in Seq(RawHit) PROVE s \in Seq(Hit)
  <2>1. RawHit \subseteq Hit
    BY DEF RawHit, HitsAt, Hit, Surfaced
  <2> QED BY <2>1
<1>1. CASE Probe
  <2>1. evidence' \in Evidence /\ starting' \in Seq(Uri) /\ IsInjective(starting')
    BY <1>0, <1>1, ProbeTyped
  <2>2. /\ pc = "probe" /\ pc' = "select"
        /\ UNCHANGED <<index, query, raw, ranked, answers, composed, changes, calm, reranked>>
    BY <1>1 DEF Probe
  <2>3. TypeOK'
    BY <1>0, <2>1, <2>2 DEF TypeOK, Running
  <2>4. FromHits(ranked, raw)'
    BY <1>0, <2>2 DEF FromHits
  <2> QED BY <1>0, <2>2, <2>3, <2>4
<1>2. CASE Select
  <2>1. starting' \in Seq(Uri) /\ IsInjective(starting') /\ raw' \in Seq(RawHit)
    BY <1>0, <1>2, SelectTyped
  <2>2. /\ pc = "select" /\ pc' = "search"
        /\ UNCHANGED <<index, query, evidence, ranked, answers, composed, changes, calm, reranked>>
    BY <1>2 DEF Select
  <2>3. raw' \in Seq(Hit)
    BY <1>h, <2>1
  <2>4. TypeOK'
    BY <1>0, <2>1, <2>2, <2>3 DEF TypeOK, Running
  <2>5. ranked' = <<>>
    BY <2>2
  <2>6. FromHits(ranked, raw)'
    BY <2>5, NothingFound DEF FromHits
  <2> QED BY <2>1, <2>2, <2>4, <2>5, <2>6
<1>3. CASE Search
  <2>1. raw' \in Seq(RawHit) /\ FromHits(ranked', raw')
    BY <1>3, SearchStep DEF SearchDoes, RankFacts
  <2>2. /\ pc' = "seed"
        /\ UNCHANGED <<index, query, evidence, starting, answers, composed, changes, calm, reranked>>
    BY <1>3 DEF Search
  <2>3. raw' \in Seq(Hit) /\ ranked' \in Seq(Ranked)
    BY <1>h, <2>1 DEF FromHits
  <2>4. TypeOK'
    BY <1>0, <2>2, <2>3 DEF TypeOK, Running
  <2>5. FromHits(ranked, raw)'
    BY <2>1 DEF FromHits
  <2> QED BY <2>1, <2>2, <2>4, <2>5
<1>4. CASE SeedRerank
  <2>1. Reordered(ranked', ranked)
    BY <1>4, SeedRerankStep
  <2>2. FromHits(ranked', raw)
    BY <1>0, <2>1, ReorderedFromHits
  <2>3. /\ pc' = "cone"
        /\ UNCHANGED <<index, query, evidence, starting, raw, answers, composed, changes, calm>>
    BY <1>4 DEF SeedRerank
  <2>4. reranked' \in BOOLEAN
    <3>1. reranked' = (ranked' # ranked)
      BY <1>4 DEF SeedRerank
    <3> QED BY <3>1, Zenon
  <2>5. ranked' \in Seq(Ranked)
    BY <2>2 DEF FromHits
  <2>6. TypeOK'
    BY <1>0, <2>3, <2>4, <2>5 DEF TypeOK, Running
  <2>7. FromHits(ranked, raw)'
    BY <2>2, <2>3 DEF FromHits
  <2> QED BY <1>0, <2>3, <2>6, <2>7
<1>5. CASE Expand
  <2>1. raw' \in Seq(RawHit) /\ FromHits(ranked', raw')
    BY <1>0, <1>5, ExpandStep DEF ExpandDoes, RankFacts
  <2>2. /\ pc' = "final"
        /\ UNCHANGED <<index, query, evidence, starting, answers, composed, changes, calm>>
    BY <1>5 DEF Expand
  <2>3. reranked' \in BOOLEAN
    <3>1. reranked' = reranked \/ reranked' = FALSE
      BY <1>5 DEF Expand
    <3> QED BY <1>0, <3>1, Zenon DEF TypeOK
  <2>4. raw' \in Seq(Hit) /\ ranked' \in Seq(Ranked)
    BY <1>h, <2>1 DEF FromHits
  <2>5. TypeOK'
    BY <1>0, <2>2, <2>3, <2>4 DEF TypeOK, Running
  <2>6. FromHits(ranked, raw)'
    BY <2>1 DEF FromHits
  <2> QED BY <2>1, <2>2, <2>5, <2>6
<1>6. CASE FinalRerank
  <2>1. PICK order : Reordered(order, ranked) /\ ranked' = Limited(order, query.limit)
    BY <1>6, FinalRerankStep DEF FinalRerankDoes
  <2>2. FromHits(order, raw)
    BY <1>0, <2>1, ReorderedFromHits
  <2>3. FromHits(ranked', raw)
    BY <1>0, <2>1, <2>2, LimitsTyped, LimitedFromHits
  <2>4. /\ pc' = "load"
        /\ UNCHANGED <<index, query, evidence, starting, raw, answers, composed, changes, calm>>
    BY <1>6 DEF FinalRerank
  <2>5. reranked' \in BOOLEAN
    <3>1. PICK o : reranked' = (reranked \/ o # ranked)
      BY <1>6 DEF FinalRerank
    <3> QED BY <3>1, Zenon
  <2>6. ranked' \in Seq(Ranked)
    BY <2>3 DEF FromHits
  <2>7. TypeOK'
    BY <1>0, <2>4, <2>5, <2>6 DEF TypeOK, Running
  <2>8. FromHits(ranked, raw)'
    BY <2>3, <2>4 DEF FromHits
  <2> QED BY <1>0, <2>4, <2>7, <2>8
<1>7. CASE Load
  <2>1. /\ answers' = [k \in DOMAIN ranked |-> Answer(ranked[k])] /\ pc' = "compose"
        /\ UNCHANGED <<index, query, evidence, starting, raw, ranked, composed, changes, calm, reranked>>
    BY <1>7 DEF Load
  <2>2. ASSUME NEW k \in DOMAIN ranked PROVE Answer(ranked[k]) \in [source : Primary, point : Point]
    <3>1. ranked[k].source \in Primary /\ ranked[k].point \in Point
      <4>1. ranked[k] \in Ranked
        BY <1>0
      <4> QED BY <4>1 DEF Ranked
    <3>2. PrimaryAt(ranked[k].source) \subseteq Point
      BY <1>0 DEF PrimaryAt
    <3> QED BY <3>1, <3>2 DEF Answer
  <2>3. answers' \in Seq([source : Primary, point : Point])
    <3>1. DOMAIN ranked = 1 .. Len(ranked) /\ Len(ranked) \in Nat
      BY <1>0
    <3>2. answers' \in [1 .. Len(ranked) -> [source : Primary, point : Point]]
      BY <2>1, <2>2, <3>1
    <3> QED BY <3>1, <3>2, FunctionIsSeq
  <2>4. TypeOK'
    BY <1>0, <2>1, <2>3 DEF TypeOK, Running
  <2>5. FromHits(ranked, raw)'
    BY <1>0, <2>1 DEF FromHits
  <2> QED BY <1>0, <2>1, <2>4, <2>5
<1>8. CASE Compose
  <2>1. /\ pc' = "done"
        /\ UNCHANGED <<index, query, evidence, starting, raw, ranked, answers, changes, calm, reranked>>
    BY <1>8 DEF Compose
  <2>2. composed' \in BOOLEAN
    BY <1>8 DEF Compose
  <2>3. TypeOK'
    BY <1>0, <2>1, <2>2 DEF TypeOK, Running
  <2>4. FromHits(ranked, raw)'
    BY <1>0, <2>1 DEF FromHits
  <2> QED BY <1>0, <2>1, <2>3, <2>4
<1>9. CASE Fail
  <2>1. /\ pc' = "failed" /\ evidence' = EvidenceOf(<<>>, <<>>)
        /\ starting' = <<>> /\ raw' = <<>> /\ ranked' = <<>> /\ answers' = <<>>
        /\ UNCHANGED <<index, query, composed, changes, calm, reranked>>
    BY <1>9 DEF Fail
  <2>2. answers' \in Seq([source : Primary, point : Point]) /\ ranked' \in Seq(Ranked)
    BY <2>1
  <2>3. /\ evidence' \in Evidence /\ starting' \in Seq(Uri) /\ IsInjective(starting')
        /\ raw' \in Seq(Hit) /\ raw' \in Seq(RawHit)
    BY <2>1, NothingFound
  <2>4. TypeOK'
    BY <1>0, <2>1, <2>2, <2>3 DEF TypeOK, Running
  <2>5. FromHits(ranked, raw)'
    BY <2>1, NothingFound DEF FromHits
  <2> QED BY <2>1, <2>3, <2>4, <2>5
<1>10. CASE \E u \in Primary : Store(u) \/ Derive(u) \/ Project(u) \/ Forget(u)
  <2>1. ChangeDoes
    BY <1>10, ChangeStep
  <2>2. TypeOK'
    BY <1>0, <2>1 DEF TypeOK, ChangeDoes
  <2>3. FromHits(ranked, raw)'
    BY <1>0, <2>1 DEF FromHits, ChangeDoes
  <2> QED BY <1>0, <2>1, <2>2, <2>3 DEF ChangeDoes
<1>11. CASE UNCHANGED vars
  <2>1. TypeOK'
    BY <1>0, <1>11 DEF TypeOK, vars
  <2>2. FromHits(ranked, raw)'
    BY <1>0, <1>11 DEF FromHits, vars
  <2> QED BY <1>0, <1>11, <2>1, <2>2 DEF vars
<1> QED BY <1>1, <1>2, <1>3, <1>4, <1>5, <1>6, <1>7, <1>8, <1>9, <1>10, <1>11 DEF Next, RecallStep

LEMMA QueryFixed ==
  ASSUME Shape, [Next]_vars
  PROVE  query' = query
<1>1. CASE Next
  <2>1. CASE RecallStep
    BY <2>1 DEF RecallStep, Probe, Select, Search, SeedRerank, Expand, FinalRerank, Load, Compose
  <2>2. CASE Fail
    BY <2>2 DEF Fail
  <2>3. CASE \E u \in Primary : Store(u) \/ Derive(u) \/ Project(u) \/ Forget(u)
    BY <2>3, ChangeStep DEF ChangeDoes
  <2> QED BY <1>1, <2>1, <2>2, <2>3 DEF Next
<1>2. CASE UNCHANGED vars
  BY <1>2 DEF vars
<1> QED BY <1>1, <1>2

\* The steps that leave the hits, those that were ranked and the collection as they are.
Quiet == raw' = raw /\ calm' = calm /\ index' = index

LEMMA QuietSteps ==
  ASSUME Probe \/ SeedRerank \/ FinalRerank \/ Load \/ Compose \/ UNCHANGED vars
  PROVE  Quiet
BY DEF Quiet, Probe, SeedRerank, FinalRerank, Load, Compose, vars

LEMMA RawInRangeStep ==
  ASSUME Shape, RawInRange, [Next]_vars
  PROVE  RawInRange'
<1>0. /\ Planned /\ index \subseteq Point /\ raw \in Seq(RawHit) /\ ranked \in Seq(Ranked)
      /\ starting \in Seq(Uri) /\ FromHits(ranked, raw)
  BY ShapePlans DEF Shape
<1>1. CASE raw' = raw
  <2>1. RangeOrTree(raw')
    BY <1>1 DEF RawInRange
  <2> QED BY <1>1, QueryFixed DEF RawInRange, RangeOrTree, InRange
<1> SUFFICES ASSUME raw' # raw PROVE RangeOrTree(raw')
  BY <1>1, QueryFixed, Zenon DEF RawInRange, RangeOrTree, InRange
<1>2. CASE Select
  <2>1. \A h \in ToSet(raw') : Catalogue[h.point].surface = Tree
    BY <1>0, <1>2, SelectTyped
  <2> QED BY <2>1, Zenon DEF RangeOrTree
<1>3. CASE Search
  <2>1. /\ ToSet(raw) \subseteq ToSet(raw')
        /\ \A h \in ToSet(raw') : h \in ToSet(raw) \/ InRange(h.point)
    BY <1>3, SearchStep DEF SearchDoes
  <2> QED BY <2>1 DEF RawInRange, RangeOrTree
<1>4. CASE Expand
  <2>1. /\ ToSet(raw) \subseteq ToSet(raw')
        /\ \A h \in ToSet(raw') : h \in ToSet(raw) \/ h.point \in ConePoints
    BY <1>4, ExpandStep DEF ExpandDoes
  <2>2. ASSUME NEW i \in ConePoints
        PROVE  \E g \in ToSet(raw') : /\ Catalogue[g.point].surface = Tree
                                      /\ Source(i) \in ToSet(Catalogue[g.point].neighbors)
    <3>1. PICK k \in DOMAIN ranked : Catalogue[i].uri \in ToSet(Catalogue[ranked[k].point].neighbors)
      BY <1>0, ConePointsLinked
    <3>2. Source(i) = Catalogue[i].uri
      BY <1>0, ConePointsLinked DEF Source, IsPrimary
    <3>3. PICK g \in ToSet(raw) : g.point = ranked[k].point
      BY <1>0 DEF FromHits
    <3>4. g.point \in Point
      <4>1. ToSet(raw) \in SUBSET RawHit
        BY <1>0, ElementsFinite
      <4> QED BY <4>1 DEF RawHit, HitsAt, Surfaced
    <3>5. Catalogue[g.point].neighbors # <<>>
      <4>1. ToSet(<<>>) = {}
        BY DEF ToSet
      <4> QED BY <3>1, <3>3, <4>1
    <3>6. Catalogue[g.point].surface = Tree
      BY <3>4, <3>5, Catalogued
    <3> QED BY <2>1, <3>1, <3>2, <3>3, <3>6
  <2>3. ASSUME NEW h \in ToSet(raw')
        PROVE  \/ InRange(h.point)
               \/ \E g \in ToSet(raw') : /\ Catalogue[g.point].surface = Tree
                                         /\ \/ g.point = h.point
                                            \/ Source(h.point) \in ToSet(Catalogue[g.point].neighbors)
    <3>1. CASE h \in ToSet(raw)
      BY <2>1, <3>1 DEF RawInRange, RangeOrTree
    <3>2. CASE h.point \in ConePoints
      BY <2>2, <3>2
    <3> QED BY <2>1, <3>1, <3>2
  <2> QED BY <2>3, Zenon DEF RangeOrTree
<1>5. CASE Fail
  <2>1. ToSet(raw') = {}
    BY <1>5 DEF Fail, ToSet
  <2> QED BY <2>1 DEF RangeOrTree
<1>6. CASE \E u \in Primary : Store(u) \/ Derive(u) \/ Project(u) \/ Forget(u)
  BY <1>6, ChangeStep DEF ChangeDoes
<1> QED BY <1>2, <1>3, <1>4, <1>5, <1>6, QuietSteps DEF Next, RecallStep, Quiet

LEMMA RawInIndexStep ==
  ASSUME Shape, RawInIndex, [Next]_vars
  PROVE  RawInIndex'
<1>0. /\ Planned /\ index \subseteq Point /\ raw \in Seq(RawHit) /\ ranked \in Seq(Ranked)
      /\ starting \in Seq(Uri)
  BY ShapePlans
<1>1. CASE Quiet
  BY <1>1 DEF Quiet, RawInIndex
<1>2. CASE Select
  <2>1. \A h \in ToSet(raw') : h.point \in index
    BY <1>0, <1>2, SelectTyped
  <2>2. index' = index
    BY <1>2 DEF Select
  <2> QED BY <2>1, <2>2 DEF RawInIndex
<1>3. CASE Search
  <2>1. \A h \in ToSet(raw') : h \in ToSet(raw) \/ h.point \in index
    BY <1>3, SearchStep DEF SearchDoes
  <2>2. index' = index /\ calm' = calm
    BY <1>3 DEF Search
  <2> QED BY <2>1, <2>2 DEF RawInIndex
<1>4. CASE Expand
  <2>1. \A h \in ToSet(raw') : h \in ToSet(raw) \/ h.point \in ConePoints
    BY <1>4, ExpandStep DEF ExpandDoes
  <2>2. index' = index /\ calm' = calm
    BY <1>4 DEF Expand
  <2>3. ConePoints \subseteq index
    BY DEF ConePoints, Visible
  <2> QED BY <2>1, <2>2, <2>3 DEF RawInIndex
<1>5. CASE Fail
  <2>1. ToSet(raw') = {}
    BY <1>5 DEF Fail, ToSet
  <2> QED BY <2>1 DEF RawInIndex
<1>6. CASE \E u \in Primary : Store(u) \/ Derive(u) \/ Project(u) \/ Forget(u)
  <2>1. ChangeDoes
    BY <1>6, ChangeStep
  <2>2. SUFFICES ASSUME calm' PROVE \A h \in ToSet(raw') : h.point \in index'
    BY DEF RawInIndex
  <2>3. raw' = <<>>
    BY <2>1, <2>2 DEF ChangeDoes, Shape
  <2>4. ToSet(raw') = {}
    BY <2>3 DEF ToSet
  <2> QED BY <2>4
<1> QED BY <1>1, <1>2, <1>3, <1>4, <1>5, <1>6, QuietSteps DEF Next, RecallStep

LEMMA RankedEnough ==
  ASSUME Planned, NEW hits \in Seq(RawHit), NEW r, NEW limit \in Nat, RankFacts(r, hits, limit),
         Budget <= limit
  PROVE  Enough(r, hits)
<1>1. Cardinality(FoundIn(hits)) \in Nat
  BY SourcesAre
<1>2. Budget \in Nat
  BY BudgetIs
<1> DEFINE m == Cardinality(FoundIn(hits))
<1>3. Len(r) = IF limit <= m THEN limit ELSE m
  BY DEF RankFacts
<1> HIDE DEF m
<1>4. Len(r) >= Budget \/ Len(r) >= m
  BY <1>1, <1>2, <1>3 DEF m
<1> QED BY <1>4 DEF Enough, m

LEMMA EnoughRankedStep ==
  ASSUME Shape, EnoughRanked, [Next]_vars
  PROVE  EnoughRanked'
<1>0. /\ Planned /\ index \subseteq Point /\ raw \in Seq(RawHit) /\ ranked \in Seq(Ranked)
      /\ query.limit \in Nat
  BY ShapePlans, LimitsTyped
<1>1. ASSUME query' = query, evidence' = evidence, Enough(ranked', raw')
      PROVE  Enough(ranked, raw)'
  <2>1. Budget' = Budget
    BY <1>1 DEF Budget, SeedPlanned, FinalPlanned
  <2> QED BY <1>1, <2>1 DEF Enough, FoundIn
<1>2. CASE Probe
  BY <1>2 DEF Probe, EnoughRanked
<1>3. CASE Select
  BY <1>3 DEF Select, EnoughRanked
<1>4. CASE Search
  <2>1. query' = query /\ evidence' = evidence /\ pc' = "seed"
    BY <1>4 DEF Search
  <2>2. raw' \in Seq(RawHit) /\ RankFacts(ranked', raw', InitialLimit)
    BY <1>4, SearchStep DEF SearchDoes
  <2>3. InitialLimit \in Nat /\ Budget <= InitialLimit
    BY <1>0, LimitsTyped, BudgetIs
  <2>4. Enough(ranked', raw')
    BY <1>0, <2>2, <2>3, RankedEnough
  <2> QED BY <1>1, <2>1, <2>4 DEF EnoughRanked
<1>5. CASE SeedRerank
  <2>1. query' = query /\ evidence' = evidence /\ pc' = "cone" /\ pc = "seed" /\ raw' = raw
    BY <1>5 DEF SeedRerank
  <2>2. Len(ranked') = Len(ranked)
    BY <1>5, SeedRerankStep DEF Reordered
  <2>3. Enough(ranked', raw')
    BY <2>1, <2>2 DEF EnoughRanked, Enough
  <2> QED BY <1>1, <2>1, <2>3 DEF EnoughRanked
<1>6. CASE Expand
  <2>1. query' = query /\ evidence' = evidence /\ pc' = "final" /\ pc = "cone"
    BY <1>6 DEF Expand
  <2> DEFINE limit == IF FinalPlanned THEN RerankLimit(TRUE, FinalLimit) ELSE query.limit
  <2>2. /\ raw' \in Seq(RawHit)
        /\ \/ raw' = raw /\ ranked' = ranked
           \/ RankFacts(ranked', raw', limit)
    BY <1>6, ExpandStep DEF ExpandDoes
  <2>3. limit \in Nat /\ Budget <= limit
    <3>1. TRUE \in BOOLEAN
      OBVIOUS
    <3> QED BY <1>0, <3>1, LimitsTyped, BudgetIs
  <2> HIDE DEF limit
  <2>4. Enough(ranked', raw')
    <3>1. CASE raw' = raw /\ ranked' = ranked
      BY <2>1, <3>1 DEF EnoughRanked
    <3>2. CASE RankFacts(ranked', raw', limit)
      BY <1>0, <2>2, <2>3, <3>2, RankedEnough
    <3> QED BY <2>2, <3>1, <3>2
  <2> QED BY <1>1, <2>1, <2>4 DEF EnoughRanked
<1>7. CASE FinalRerank
  <2>1. query' = query /\ evidence' = evidence /\ pc' = "load" /\ pc = "final" /\ raw' = raw
    BY <1>7 DEF FinalRerank
  <2>2. PICK order : Reordered(order, ranked) /\ ranked' = Limited(order, query.limit)
    BY <1>7, FinalRerankStep DEF FinalRerankDoes
  <2>3. order \in Seq(Ranked) /\ Len(order) = Len(ranked)
    BY <2>2 DEF Reordered
  <2> DEFINE l == query.limit
             n == Len(ranked)
             c == Cardinality(FoundIn(raw))
  <2>4. Len(ranked') = IF l <= n THEN l ELSE n
    BY <1>0, <2>2, <2>3, LimitedIs
  <2>5. n >= Budget \/ n >= c
    BY <2>1 DEF EnoughRanked, Enough
  <2>6. Budget \in Nat /\ Budget <= l /\ l \in Nat /\ n \in Nat
    BY <1>0, BudgetIs
  <2> HIDE DEF l, n, c
  <2>7. (Len(ranked') >= Budget \/ Len(ranked') >= c) /\ Len(ranked') <= l
    BY <2>4, <2>5, <2>6
  <2>8. Enough(ranked', raw')
    BY <2>1, <2>7 DEF Enough, c
  <2> QED BY <1>1, <2>1, <2>7, <2>8 DEF EnoughRanked, l
<1>8. CASE Load \/ Compose
  <2>1. /\ query' = query /\ evidence' = evidence /\ pc' \in {"compose", "done"}
        /\ pc \in {"load", "compose"} /\ raw' = raw /\ ranked' = ranked
    BY <1>8 DEF Load, Compose
  <2>2. Enough(ranked', raw')
    BY <2>1 DEF EnoughRanked
  <2> QED BY <1>1, <2>1, <2>2 DEF EnoughRanked
<1>9. CASE Fail
  BY <1>9 DEF Fail, EnoughRanked
<1>10. CASE ChangeDoes \/ UNCHANGED vars
  <2>1. /\ query' = query /\ evidence' = evidence /\ pc' = pc
        /\ raw' = raw /\ ranked' = ranked
    BY <1>10 DEF ChangeDoes, vars
  <2>2. CASE pc \in {"seed", "cone", "final", "load", "compose", "done"}
    <3>1. Enough(ranked', raw')
      BY <2>1, <2>2 DEF EnoughRanked
    <3>2. Enough(ranked, raw)'
      BY <1>1, <2>1, <3>1
    <3> QED BY <2>1, <3>2 DEF EnoughRanked
  <2>3. CASE pc \notin {"seed", "cone", "final", "load", "compose", "done"}
    BY <2>1, <2>3 DEF EnoughRanked
  <2> QED BY <2>2, <2>3
<1>11. CASE \E u \in Primary : Store(u) \/ Derive(u) \/ Project(u) \/ Forget(u)
  BY <1>10, <1>11, ChangeStep
<1> QED BY <1>2, <1>3, <1>4, <1>5, <1>6, <1>7, <1>8, <1>9, <1>10, <1>11 DEF Next, RecallStep

LEMMA OrderKeptStep ==
  ASSUME Shape, OrderKept, [Next]_vars
  PROVE  OrderKept'
<1>0. /\ Planned /\ query.limit \in Nat /\ FromHits(ranked, raw)
  BY ShapePlans, LimitsTyped DEF Shape
<1>1. ASSUME InTime(ranked') PROVE InTime(ranked)'
  BY <1>1, QueryFixed, Zenon DEF InTime, Time
<1>2. CASE Probe \/ Select \/ Fail
  BY <1>2 DEF Probe, Select, Fail, OrderKept
<1>3. CASE Search
  <2>1. InTime(ranked')
    BY <1>3, SearchStep DEF SearchDoes, RankFacts
  <2>2. pc' = "seed"
    BY <1>3 DEF Search
  <2> QED BY <1>1, <2>1, <2>2 DEF OrderKept
<1>4. CASE SeedRerank
  <2>1. /\ pc = "seed" /\ pc' = "cone"
        /\ reranked' = (ranked' # ranked)
    BY <1>4 DEF SeedRerank
  <2>2. ~reranked' => ranked' = ranked
    BY <2>1, Zenon
  <2>3. ~reranked' => InTime(ranked)'
    BY <1>1, <2>1, <2>2 DEF OrderKept
  <2> QED BY <2>1, <2>3 DEF OrderKept
<1>5. CASE Expand
  <2>1. pc = "cone" /\ pc' = "final"
    BY <1>5 DEF Expand
  <2>2. (ranked' = ranked /\ reranked' = reranked) \/ InTime(ranked')
    BY <1>5, ExpandStep DEF ExpandDoes, RankFacts
  <2>3. ~reranked' => InTime(ranked')
    BY <2>1, <2>2 DEF OrderKept
  <2> QED BY <1>1, <2>1, <2>3 DEF OrderKept
<1>6. CASE FinalRerank
  <2>1. pc = "final" /\ pc' = "load"
    BY <1>6 DEF FinalRerank
  <2>2. PICK order : /\ ranked' = Limited(order, query.limit)
                     /\ ~reranked' => ~reranked /\ order = ranked
    BY <1>6, FinalRerankStep DEF FinalRerankDoes
  <2>3. ASSUME ~reranked' PROVE InTime(ranked')
    <3>1. InTime(ranked) /\ order = ranked
      BY <2>1, <2>2, <2>3 DEF OrderKept
    <3>2. InTime(Limited(ranked, query.limit))
      BY <1>0, <3>1, LimitedFromHits
    <3> QED BY <2>2, <3>1, <3>2
  <2> QED BY <1>1, <2>1, <2>3 DEF OrderKept
<1>7. CASE Load \/ Compose
  <2>1. /\ pc' \in {"compose", "done"} /\ pc \in {"load", "compose"}
        /\ ranked' = ranked /\ reranked' = reranked
    BY <1>7 DEF Load, Compose
  <2>2. ~reranked' => InTime(ranked')
    BY <2>1 DEF OrderKept
  <2>3. DOMAIN answers' = DOMAIN ranked'
    <3>1. CASE Load
      BY <2>1, <3>1 DEF Load
    <3>2. CASE Compose
      BY <2>1, <3>2 DEF Compose, OrderKept
    <3> QED BY <1>7, <3>1, <3>2
  <2> QED BY <1>1, <2>1, <2>2, <2>3 DEF OrderKept
<1>8. CASE ChangeDoes \/ UNCHANGED vars
  <2>1. pc' = pc /\ ranked' = ranked /\ reranked' = reranked /\ answers' = answers
    BY <1>8 DEF ChangeDoes, vars
  <2>2. /\ pc' = "seed" => InTime(ranked')
        /\ pc' \in {"cone", "final", "load", "compose", "done"} /\ ~reranked' => InTime(ranked')
        /\ pc' \in {"compose", "done"} => DOMAIN answers' = DOMAIN ranked'
    BY <2>1 DEF OrderKept
  <2> QED BY <1>1, <2>2 DEF OrderKept
<1>9. CASE \E u \in Primary : Store(u) \/ Derive(u) \/ Project(u) \/ Forget(u)
  BY <1>8, <1>9, ChangeStep
<1> QED BY <1>2, <1>3, <1>4, <1>5, <1>6, <1>7, <1>8, <1>9 DEF Next, RecallStep

LEMMA DominantFirstStep ==
  ASSUME Shape, DominantFirst, [Next]_vars
  PROVE  DominantFirst'
<1>1. CASE Search
  <2>1. DominantsBefore(ranked', raw')
    BY <1>1, SearchStep DEF SearchDoes, RankFacts
  <2>2. query' = query /\ starting' = starting
    BY <1>1 DEF Search
  <2> SUFFICES ASSUME query'.order = "none", NEW j \in DOMAIN ranked', NEW a \in Found',
                      Dominates(a, ranked[j].source)'
               PROVE  \E i \in 1 .. j - 1 : ranked'[i].source = a
    BY Zenon DEF DominantFirst
  <2>3. a \in FoundIn(raw')
    BY DEF Found, FoundIn
  <2>4. DominatesIn(raw', a, ranked'[j].source)
    BY <2>2 DEF Dominates, DominatesIn, IsNear
  <2>5. query.order = "none"
    BY <2>2
  <2> QED BY <2>1, <2>3, <2>4, <2>5 DEF DominantsBefore
<1>2. CASE Probe \/ Select \/ SeedRerank \/ Expand \/ FinalRerank \/ Load \/ Compose \/ Fail
  <2>1. pc' # "seed"
    BY <1>2 DEF Probe, Select, SeedRerank, Expand, FinalRerank, Load, Compose, Fail
  <2> QED BY <2>1 DEF DominantFirst
<1>3. CASE ChangeDoes \/ UNCHANGED vars
  <2>1. /\ pc' = pc /\ query' = query /\ starting' = starting /\ raw' = raw /\ ranked' = ranked
    BY <1>3 DEF ChangeDoes, vars
  <2> QED BY <2>1 DEF DominantFirst, Dominates, IsNear, Found
<1>4. CASE \E u \in Primary : Store(u) \/ Derive(u) \/ Project(u) \/ Forget(u)
  BY <1>3, <1>4, ChangeStep
<1> QED BY <1>1, <1>2, <1>3, <1>4 DEF Next, RecallStep

\* A URI of a primary record has one point.
LEMMA OnePrimary ==
  ASSUME NEW u \in Primary
  PROVE  \E i \in Point : PrimaryOf(u) = {i}
<1>1. PICK i \in Point : Catalogue[i].uri = u
  BY DEF Primary
<1>2. \A j \in Point : Catalogue[j].uri = u => j = i
  BY <1>1, RecallAssumption
<1>3. PrimaryOf(u) = {i}
  BY <1>1, <1>2 DEF PrimaryOf
<1> QED BY <1>3

LEMMA AnswersArePrimaryStep ==
  ASSUME Shape, RawInIndex, AnswersArePrimary, [Next]_vars
  PROVE  AnswersArePrimary'
<1>0. FromHits(ranked, raw) /\ ranked \in Seq(Ranked) /\ index \subseteq Point
  BY ShapePlans DEF Shape
<1>1. CASE Load
  <2>1. /\ answers' = [k \in DOMAIN ranked |-> Answer(ranked[k])]
        /\ index' = index /\ calm' = calm
    BY <1>1 DEF Load
  <2> SUFFICES ASSUME calm, \A i \in index : PrimaryOf(Source(i)) \subseteq index
               PROVE  /\ \A k \in DOMAIN answers' : {answers'[k].point} = PrimaryOf(answers'[k].source)
                      /\ IsInjective(answers')
    BY <2>1 DEF AnswersArePrimary
  <2>2. ASSUME NEW k \in DOMAIN ranked
        PROVE  /\ answers'[k].source = ranked[k].source
               /\ {answers'[k].point} = PrimaryOf(ranked[k].source)
    <3> DEFINE u == ranked[k].source
    <3>1. PICK h \in ToSet(raw) : Source(h.point) = u
      BY <1>0 DEF FromHits
    <3>2. h.point \in index
      BY DEF RawInIndex
    <3>3. PrimaryOf(u) \subseteq index
      BY <3>1, <3>2
    <3>4. u \in Primary
      <4>1. ranked[k] \in Ranked
        BY <1>0
      <4> QED BY <4>1 DEF Ranked
    <3>5. PICK i \in Point : PrimaryOf(u) = {i}
      BY <3>4, OnePrimary
    <3>6. PrimaryAt(u) = {i}
      BY <1>0, <3>3, <3>5 DEF PrimaryAt, PrimaryOf
    <3>7. (CHOOSE j \in {i} : TRUE) = i
      OBVIOUS
    <3>8. Answer(ranked[k]) = [source |-> u, point |-> i]
      BY <3>6, <3>7 DEF Answer
    <3> HIDE DEF u
    <3>9. answers'[k] = [source |-> u, point |-> i]
      BY <2>1, <3>8
    <3> QED BY <3>5, <3>9 DEF u
  <2>3. DOMAIN answers' = DOMAIN ranked
    BY <2>1
  <2>4. \A k \in DOMAIN answers' : {answers'[k].point} = PrimaryOf(answers'[k].source)
    BY <2>2, <2>3
  <2>5. \A j, k \in DOMAIN ranked : ranked[j].source = ranked[k].source => j = k
    BY <1>0 DEF FromHits
  <2>6. IsInjective(answers')
    <3> SUFFICES ASSUME NEW j \in DOMAIN answers', NEW k \in DOMAIN answers', answers'[j] = answers'[k]
                 PROVE  j = k
      BY DEF IsInjective
    <3>1. answers'[j].source = ranked[j].source /\ answers'[k].source = ranked[k].source
      BY <2>2, <2>3
    <3> QED BY <2>3, <2>5, <3>1
  <2> QED BY <2>4, <2>6
<1>2. CASE Compose
  <2>1. pc = "compose" /\ answers' = answers /\ index' = index /\ calm' = calm
    BY <1>2 DEF Compose
  <2> QED BY <2>1 DEF AnswersArePrimary
<1>3. CASE Probe \/ Select \/ Search \/ SeedRerank \/ Expand \/ FinalRerank \/ Fail
  <2>1. pc' \notin {"compose", "done"}
    BY <1>3 DEF Probe, Select, Search, SeedRerank, Expand, FinalRerank, Fail
  <2> QED BY <2>1 DEF AnswersArePrimary
<1>4. CASE \E u \in Primary : Store(u) \/ Derive(u) \/ Project(u) \/ Forget(u)
  <2>1. calm' => pc' = "probe"
    BY <1>4, ChangeStep DEF ChangeDoes
  <2> QED BY <2>1 DEF AnswersArePrimary
<1>5. CASE UNCHANGED vars
  BY <1>5 DEF AnswersArePrimary, vars
<1> QED BY <1>1, <1>2, <1>3, <1>4, <1>5 DEF Next, RecallStep

LEMMA InvariantHolds == Spec => []IInv
<1>1. Init => IInv
  <2> SUFFICES ASSUME Init PROVE IInv
    OBVIOUS
  <2>1. Shape
    BY ShapeInit
  <2>2. pc = "probe" /\ raw = <<>>
    BY DEF Init
  <2>3. ToSet(raw) = {}
    BY <2>2 DEF ToSet
  <2>4. RawInRange /\ RawInIndex
    BY <2>3 DEF RawInRange, RangeOrTree, RawInIndex
  <2>5. EnoughRanked /\ OrderKept /\ DominantFirst /\ AnswersArePrimary
    BY <2>2 DEF EnoughRanked, OrderKept, DominantFirst, AnswersArePrimary
  <2> QED BY <2>1, <2>4, <2>5 DEF IInv
<1>2. IInv /\ [Next]_vars => IInv'
  <2> SUFFICES ASSUME IInv, [Next]_vars PROVE IInv'
    OBVIOUS
  <2>1. /\ Shape /\ RawInRange /\ RawInIndex /\ EnoughRanked /\ OrderKept
        /\ DominantFirst /\ AnswersArePrimary
    BY DEF IInv
  <2>2. Shape' /\ RawInRange' /\ RawInIndex'
    BY <2>1, ShapeStep, RawInRangeStep, RawInIndexStep
  <2>3. EnoughRanked' /\ OrderKept'
    BY <2>1, EnoughRankedStep, OrderKeptStep
  <2>4. DominantFirst' /\ AnswersArePrimary'
    BY <2>1, DominantFirstStep, AnswersArePrimaryStep
  <2> QED BY <2>2, <2>3, <2>4 DEF IInv
<1> QED BY <1>1, <1>2, PTL DEF Spec

-------------------------------------------------------------------------------
(* Theorems *)

\* Every value of a recall has the shape the code's dataclasses give it: entry points
\* never repeat, and ranked hits and answers carry the URI of a primary record.
THEOREM RecallTyped == Spec => []TypeOK
<1>1. IInv => TypeOK
  BY DEF IInv, Shape
<1> QED BY <1>1, InvariantHolds, PTL

\* MemoryRetriever.load_primary_records: whatever points the collection holds with the
\* records behind them, a recall that no change disturbs answers with primary records,
\* each once.
THEOREM AnswersArePrimaryAlways == Spec => []AnswersArePrimary
<1>1. IInv => AnswersArePrimary
  BY DEF IInv
<1> QED BY <1>1, InvariantHolds, PTL

\* RetrievalRequest.limit: whatever surfaces time out, hits collapse or reranks do, a
\* recall answers with as many records as it found, up to the limit and the candidates
\* of a planned rerank.
THEOREM AnswersFillLimitAlways == Spec => []AnswersFillLimit
<1>1. IInv => AnswersFillLimit
  <2> SUFFICES ASSUME IInv PROVE AnswersFillLimit
    OBVIOUS
  <2>1. Shape /\ EnoughRanked
    BY DEF IInv
  <2>2. Planned /\ raw \in Seq(RawHit) /\ ranked \in Seq(Ranked)
    BY <2>1, ShapePlans
  <2>3. Budget \in Nat /\ Cardinality(FoundIn(raw)) \in Nat
    BY <2>2, BudgetIs, SourcesAre
  <2>4. Found = FoundIn(raw)
    BY DEF Found, FoundIn
  <2>5. pc \in {"load", "compose", "done"}
          => Len(ranked) <= query.limit /\ Len(ranked) >= Min({Budget, Cardinality(Found)})
    <3> SUFFICES ASSUME pc \in {"load", "compose", "done"}
                 PROVE  Len(ranked) <= query.limit /\ Len(ranked) >= Min({Budget, Cardinality(Found)})
      OBVIOUS
    <3> DEFINE b == Budget
               c == Cardinality(Found)
               n == Len(ranked)
    <3>1. n <= query.limit /\ (n >= b \/ n >= c)
      BY <2>1, <2>4 DEF EnoughRanked, Enough
    <3>2. b \in Nat /\ c \in Nat /\ n \in Nat
      BY <2>2, <2>3, <2>4
    <3> HIDE DEF b, c, n
    <3>3. Min({b, c}) = IF b <= c THEN b ELSE c
      BY <3>2, Pair
    <3>4. n >= Min({b, c})
      BY <3>1, <3>2, <3>3
    <3> QED BY <3>1, <3>4 DEF b, c, n
  <2> QED BY <2>5 DEF AnswersFillLimit, Budget
<1> QED BY <1>1, InvariantHolds, PTL

\* RetrievalRanker.rank: for any scores, weights and bonuses of the planner, a record that
\* was found wherever another was, and with better scores, is ranked before it.
THEOREM DominantFirstAlways == Spec => []DominantFirst
<1>1. IInv => DominantFirst
  BY DEF IInv
<1> QED BY <1>1, InvariantHolds, PTL

\* RetrievalRanker.rank: whatever is found, by whatever points, the answers to a query
\* for the latest or earliest are in the order of time unless a rerank decided otherwise
\* or a primary record shows another time than the point it was found by.
THEOREM TimeOrderedAlways == Spec => []TimeOrdered
<1>1. IInv => TimeOrdered
  <2> SUFFICES ASSUME IInv, pc \in {"compose", "done"}, ~reranked,
                      NEW i \in DOMAIN answers, NEW j \in DOMAIN answers, i < j,
                      \A k \in {i, j} : Time(answers[k]) = Time(ranked[k])
               PROVE  /\ query.order = "latest"   => Time(answers[i]) >= Time(answers[j])
                      /\ query.order = "earliest" => Time(answers[i]) <= Time(answers[j])
    BY Zenon DEF TimeOrdered
  <2>1. InTime(ranked) /\ DOMAIN answers = DOMAIN ranked
    BY DEF IInv, OrderKept
  <2>2. /\ query.order = "latest"   => Time(ranked[i]) >= Time(ranked[j])
        /\ query.order = "earliest" => Time(ranked[i]) <= Time(ranked[j])
    BY <2>1 DEF InTime
  <2>3. Time(answers[i]) = Time(ranked[i]) /\ Time(answers[j]) = Time(ranked[j])
    OBVIOUS
  <2> QED BY <2>2, <2>3
<1> QED BY <1>1, InvariantHolds, PTL

\* temporal_filter_conditions: what is out of the time range of the query comes from a
\* tree node, by the selection of the model or by the cone.
THEOREM RangeKeptAlways == Spec => []RangeKept
<1>1. IInv => RangeKept
  <2> SUFFICES ASSUME IInv, NEW k \in DOMAIN ranked
               PROVE  \/ InRange(ranked[k].point)
                      \/ \E h \in ToSet(raw) :
                           /\ Catalogue[h.point].surface = Tree
                           /\ \/ h.point = ranked[k].point
                              \/ ranked[k].source \in ToSet(Catalogue[h.point].neighbors)
    BY Zenon DEF RangeKept
  <2>1. FromHits(ranked, raw) /\ RangeOrTree(raw)
    BY DEF IInv, Shape, RawInRange
  <2>2. PICK h \in ToSet(raw) : h.point = ranked[k].point /\ Source(h.point) = ranked[k].source
    BY <2>1 DEF FromHits
  <2> QED BY <2>1, <2>2 DEF RangeOrTree
<1> QED BY <1>1, InvariantHolds, PTL
===============================================================================
