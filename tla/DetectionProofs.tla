--------------------------- MODULE DetectionProofs ---------------------------
(***************************************************************************)
(* What those who look for personal data can rely on, whatever the texts,  *)
(* the vocabulary and the windows are.                                     *)
(***************************************************************************)
EXTENDS Detection, SequenceTheorems, FiniteSetTheorems, WellFoundedInduction, TLAPS

(* Numbers, sets of numbers and lists *)

\* A set that has zero and every successor has all.
LEMMA AllNumbers ==
  ASSUME NEW G, 0 \in G, \A k \in Nat : k \in G => k + 1 \in G
  PROVE  \A k \in Nat : k \in G
<1> DEFINE R == OpToRel(<, Nat)
           T == {k \in Nat : k \notin G}
<1>1. SUFFICES ASSUME T # {} PROVE FALSE
  OBVIOUS
<1>2. PICK k \in T : \A y \in T : ~ (<<y, k>> \in R)
  <2>1. IsWellFoundedOn(R, Nat) /\ T \subseteq Nat
    BY NatLessThanWellFounded
  <2> HIDE DEF R, T
  <2> QED BY <1>1, <2>1, WFMin
<1>3. k # 0
  OBVIOUS
<1>4. k - 1 \in Nat /\ k - 1 < k /\ (k - 1) + 1 = k
  BY <1>3
<1>5. k - 1 \in G
  BY <1>2, <1>4 DEF OpToRel
<1> QED BY <1>4, <1>5

\* The least member of a set of numbers, and the largest of one that has a bound.
LEMMA MinIsLeast ==
  ASSUME NEW S \in SUBSET Nat, S # {}
  PROVE  Min(S) \in S /\ \A y \in S : Min(S) <= y
<1>1. PICK k \in S : \A y \in S : ~ (<<y, k>> \in OpToRel(<, Nat))
  <2>1. IsWellFoundedOn(OpToRel(<, Nat), Nat)
    BY NatLessThanWellFounded
  <2> QED BY <2>1, WFMin
<1>2. \A y \in S : k <= y
  <2> TAKE y \in S
  <2>1. k \in Nat /\ y \in Nat /\ ~(<<y, k>> \in OpToRel(<, Nat))
    BY <1>1
  <2> QED BY <2>1 DEF OpToRel
<1> QED BY <1>2 DEF Min

LEMMA MaxIsLargest ==
  ASSUME NEW n \in Nat, NEW R \in SUBSET (0 .. n), R # {}
  PROVE  Max(R) \in R /\ \A y \in R : y <= Max(R)
<1> DEFINE T == {k \in Nat : n - k \in R}
<1>1. T # {} /\ T \in SUBSET Nat
  <2>1. PICK y \in R : TRUE
    OBVIOUS
  <2>2. n - y \in Nat /\ n - (n - y) = y
    OBVIOUS
  <2> QED BY <2>1, <2>2
<1> DEFINE k == Min(T)
<1>2. k \in T /\ \A m \in T : k <= m
  <2> HIDE DEF T
  <2> QED BY <1>1, MinIsLeast
<1> HIDE DEF k
<1>3. n - k \in R
  BY <1>2
<1>4. \A y \in R : n - y \in T
  <2>1. \A y \in R : n - (n - y) = y /\ n - y \in Nat
    OBVIOUS
  <2> QED BY <2>1
<1>5. \A y \in R : n - k >= y
  <2> TAKE y \in R
  <2>1. k \in Nat /\ y \in Nat /\ k <= n - y
    BY <1>2, <1>4
  <2> QED BY <2>1
<1> HIDE DEF T
<1>6. \E x \in R : \A y \in R : x >= y
  BY <1>3, <1>5
<1> QED BY <1>6 DEF Max

\* A bounded rank has a largest value.
LEMMA LargestRank ==
  ASSUME NEW S, S # {}, NEW rank \in [S -> Nat], NEW n \in Nat, \A s \in S : rank[s] <= n
  PROVE  \E s \in S : \A t \in S : rank[t] <= rank[s]
<1> DEFINE R == OpToRel(<, Nat)
           T == {n - rank[s] : s \in S}
<1>1. \A s \in S : n - rank[s] \in Nat
  OBVIOUS
<1>2. PICK k \in T : \A y \in T : ~ (<<y, k>> \in R)
  <2>1. IsWellFoundedOn(R, Nat) /\ T \subseteq Nat /\ T # {}
    BY <1>1, NatLessThanWellFounded
  <2> HIDE DEF R, T
  <2> QED BY <2>1, WFMin
<1>3. PICK s \in S : k = n - rank[s]
  OBVIOUS
<1>4. \A t \in S : ~(n - rank[t] < n - rank[s])
  BY <1>1, <1>2, <1>3 DEF OpToRel
<1> QED BY <1>4

\* A set that has i whenever it has all that follows has all.
LEMMA Backwards ==
  ASSUME NEW n \in Nat, NEW S,
         \A i \in 1 .. n : (\A j \in i + 1 .. n : j \in S) => i \in S
  PROVE  \A i \in 1 .. n : i \in S
<1> DEFINE G == {k \in Nat : \A i \in 1 .. n : i > n - k => i \in S}
<1>1. 0 \in G
  OBVIOUS
<1>2. ASSUME NEW k \in Nat, k \in G PROVE k + 1 \in G
  <2>1. ASSUME NEW i \in 1 .. n, i > n - (k + 1) PROVE i \in S
    <3>1. \A j \in i + 1 .. n : j \in 1 .. n /\ j > n - k
      BY <2>1
    <3> QED BY <1>2, <3>1
  <2> QED BY <2>1
<1>3. n \in G
  <2> HIDE DEF G
  <2> QED BY <1>1, <1>2, AllNumbers
<1> QED BY <1>3

\* What holds of a number once it holds of the lesser ones of a row holds of all.
LEMMA Upwards ==
  ASSUME NEW a \in Nat, NEW b \in Nat, NEW S,
         \A i \in a .. b : (\A j \in a .. i - 1 : j \in S) => i \in S
  PROVE  \A i \in a .. b : i \in S
<1> DEFINE G == {k \in Nat : \A i \in a .. b : i < a + k => i \in S}
<1>1. 0 \in G
  OBVIOUS
<1>2. ASSUME NEW k \in Nat, k \in G PROVE k + 1 \in G
  <2>1. ASSUME NEW i \in a .. b, i < a + (k + 1) PROVE i \in S
    <3>1. \A j \in a .. i - 1 : j \in a .. b /\ j < a + k
      BY <2>1
    <3> QED BY <1>2, <3>1
  <2> QED BY <2>1
<1>3. \A k \in Nat : k \in G
  <2> HIDE DEF G
  <2> QED BY <1>1, <1>2, AllNumbers
<1>4. \A i \in a .. b : i < a + (b + 1)
  OBVIOUS
<1> QED BY <1>3, <1>4

\* How many members of a set are no larger than one.
RankIn(S, k) == Cardinality({j \in S : j <= k})

\* The members of a set of numbers, each once and from the least on.
Lists(a, S) ==
  /\ a \in Seq(S) /\ Len(a) = Cardinality(S) /\ DOMAIN a = 1 .. Cardinality(S)
  /\ \A n \in DOMAIN a : a[n] \in S /\ RankIn(S, a[n]) = n
  /\ \A k \in S : \E n \in DOMAIN a : a[n] = k
  /\ \A m, n \in DOMAIN a : m < n => a[m] < a[n]

LEMMA AscendingLists ==
  ASSUME NEW m \in Nat, NEW S \in SUBSET (1 .. m)
  PROVE  /\ Lists(Ascending(S), S)
         /\ Cardinality(S) \in Nat
<1> DEFINE c == Cardinality(S)
           upto(k) == {j \in S : j <= k}
           rank == [k \in S |-> RankIn(S, k)]
           a == [n \in 1 .. c |-> CHOOSE k \in S : RankIn(S, k) = n]
<1>0. \A k \in S : k \in Int
  OBVIOUS
<1>1. IsFiniteSet(S) /\ c \in Nat
  <2>1. IsFiniteSet(1 .. m)
    BY FS_Interval
  <2> QED BY <2>1, FS_Subset, FS_CardinalityType
<1>2. \A k \in S : IsFiniteSet(upto(k)) /\ upto(k) \in SUBSET S /\ RankIn(S, k) = Cardinality(upto(k))
  <2>1. \A k \in S : upto(k) \in SUBSET S
    OBVIOUS
  <2> QED BY <1>1, <2>1, FS_Subset DEF RankIn
<1>3. \A k \in S : RankIn(S, k) \in 1 .. c
  <2> TAKE k \in S
  <2>1. Cardinality(upto(k)) \in Nat /\ Cardinality(upto(k)) <= c /\ (Cardinality(upto(k)) = 0 => upto(k) = {})
    BY <1>1, <1>2, FS_Subset, FS_CardinalityType, FS_EmptySet
  <2>2. k \in upto(k)
    OBVIOUS
  <2> HIDE DEF upto, c
  <2> QED BY <1>1, <1>2, <2>1, <2>2
<1>4. \A k, l \in S : k < l => RankIn(S, k) < RankIn(S, l)
  <2> TAKE k, l \in S
  <2> HAVE k < l
  <2>0. k \in Int /\ l \in Int
    BY <1>0
  <2>a. \A j \in S : j <= k => j <= l
    <3> TAKE j \in S
    <3>1. j \in Int
      BY <1>0
    <3> QED BY <2>0, <3>1
  <2>b. l <= l /\ ~(l <= k)
    BY <2>0
  <2>1. upto(k) \in SUBSET upto(l) /\ l \in upto(l) /\ l \notin upto(k)
    BY <2>a, <2>b
  <2>2. Cardinality(upto(k)) <= Cardinality(upto(l)) /\ (Cardinality(upto(k)) = Cardinality(upto(l)) => upto(k) = upto(l))
    <3> HIDE DEF upto
    <3> QED BY <1>2, <2>1, FS_Subset
  <2> HIDE DEF upto, c
  <2> QED BY <1>2, <1>3, <2>1, <2>2, <1>1
<1>5. rank \in Injection(S, 1 .. c)
  <2>1. rank \in [S -> 1 .. c]
    BY <1>3
  <2>2. \A k, l \in S : rank[k] = rank[l] => k = l
    <3>1. \A k, l \in S : k = l \/ k < l \/ l < k
      OBVIOUS
    <3>2. \A k \in S : rank[k] = RankIn(S, k)
      OBVIOUS
    <3> HIDE DEF rank
    <3> QED BY <1>1, <1>3, <1>4, <3>1, <3>2
  <2> QED BY <2>1, <2>2 DEF Injection, IsInjective
<1>6. IsFiniteSet(1 .. c) /\ Cardinality(1 .. c) = c
  <2>1. c \in Int /\ 1 \in Int
    BY <1>1
  <2>2. IsFiniteSet(1 .. c) /\ Cardinality(1 .. c) = IF 1 > c THEN 0 ELSE c - 1 + 1
    <3> HIDE DEF c
    <3> QED BY <2>1, FS_Interval
  <2> HIDE DEF c
  <2> QED BY <1>1, <2>2
<1>7. rank \in Surjection(S, 1 .. c)
  <2> HIDE DEF rank
  <2> QED BY <1>1, <1>5, <1>6, FS_Injection
<1>8. \A n \in 1 .. c : \E k \in S : RankIn(S, k) = n
  BY <1>7 DEF Surjection
<1>9. \A n \in 1 .. c : a[n] \in S /\ RankIn(S, a[n]) = n
  <2> TAKE n \in 1 .. c
  <2>1. a[n] = CHOOSE k \in S : RankIn(S, k) = n
    OBVIOUS
  <2> HIDE DEF a, c
  <2> QED BY <1>8, <2>1
<1>10. a \in Seq(S) /\ Len(a) = c /\ DOMAIN a = 1 .. c
  <2>1. a \in [1 .. c -> S]
    BY <1>9
  <2> HIDE DEF a, c
  <2> QED BY <1>1, <2>1
<1>11. Ascending(S) = a
  <2>1. Ascending(S) = <<>> \o a
    BY DEF Ascending, Evaluated, RankIn
  <2> HIDE DEF a
  <2> QED BY <1>10, <2>1, ConcatEmptySeq
<1>12. \A k \in S : \E n \in 1 .. c : a[n] = k
  <2> TAKE k \in S
  <2>1. a[RankIn(S, k)] \in S /\ RankIn(S, a[RankIn(S, k)]) = RankIn(S, k) /\ RankIn(S, k) \in 1 .. c
    BY <1>3, <1>9
  <2>2. a[RankIn(S, k)] = k
    <3> DEFINE l == a[RankIn(S, k)]
    <3>0. l \in S /\ RankIn(S, l) = RankIn(S, k) /\ RankIn(S, k) \in Int
      BY <1>1, <2>1
    <3> HIDE DEF l, c
    <3>1. l < k \/ k < l \/ l = k
      BY <1>0, <3>0
    <3>2. l = k
      BY <1>4, <3>0, <3>1
    <3> QED BY <3>2 DEF l
  <2> HIDE DEF a
  <2> QED BY <2>1, <2>2
<1>13. \A i, n \in 1 .. c : i < n => a[i] < a[n]
  <2> TAKE i, n \in 1 .. c
  <2> HAVE i < n
  <2> HIDE DEF a, c
  <2>0. i \in Int /\ n \in Int /\ a[i] \in S /\ a[n] \in S /\ RankIn(S, a[i]) = i /\ RankIn(S, a[n]) = n
    BY <1>1, <1>9
  <2> DEFINE k == a[i]
             l == a[n]
  <2>1. k \in S /\ l \in S /\ RankIn(S, k) = i /\ RankIn(S, l) = n
    BY <2>0
  <2> HIDE DEF k, l
  <2>2. k = l \/ k < l \/ l < k
    <3>1. k \in Int /\ l \in Int
      BY <1>0, <2>1
    <3> QED BY <3>1
  <2>3. ~(n < i) /\ n # i
    BY <2>0
  <2>4. k < l
    BY <1>4, <2>1, <2>2, <2>3
  <2> QED BY <2>4 DEF k, l
<1> HIDE DEF a
<1> QED BY <1>1, <1>9, <1>10, <1>11, <1>12, <1>13 DEF Lists

\* Of a row from 1, the list is the row.
LEMMA AscendingRow ==
  ASSUME NEW m \in Nat
  PROVE  Ascending(1 .. m) = [n \in 1 .. m |-> n]
<1>1. Cardinality(1 .. m) = m
  <2>1. Cardinality(1 .. m) = IF 1 > m THEN 0 ELSE m - 1 + 1
    BY FS_Interval
  <2> QED BY <2>1
<1>2. Lists(Ascending(1 .. m), 1 .. m)
  BY AscendingLists
<1>3. \A k \in 1 .. m : RankIn(1 .. m, k) = k
  <2> TAKE k \in 1 .. m
  <2>1. {j \in 1 .. m : j <= k} = 1 .. k
    OBVIOUS
  <2>2. k \in Int /\ Cardinality(1 .. k) = IF 1 > k THEN 0 ELSE k - 1 + 1
    BY FS_Interval
  <2>3. Cardinality(1 .. k) = k
    BY <2>2
  <2> QED BY <2>1, <2>3 DEF RankIn
<1>4. \A n \in 1 .. m : Ascending(1 .. m)[n] = n
  <2> TAKE n \in 1 .. m
  <2>1. Ascending(1 .. m)[n] \in 1 .. m /\ RankIn(1 .. m, Ascending(1 .. m)[n]) = n
    BY <1>1, <1>2 DEF Lists
  <2> QED BY <1>3, <2>1
<1>5. Ascending(1 .. m) \in Seq(1 .. m) /\ DOMAIN Ascending(1 .. m) = 1 .. m
  BY <1>1, <1>2 DEF Lists
<1>6. Ascending(1 .. m) = [n \in 1 .. m |-> Ascending(1 .. m)[n]]
  <2>1. ASSUME NEW s \in Seq(1 .. m) PROVE s = [n \in 1 .. Len(s) |-> s[n]] /\ DOMAIN s = 1 .. Len(s)
    OBVIOUS
  <2> QED BY <1>5, <2>1
<1> QED BY <1>4, <1>6

-----------------------------------------------------------------------------
(* Matches, and the digits of a match *)

LEMMA FlattenExists ==
  ASSUME NEW s, Len(s) \in Nat \ {0}
  PROVE  \E f : /\ \A i \in 1 .. Len(s) : f[i] = IF i = 1 THEN s[i] ELSE f[i - 1] \o s[i]
                /\ FlattenSeq(s) = f[Len(s)]
<1> DEFINE n == Len(s)
           Value(f, i) == IF i = 1 THEN s[i] ELSE f[i - 1] \o s[i]
           Solves(f, k) == f = [i \in 1 .. k |-> Value(f, i)]
           G == {k \in Nat : \E f : Solves(f, k)}
           iter == CHOOSE f : Solves(f, n)
<1>1. 0 \in G
  <2>1. Solves([i \in 1 .. 0 |-> 0], 0)
    OBVIOUS
  <2> QED BY <2>1
<1>2. ASSUME NEW k \in Nat, k \in G PROVE k + 1 \in G
  <2>1. PICK g : Solves(g, k)
    BY <1>2
  <2> DEFINE f == [i \in 1 .. k + 1 |-> Value(g, i)]
  <2>2. \A i \in 1 .. k : f[i] = g[i]
    <3>1. \A i \in 1 .. k : i \in 1 .. k + 1
      OBVIOUS
    <3> HIDE DEF Value
    <3> QED BY <2>1, <3>1
  <2>3. \A i \in 1 .. k + 1 : i = 1 \/ i - 1 \in 1 .. k
    OBVIOUS
  <2>4. \A i \in 1 .. k + 1 : Value(f, i) = Value(g, i)
    <3> HIDE DEF f
    <3> QED BY <2>2, <2>3
  <2>5. Solves(f, k + 1)
    <3>1. f = [i \in 1 .. k + 1 |-> f[i]] /\ \A i \in 1 .. k + 1 : f[i] = Value(g, i)
      OBVIOUS
    <3> HIDE DEF f, Value
    <3> QED BY <2>4, <3>1
  <2> HIDE DEF f, Solves
  <2> QED BY <2>5
<1>3. n \in G
  <2> HIDE DEF G
  <2> QED BY <1>1, <1>2, AllNumbers
<1>4. Solves(iter, n)
  <2> HIDE DEF Solves
  <2> QED BY <1>3
<1>5. FlattenSeq(s) = iter[n]
  BY DEF FlattenSeq
<1>6. \A i \in 1 .. n : iter[i] = Value(iter, i)
  <2> HIDE DEF iter, Value, n
  <2> QED BY <1>4
<1> HIDE DEF iter
<1> QED BY <1>5, <1>6

LEMMA FlattenStep ==
  ASSUME NEW A, NEW s \in Seq(Seq(A)), NEW x \in Seq(A)
  PROVE  FlattenSeq(s) \in Seq(A) /\ FlattenSeq(Append(s, x)) = FlattenSeq(s) \o x
<1> DEFINE n == Len(s)
           u == Append(s, x)
<1>1. n \in Nat /\ (\A i \in 1 .. n : s[i] \in Seq(A))
  OBVIOUS
<1>2. Len(u) = n + 1 /\ (\A i \in 1 .. n : u[i] = s[i]) /\ u[n + 1] = x
  BY AppendProperties
<1> HIDE DEF u
<1>3. PICK g : /\ \A i \in 1 .. n + 1 : g[i] = IF i = 1 THEN u[i] ELSE g[i - 1] \o u[i]
               /\ FlattenSeq(u) = g[n + 1]
  <2>1. Len(u) \in Nat \ {0}
    BY <1>1, <1>2
  <2> QED BY <1>2, <2>1, FlattenExists
<1>4. CASE n = 0
  <2>1. s = <<>> /\ FlattenSeq(s) = s
    BY <1>4 DEF FlattenSeq
  <2>2. FlattenSeq(u) = x
    BY <1>2, <1>3, <1>4
  <2>3. <<>> \o x = x /\ <<>> \in Seq(A)
    BY ConcatEmptySeq
  <2> QED BY <2>1, <2>2, <2>3 DEF u
<1>5. CASE n # 0
  <2>1. n \in Nat \ {0}
    BY <1>1, <1>5
  <2>2. PICK f : /\ \A i \in 1 .. n : f[i] = IF i = 1 THEN s[i] ELSE f[i - 1] \o s[i]
                 /\ FlattenSeq(s) = f[n]
    <3> HIDE DEF n
    <3> QED BY <2>1, FlattenExists DEF n
  <2> DEFINE G == {i \in 1 .. n : f[i] = g[i] /\ f[i] \in Seq(A)}
  <2>3. ASSUME NEW i \in 1 .. n, \A j \in 1 .. i - 1 : j \in G PROVE i \in G
    <3>1. CASE i = 1
      <4>1. f[1] = s[1] /\ g[1] = u[1] /\ u[1] = s[1] /\ s[1] \in Seq(A)
        BY <1>1, <1>2, <1>3, <2>1, <2>2
      <4> QED BY <3>1, <4>1
    <3>2. CASE i # 1
      <4>1. i - 1 \in 1 .. i - 1 /\ i \in 1 .. n + 1
        BY <2>1, <3>2
      <4>2. f[i - 1] = g[i - 1] /\ f[i - 1] \in Seq(A)
        BY <2>3, <4>1
      <4>3. f[i] = f[i - 1] \o s[i] /\ g[i] = g[i - 1] \o u[i] /\ u[i] = s[i] /\ s[i] \in Seq(A)
        BY <1>1, <1>2, <1>3, <2>2, <3>2, <4>1
      <4>4. f[i - 1] \o s[i] \in Seq(A)
        BY <4>2, <4>3, ConcatProperties
      <4> QED BY <4>2, <4>3, <4>4
    <3> QED BY <3>1, <3>2
  <2>4. \A i \in 1 .. n : i \in G
    <3>1. 1 \in Nat
      OBVIOUS
    <3> HIDE DEF G, n
    <3> QED BY <1>1, <2>3, <3>1, Upwards
  <2>5. f[n] = g[n] /\ f[n] \in Seq(A)
    <3>1. n \in 1 .. n
      BY <2>1
    <3> QED BY <2>4, <3>1
  <2>6. g[n + 1] = g[n] \o u[n + 1]
    <3>1. n + 1 \in 1 .. n + 1 /\ n + 1 # 1 /\ (n + 1) - 1 = n
      BY <2>1
    <3> HIDE DEF n
    <3> QED BY <1>3, <3>1
  <2> QED BY <1>2, <1>3, <2>2, <2>5, <2>6 DEF u
<1> QED BY <1>4, <1>5

Piece(t, k) == IF DigitAt(t, k) THEN Digits[t[k]] ELSE <<>>

LEMMA PieceType ==
  ASSUME NEW t, NEW k
  PROVE  Piece(t, k) \in Seq(0 .. 9) /\ Len(Piece(t, k)) \in Nat /\ (DigitAt(t, k) => Len(Piece(t, k)) >= 1)
<1>1. CASE DigitAt(t, k)
  <2>1. Digits[t[k]] \in Seq(0 .. 9) /\ Digits[t[k]] # <<>>
    BY <1>1, DigitsAssumption DEF DigitAt
  <2>2. Len(Digits[t[k]]) \in Nat \ {0}
    BY <2>1, EmptySeq
  <2> QED BY <1>1, <2>1, <2>2 DEF Piece
<1>2. CASE ~DigitAt(t, k)
  BY <1>2 DEF Piece
<1> QED BY <1>1, <1>2

\* The digits of a match, place by place.
LEMMA DigitsGrow ==
  ASSUME NEW t, NEW i \in Int, NEW j \in Int, i <= j + 1
  PROVE  /\ DigitsOf(t, i, i - 1) = <<>>
         /\ DigitsOf(t, i, j) \in Seq(0 .. 9)
         /\ DigitsOf(t, i, j + 1) = DigitsOf(t, i, j) \o Piece(t, j + 1)
<1> DEFINE n == j + 1 - i
           s == [k \in 1 .. n |-> Piece(t, i + k - 1)]
           u == [k \in 1 .. n + 1 |-> Piece(t, i + k - 1)]
<1>1. n \in Nat /\ i + (n + 1) - 1 = j + 1 /\ (j + 1) + 1 - i = n + 1 /\ (i - 1) + 1 - i = 0
  OBVIOUS
<1>2. DigitsOf(t, i, j) = FlattenSeq(s)
  BY DEF DigitsOf, Piece
<1>3. DigitsOf(t, i, j + 1) = FlattenSeq(u)
  BY <1>1 DEF DigitsOf, Piece
<1>4. DigitsOf(t, i, i - 1) = FlattenSeq([k \in 1 .. 0 |-> Piece(t, i + k - 1)])
  BY <1>1 DEF DigitsOf, Piece
<1>5. DigitsOf(t, i, i - 1) = <<>>
  <2>1. [k \in 1 .. 0 |-> Piece(t, i + k - 1)] = <<>>
    OBVIOUS
  <2>2. FlattenSeq(<<>>) = <<>>
    BY DEF FlattenSeq
  <2> QED BY <1>4, <2>1, <2>2
<1>6. s \in Seq(Seq(0 .. 9)) /\ u \in Seq(Seq(0 .. 9)) /\ Len(s) = n /\ Len(u) = n + 1
  <2>1. s \in [1 .. n -> Seq(0 .. 9)] /\ u \in [1 .. n + 1 -> Seq(0 .. 9)]
    BY PieceType
  <2> HIDE DEF s, u, n
  <2> QED BY <1>1, <2>1
<1>7. u = Append(s, Piece(t, j + 1))
  <2>1. /\ Append(s, Piece(t, j + 1)) \in Seq(Seq(0 .. 9)) /\ Len(Append(s, Piece(t, j + 1))) = n + 1
        /\ \A k \in 1 .. n : Append(s, Piece(t, j + 1))[k] = s[k]
        /\ Append(s, Piece(t, j + 1))[n + 1] = Piece(t, j + 1)
    <3> HIDE DEF s, n
    <3> QED BY <1>6, PieceType, AppendProperties
  <2>2. \A k \in 1 .. n : s[k] = u[k] /\ k \in 1 .. n + 1
    BY <1>1
  <2>3. u[n + 1] = Piece(t, j + 1)
    BY <1>1
  <2>4. \A k \in 1 .. n + 1 : k \in 1 .. n \/ k = n + 1
    BY <1>1
  <2> HIDE DEF s, u, n
  <2>5. \A k \in 1 .. n + 1 : u[k] = Append(s, Piece(t, j + 1))[k]
    BY <2>1, <2>2, <2>3, <2>4
  <2> QED BY <1>6, <2>1, <2>5, SeqEqual
<1> HIDE DEF s, u
<1>8. FlattenSeq(s) \in Seq(0 .. 9) /\ FlattenSeq(u) = FlattenSeq(s) \o Piece(t, j + 1)
  BY <1>6, <1>7, PieceType, FlattenStep
<1> QED BY <1>2, <1>3, <1>5, <1>8

LEMMA DigitsSplit ==
  ASSUME NEW t, NEW i \in Int, NEW j \in Int, NEW k \in Int, i <= j + 1, j <= k
  PROVE  /\ DigitsOf(t, i, j) \in Seq(0 .. 9) /\ DigitsOf(t, j + 1, k) \in Seq(0 .. 9)
         /\ DigitsOf(t, i, k) = DigitsOf(t, i, j) \o DigitsOf(t, j + 1, k)
<1> DEFINE G == {m \in Nat : DigitsOf(t, i, j + m) = DigitsOf(t, i, j) \o DigitsOf(t, j + 1, j + m)}
<1>1. DigitsOf(t, i, j) \in Seq(0 .. 9)
  BY DigitsGrow
<1>2. 0 \in G
  <2>1. j + 1 \in Int /\ j + 1 <= (j + 1) + 1 /\ (j + 1) - 1 = j /\ j + 0 = j
    OBVIOUS
  <2>2. DigitsOf(t, j + 1, j) = <<>>
    BY <2>1, DigitsGrow
  <2>3. DigitsOf(t, i, j) = DigitsOf(t, i, j) \o <<>>
    BY <1>1, ConcatEmptySeq
  <2> QED BY <2>1, <2>2, <2>3
<1>3. ASSUME NEW m \in Nat, m \in G PROVE m + 1 \in G
  <2>1. j + m \in Int /\ i <= (j + m) + 1 /\ j + 1 <= (j + m) + 1 /\ j + 1 \in Int /\ j + (m + 1) = (j + m) + 1
    OBVIOUS
  <2>2. /\ DigitsOf(t, i, (j + m) + 1) = DigitsOf(t, i, j + m) \o Piece(t, (j + m) + 1)
        /\ DigitsOf(t, j + 1, (j + m) + 1) = DigitsOf(t, j + 1, j + m) \o Piece(t, (j + m) + 1)
        /\ DigitsOf(t, j + 1, j + m) \in Seq(0 .. 9)
    BY <2>1, DigitsGrow
  <2> DEFINE u == DigitsOf(t, i, j)
             v == DigitsOf(t, j + 1, j + m)
             p == Piece(t, (j + m) + 1)
  <2>3. u \in Seq(0 .. 9) /\ v \in Seq(0 .. 9) /\ p \in Seq(0 .. 9)
    BY <1>1, <2>2, PieceType
  <2>4. DigitsOf(t, i, j + m) = u \o v
    BY <1>3
  <2>5. DigitsOf(t, i, (j + m) + 1) = (u \o v) \o p /\ DigitsOf(t, j + 1, (j + m) + 1) = v \o p
    BY <2>2, <2>4
  <2> HIDE DEF u, v, p
  <2>6. (u \o v) \o p = u \o (v \o p)
    BY <2>3, ConcatAssociative
  <2>7. DigitsOf(t, i, j + (m + 1)) = u \o DigitsOf(t, j + 1, j + (m + 1))
    BY <2>1, <2>5, <2>6
  <2> QED BY <2>7 DEF u
<1>4. \A m \in Nat : m \in G
  <2> HIDE DEF G
  <2> QED BY <1>2, <1>3, AllNumbers
<1>5. k - j \in Nat /\ j + (k - j) = k /\ j + 1 \in Int /\ j + 1 <= k + 1
  OBVIOUS
<1>6. DigitsOf(t, j + 1, k) \in Seq(0 .. 9)
  BY <1>5, DigitsGrow
<1> QED BY <1>1, <1>4, <1>5, <1>6

\* How many digits a match has.
Count(t, i, j) == Len(DigitsOf(t, i, j))

LEMMA CountSplit ==
  ASSUME NEW t, NEW i \in Int, NEW j \in Int, NEW k \in Int, i <= j + 1, j <= k
  PROVE  /\ Count(t, i, j) \in Nat /\ Count(t, j + 1, k) \in Nat
         /\ Count(t, i, k) = Count(t, i, j) + Count(t, j + 1, k)
<1>1. /\ DigitsOf(t, i, j) \in Seq(0 .. 9) /\ DigitsOf(t, j + 1, k) \in Seq(0 .. 9)
      /\ DigitsOf(t, i, k) = DigitsOf(t, i, j) \o DigitsOf(t, j + 1, k)
  BY DigitsSplit
<1> QED BY <1>1, ConcatProperties, LenProperties DEF Count

LEMMA CountThere ==
  ASSUME NEW t, NEW i \in Int, NEW j \in Int, NEW k \in i .. j, DigitAt(t, k)
  PROVE  Count(t, i, j) >= 1
<1>1. k - 1 \in Int /\ i <= (k - 1) + 1 /\ k - 1 <= k /\ (k - 1) + 1 = k /\ k <= j /\ i <= k + 1 /\ k \in Int /\ k - 1 <= j
  OBVIOUS
<1>2. Count(t, i, k - 1) \in Nat /\ Count(t, k, j) \in Nat /\ Count(t, i, j) = Count(t, i, k - 1) + Count(t, k, j)
  BY <1>1, CountSplit
<1>3. Count(t, k, k) \in Nat /\ Count(t, k + 1, j) \in Nat /\ Count(t, k, j) = Count(t, k, k) + Count(t, k + 1, j)
  BY <1>1, CountSplit
<1>4. DigitsOf(t, k, k) = Piece(t, k)
  <2> DEFINE h == k - 1
  <2>0. h \in Int /\ k \in Int /\ k <= h + 1 /\ h + 1 = k
    OBVIOUS
  <2> HIDE DEF h
  <2>a. DigitsOf(t, k, k - 1) = <<>> /\ DigitsOf(t, k, h + 1) = DigitsOf(t, k, h) \o Piece(t, h + 1)
    BY <2>0, DigitsGrow
  <2>1. DigitsOf(t, k, k - 1) = <<>> /\ DigitsOf(t, k, (k - 1) + 1) = DigitsOf(t, k, k - 1) \o Piece(t, (k - 1) + 1)
    BY <2>a DEF h
  <2>2. <<>> \o Piece(t, k) = Piece(t, k)
    BY PieceType, ConcatEmptySeq
  <2> QED BY <1>1, <2>1, <2>2
<1>5. Count(t, k, k) >= 1
  BY <1>4, PieceType DEF Count
<1> QED BY <1>2, <1>3, <1>5

LEMMA LongestIs ==
  ASSUME NEW n \in Nat, NEW E \in SUBSET (1 .. n)
  PROVE  \/ E = {} /\ Longest(E) = 0
         \/ Longest(E) \in E /\ \A y \in E : y <= Longest(E)
<1>1. E \in SUBSET (0 .. n)
  OBVIOUS
<1> QED BY <1>1, MaxIsLargest DEF Longest

\* The ends of the matches that begin at the places of a text.
AreEnds(end, n) == DOMAIN end = 1 .. n /\ \A i \in 1 .. n : end[i] = 0 \/ end[i] \in i .. n

From(end, f, i) ==
  IF i \notin DOMAIN end THEN {} ELSE LET e == end[i] IN IF e = 0 THEN f[i + 1] ELSE {<<i, e>>} \cup f[e + 1]

LEMMA MatchesExist ==
  ASSUME NEW n \in Nat, NEW end, AreEnds(end, n)
  PROVE  \E f : f = [i \in 1 .. n + 1 |-> From(end, f, i)] /\ Matches(end) = f[1]
<1> DEFINE c == n + 1
           Solves(f, m) == f = [i \in m .. c |-> From(end, f, i)]
           S == {m \in 1 .. c : \E f : Solves(f, m)}
<1>1. c \in Nat
  OBVIOUS
<1>2. ASSUME NEW m \in 1 .. c, \A j \in m + 1 .. c : j \in S PROVE m \in S
  <2>1. CASE m = c
    <3> DEFINE f == [i \in m .. c |-> {}]
    <3>1. \A i \in m .. c : From(end, f, i) = {}
      BY <2>1 DEF From, AreEnds
    <3>2. Solves(f, m)
      BY <3>1
    <3> QED BY <3>2
  <2>2. CASE m < c
    <3>1. m + 1 \in S
      <4>1. m + 1 \in m + 1 .. c
        BY <2>2
      <4> HIDE DEF S, c
      <4> QED BY <1>2, <4>1
    <3>2. PICK g : Solves(g, m + 1)
      BY <3>1
    <3> DEFINE f == [i \in m .. c |-> IF i = m THEN From(end, g, m) ELSE g[i]]
    <3>3. \A i \in m + 1 .. c : f[i] = g[i] /\ g[i] = From(end, g, i)
      BY <3>2
    <3>4. ASSUME NEW i \in m .. c PROVE From(end, f, i) = From(end, g, i)
      <4>1. CASE i \notin DOMAIN end
        BY <4>1 DEF From
      <4>2. CASE i \in DOMAIN end
        <5>1. i \in 1 .. n /\ (end[i] = 0 \/ end[i] \in i .. n)
          BY <4>2 DEF AreEnds
        <5>2. i + 1 \in m + 1 .. c /\ (end[i] # 0 => end[i] + 1 \in m + 1 .. c)
          BY <5>1
        <5>3. f[i + 1] = g[i + 1] /\ (end[i] # 0 => f[end[i] + 1] = g[end[i] + 1])
          BY <3>3, <5>2
        <5> HIDE DEF f
        <5> QED BY <5>3 DEF From
      <4> QED BY <4>1, <4>2
    <3>5. \A i \in m .. c : f[i] = From(end, f, i)
      <4>1. f[m] = From(end, g, m)
        OBVIOUS
      <4>2. \A i \in m .. c : i = m \/ i \in m + 1 .. c
        OBVIOUS
      <4> HIDE DEF f
      <4> QED BY <3>3, <3>4, <4>1, <4>2
    <3>6. Solves(f, m)
      <4>1. f = [i \in m .. c |-> f[i]]
        OBVIOUS
      <4> HIDE DEF f
      <4> QED BY <3>5, <4>1
    <3> QED BY <3>6
  <2> QED BY <2>1, <2>2
<1>3. 1 \in S
  <2>1. 1 \in 1 .. c
    OBVIOUS
  <2> HIDE DEF S, c
  <2> QED BY <1>1, <1>2, <2>1, Backwards
<1>4. PICK g : Solves(g, 1)
  BY <1>3
<1> DEFINE from == CHOOSE f : Solves(f, 1)
<1>5. Solves(from, 1)
  <2> HIDE DEF Solves
  <2> QED BY <1>4
<1>6. Matches(end) = from[1]
  <2>1. Cardinality(DOMAIN end) = n
    <3>1. Cardinality(1 .. n) = IF 1 > n THEN 0 ELSE n - 1 + 1
      BY FS_Interval
    <3> QED BY <3>1 DEF AreEnds
  <2> QED BY <2>1 DEF Matches, From
<1> HIDE DEF from
<1> QED BY <1>5, <1>6

\* A match begins at a place and has its end.
LEMMA MatchesAre ==
  ASSUME NEW n \in Nat, NEW end, AreEnds(end, n), NEW m \in Matches(end)
  PROVE  m = <<m[1], m[2]>> /\ m[1] \in 1 .. n /\ m[2] = end[m[1]] /\ m[2] \in m[1] .. n
<1> DEFINE Is(x) == \E i \in 1 .. n : end[i] # 0 /\ x = <<i, end[i]>>
<1>1. PICK f : f = [i \in 1 .. n + 1 |-> From(end, f, i)] /\ Matches(end) = f[1]
  BY MatchesExist
<1> DEFINE c == n + 1
           S == {i \in 1 .. c : \A x \in f[i] : Is(x)}
<1>2. \A i \in 1 .. c : f[i] = From(end, f, i)
  BY <1>1
<1>3. ASSUME NEW i \in 1 .. c, \A j \in i + 1 .. c : j \in S PROVE i \in S
  <2>1. CASE i \notin DOMAIN end
    BY <1>2, <2>1 DEF From
  <2>2. CASE i \in DOMAIN end
    <3>1. i \in 1 .. n /\ (end[i] = 0 \/ end[i] \in i .. n)
      BY <2>2 DEF AreEnds
    <3>2. i + 1 \in i + 1 .. c /\ (end[i] # 0 => end[i] + 1 \in i + 1 .. c)
      BY <3>1
    <3>3. (\A x \in f[i + 1] : Is(x)) /\ (end[i] # 0 => \A x \in f[end[i] + 1] : Is(x))
      BY <1>3, <3>2
    <3>4. f[i] = IF end[i] = 0 THEN f[i + 1] ELSE {<<i, end[i]>>} \cup f[end[i] + 1]
      BY <1>2, <2>2 DEF From
    <3>5. end[i] # 0 => Is(<<i, end[i]>>)
      BY <3>1
    <3> HIDE DEF Is
    <3> QED BY <3>3, <3>4, <3>5
  <2> QED BY <2>1, <2>2
<1>4. 1 \in S
  <2>1. 1 \in 1 .. c /\ c \in Nat
    OBVIOUS
  <2> HIDE DEF S, c
  <2> QED BY <1>3, <2>1, Backwards
<1>5. Is(m)
  BY <1>1, <1>4
<1> QED BY <1>5 DEF AreEnds

\* A match that no earlier one reaches is found.
LEMMA MatchFound ==
  ASSUME NEW n \in Nat, NEW end, AreEnds(end, n),
         NEW i \in 1 .. n, end[i] # 0, \A a \in 1 .. i - 1 : end[a] < i
  PROVE  <<i, end[i]>> \in Matches(end)
<1>1. PICK f : f = [k \in 1 .. n + 1 |-> From(end, f, k)] /\ Matches(end) = f[1]
  BY MatchesExist
<1> DEFINE S == {a \in 1 .. i : <<i, end[i]>> \in f[a]}
<1>2. \A a \in 1 .. i : f[a] = IF end[a] = 0 THEN f[a + 1] ELSE {<<a, end[a]>>} \cup f[end[a] + 1]
  <2> TAKE a \in 1 .. i
  <2>1. a \in 1 .. n + 1 /\ a \in DOMAIN end
    BY DEF AreEnds
  <2>2. f[a] = From(end, f, a)
    BY <1>1, <2>1
  <2> QED BY <2>1, <2>2 DEF From
<1>3. ASSUME NEW a \in 1 .. i, \A b \in a + 1 .. i : b \in S PROVE a \in S
  <2>1. CASE a = i
    BY <1>2, <2>1
  <2>2. CASE a # i
    <3>1. a \in 1 .. i - 1 /\ a + 1 \in a + 1 .. i /\ a \in 1 .. n
      BY <2>2
    <3>2. end[a] # 0 => end[a] + 1 \in a + 1 .. i
      BY <3>1 DEF AreEnds
    <3>3. <<i, end[i]>> \in f[a + 1] /\ (end[a] # 0 => <<i, end[i]>> \in f[end[a] + 1])
      BY <1>3, <3>1, <3>2
    <3> QED BY <1>2, <3>3
  <2> QED BY <2>1, <2>2
<1>4. 1 \in S
  <2>1. 1 \in 1 .. i /\ i \in Nat
    OBVIOUS
  <2> HIDE DEF S
  <2> QED BY <1>3, <2>1, Backwards
<1> QED BY <1>1, <1>4

-----------------------------------------------------------------------------
(* Numbers that stand alone, and the floor of the egress path *)

\* What a run of digits may have between them.
Spaced(u, k) == DigitAt(u, k) \/ u[k] \in {" ", "  ", "-"}

LEMMA NoneAfter ==
  ASSUME NEW u, NEW n \in Nat, DOMAIN u = 1 .. n, NEW i \in 1 .. n, NEW j \in i .. n, Solitary(u, i, j),
         NEW e \in j + 1 .. n, DigitAt(u, e), \A k \in j + 1 .. e : Spaced(u, k)
  PROVE  FALSE
<1> DEFINE T == {k \in j + 1 .. e : DigitAt(u, k)}
           k == Min(T)
<1>1. T \in SUBSET Nat /\ T # {}
  OBVIOUS
<1>2. k \in T /\ \A y \in T : k <= y
  <2> HIDE DEF T
  <2> QED BY <1>1, MinIsLeast
<1> HIDE DEF k
<1>3. k \in (DOMAIN u) \ (i .. j) /\ DigitAt(u, k)
  BY <1>2
<1>4. PICK m \in (k + 1 .. i - 1) \cup (j + 1 .. k - 1) : u[m] \notin {" ", "  ", "-"}
  BY <1>3 DEF Solitary
<1>5. m \in j + 1 .. k - 1 /\ m \in j + 1 .. e
  <2>1. k \in j + 1 .. e /\ k \in Int /\ i \in Int /\ j \in Int /\ e \in Int /\ i <= j
    BY <1>2
  <2>2. (m \in Int /\ k + 1 <= m /\ m <= i - 1) \/ (m \in Int /\ j + 1 <= m /\ m <= k - 1)
    BY <2>1
  <2> HIDE DEF T
  <2> QED BY <2>1, <2>2
<1>6. DigitAt(u, m)
  BY <1>4, <1>5 DEF Spaced
<1>7. m \in T /\ m < k
  BY <1>2, <1>5, <1>6
<1> QED BY <1>2, <1>7

LEMMA NoneBefore ==
  ASSUME NEW u, NEW n \in Nat, DOMAIN u = 1 .. n, NEW i \in 1 .. n, NEW j \in i .. n, Solitary(u, i, j),
         NEW a \in 1 .. i - 1, DigitAt(u, a), \A k \in a .. i - 1 : Spaced(u, k)
  PROVE  FALSE
<1> DEFINE T == {k \in a .. i - 1 : DigitAt(u, k)}
           k == Max(T)
<1>1. T \in SUBSET (0 .. n) /\ T # {}
  OBVIOUS
<1>2. k \in T /\ \A y \in T : y <= k
  <2> HIDE DEF T
  <2> QED BY <1>1, MaxIsLargest
<1> HIDE DEF k
<1>3. k \in (DOMAIN u) \ (i .. j) /\ DigitAt(u, k)
  BY <1>2
<1>4. PICK m \in (k + 1 .. i - 1) \cup (j + 1 .. k - 1) : u[m] \notin {" ", "  ", "-"}
  BY <1>3 DEF Solitary
<1>5. m \in k + 1 .. i - 1 /\ m \in a .. i - 1
  <2>1. k \in a .. i - 1 /\ k \in Int /\ i \in Int /\ j \in Int /\ a \in Int /\ i <= j
    BY <1>2
  <2>2. (m \in Int /\ k + 1 <= m /\ m <= i - 1) \/ (m \in Int /\ j + 1 <= m /\ m <= k - 1)
    BY <2>1
  <2> HIDE DEF T
  <2> QED BY <2>1, <2>2
<1>6. DigitAt(u, m)
  BY <1>4, <1>5 DEF Spaced
<1>7. m \in T /\ k < m
  BY <1>2, <1>5, <1>6
<1> QED BY <1>2, <1>7

\* A match that goes on beyond a number that stands alone goes on over a mark
\* that is no space and no dash, right beside it.
LEMMA MarkAfter ==
  ASSUME NEW u, NEW n \in Nat, DOMAIN u = 1 .. n, NEW i \in 1 .. n, NEW j \in i .. n,
         Solitary(u, i, j), Apart(u, i, j), DigitAt(u, j),
         NEW seps, NEW a \in 1 .. i, NEW b \in j + 1 .. n, Grouped(u, a, b, seps)
  PROVE  ~DigitAt(u, j + 1) /\ u[j + 1] \notin {" ", "  ", "-"} /\ j + 1 < b /\ DigitAt(u, j + 2)
<1>1. j + 1 \in a .. b /\ j + 1 \in 1 .. n /\ (j + 1) + 1 = j + 2 /\ (j + 1) - 1 = j
  OBVIOUS
<1>2. ~DigitAt(u, j + 1)
  BY DEF Apart, WordAt
<1>3. DigitAt(u, j + 2) /\ j + 1 < b
  <2>1. u[j + 1] \in seps /\ DigitAt(u, (j + 1) + 1)
    BY <1>1, <1>2 DEF Grouped
  <2>2. j + 1 # b
    BY <1>2 DEF Grouped
  <2> QED BY <1>1, <2>1, <2>2
<1>4. ASSUME u[j + 1] \in {" ", "  ", "-"} PROVE FALSE
  <2>1. j + 2 \in j + 1 .. n
    BY <1>3
  <2>2. \A k \in j + 1 .. j + 2 : k = j + 1 \/ k = j + 2
    OBVIOUS
  <2>3. \A k \in j + 1 .. j + 2 : Spaced(u, k)
    BY <1>3, <1>4, <2>2 DEF Spaced
  <2> QED BY <1>3, <2>1, <2>3, NoneAfter
<1> QED BY <1>2, <1>3, <1>4

LEMMA MarkBefore ==
  ASSUME NEW u, NEW n \in Nat, DOMAIN u = 1 .. n, NEW i \in 1 .. n, NEW j \in i .. n,
         Solitary(u, i, j), Apart(u, i, j), DigitAt(u, i),
         NEW seps, NEW a \in 1 .. i - 1, NEW b \in j .. n, Grouped(u, a, b, seps)
  PROVE  ~DigitAt(u, i - 1) /\ u[i - 1] \notin {" ", "  ", "-"} /\ a < i - 1 /\ DigitAt(u, i - 2)
<1>1. i - 1 \in a .. b /\ i - 1 \in 1 .. n /\ (i - 1) - 1 = i - 2 /\ (i - 1) + 1 = i
  OBVIOUS
<1>2. ~DigitAt(u, i - 1)
  BY DEF Apart, WordAt
<1>3. DigitAt(u, i - 2) /\ a < i - 1
  <2>1. u[i - 1] \in seps /\ DigitAt(u, (i - 1) - 1)
    BY <1>1, <1>2 DEF Grouped
  <2>2. i - 1 # a
    BY <1>2 DEF Grouped
  <2> QED BY <1>1, <2>1, <2>2
<1>4. ASSUME u[i - 1] \in {" ", "  ", "-"} PROVE FALSE
  <2>1. i - 2 \in 1 .. i - 1
    BY <1>3
  <2>2. \A k \in i - 2 .. i - 1 : k = i - 1 \/ k = i - 2
    OBVIOUS
  <2>3. \A k \in i - 2 .. i - 1 : Spaced(u, k)
    BY <1>3, <1>4, <2>2 DEF Spaced
  <2> QED BY <1>3, <2>1, <2>3, NoneBefore
<1> QED BY <1>2, <1>3, <1>4

\* No phone number has a card or social insurance number in it that stands
\* alone: it has ten or eleven digits, and marks at other places.
LEMMA NotInPhone ==
  ASSUME NEW u, NEW n \in Nat, DOMAIN u = 1 .. n, Len(u) = n, NEW i \in 1 .. n, NEW j \in i .. n,
         Alone(u, i, j), NEW p \in Phones(u), p[1] <= i, j <= p[2]
  PROVE  FALSE
<1> DEFINE end == [k \in DOMAIN u |-> PhoneEnd(u, k)]
           cands(k) == {l \in k .. Len(u) :
                          /\ Grouped(u, k, l, {" ", ".", "-"}) /\ Apart(u, k, l)
                          /\ LET ds == DigitsOf(u, k, l) IN
                               \/ Len(ds) = 10 /\ Cuts(u, k, l) \subseteq {3, 6}
                               \/ Len(ds) = 11 /\ ds[1] = 1 /\ Cuts(u, k, l) \subseteq {1, 4, 7}}
<1>1. \A k \in 1 .. n : end[k] = 0 \/ end[k] \in cands(k)
  <2> TAKE k \in 1 .. n
  <2>1. end[k] = Longest(cands(k))
    BY DEF PhoneEnd
  <2>2. cands(k) \in SUBSET (1 .. n)
    <3>1. k .. Len(u) \subseteq 1 .. n
      OBVIOUS
    <3> QED BY <3>1, Zenon
  <2> HIDE DEF end, cands
  <2> QED BY <2>1, <2>2, LongestIs
<1>2. AreEnds(end, n)
  <2>1. \A k \in 1 .. n : end[k] \in cands(k) => end[k] \in k .. n
    OBVIOUS
  <2>2. DOMAIN end = 1 .. n
    OBVIOUS
  <2> HIDE DEF end, cands
  <2> QED BY <1>1, <2>1, <2>2 DEF AreEnds
<1>3. p[1] \in 1 .. n /\ p[2] \in p[1] .. n /\ p[2] = end[p[1]]
  <2>1. p \in Matches(end)
    BY DEF Phones
  <2> HIDE DEF end, cands
  <2> QED BY <1>2, <2>1, MatchesAre
<1>4. p[2] \in cands(p[1])
  <2> HIDE DEF end, cands
  <2> QED BY <1>1, <1>3
<1> DEFINE a == p[1]
           b == p[2]
<1>5. a \in 1 .. i /\ b \in j .. n /\ a \in Int /\ b \in Int /\ i \in Int /\ j \in Int
  BY <1>3
<1>6. Grouped(u, a, b, {" ", ".", "-"}) /\ \/ Count(u, a, b) = 10 /\ Cuts(u, a, b) \subseteq {3, 6}
                                           \/ Count(u, a, b) = 11 /\ Cuts(u, a, b) \subseteq {1, 4, 7}
  BY <1>4 DEF Count
<1> HIDE DEF end, cands, a, b
<1>7. Count(u, i, j) \in {9, 15, 16}
  BY SecretsAssumption DEF Alone, Count
<1>8. /\ Solitary(u, i, j) /\ Apart(u, i, j) /\ DigitAt(u, i) /\ DigitAt(u, j)
  BY DEF Alone, Grouped
<1> DEFINE before == Count(u, a, i - 1)
           after == Count(u, j + 1, b)
<1>9. /\ before \in Nat /\ after \in Nat /\ Count(u, a, b) = before + Count(u, i, j) + after
      /\ Count(u, a, j) = before + Count(u, i, j)
  <2>1. /\ i - 1 \in Int /\ a <= (i - 1) + 1 /\ i - 1 <= b /\ (i - 1) + 1 = i /\ i <= j + 1 /\ j <= b /\ i - 1 <= j
    BY <1>5
  <2>2. Count(u, a, i - 1) \in Nat /\ Count(u, a, b) = Count(u, a, i - 1) + Count(u, (i - 1) + 1, b)
    BY <1>5, <2>1, CountSplit
  <2>3. Count(u, i, j) \in Nat /\ Count(u, j + 1, b) \in Nat /\ Count(u, i, b) = Count(u, i, j) + Count(u, j + 1, b)
    BY <1>5, <2>1, CountSplit
  <2>4. Count(u, a, j) = Count(u, a, i - 1) + Count(u, (i - 1) + 1, j)
    BY <1>5, <2>1, CountSplit
  <2> QED BY <2>1, <2>2, <2>3, <2>4
<1>10. b = j => after = 0
  <2>1. j + 1 \in Int /\ j \in Int /\ j + 1 <= j + 1 /\ (j + 1) - 1 = j
    BY <1>5
  <2>2. DigitsOf(u, j + 1, (j + 1) - 1) = <<>>
    BY <2>1, DigitsGrow
  <2> QED BY <2>1, <2>2 DEF Count
<1>11. a = i => before = 0
  <2>1. DigitsOf(u, i, i - 1) = <<>>
    <3>1. i \in Int /\ i - 1 \in Int /\ i <= (i - 1) + 1
      BY <1>5
    <3> QED BY <3>1, DigitsGrow
  <2> QED BY <2>1 DEF Count
<1>12. b # j => before + Count(u, i, j) \in Cuts(u, a, b) /\ after >= 1
  <2> HAVE b # j
  <2>1. b \in j + 1 .. n
    BY <1>5
  <2>2. ~DigitAt(u, j + 1) /\ j + 1 < b /\ DigitAt(u, j + 2)
    BY <1>5, <1>6, <1>8, <2>1, MarkAfter
  <2>3. j + 1 \in a .. b /\ j + 1 \in Int /\ j + 2 \in j + 1 .. b /\ a <= j + 1
    BY <1>5, <2>2
  <2>4. Count(u, a, j + 1) \in Cuts(u, a, b)
    BY <2>2, <2>3 DEF Cuts, Count
  <2>5. Count(u, a, j + 1) = Count(u, a, j)
    <3>1. DigitsOf(u, a, j) \in Seq(0 .. 9) /\ DigitsOf(u, a, j + 1) = DigitsOf(u, a, j) \o Piece(u, j + 1)
      BY <1>5, <2>3, DigitsGrow
    <3>2. Piece(u, j + 1) = <<>>
      BY <2>2 DEF Piece
    <3> QED BY <3>1, <3>2, ConcatEmptySeq DEF Count
  <2>6. after >= 1
    BY <1>5, <2>2, <2>3, CountThere
  <2> QED BY <1>9, <2>4, <2>5, <2>6
<1>13. a # i => before \in Cuts(u, a, b) /\ before >= 1
  <2> HAVE a # i
  <2>1. a \in 1 .. i - 1
    BY <1>5
  <2>2. ~DigitAt(u, i - 1) /\ a < i - 1 /\ DigitAt(u, i - 2)
    BY <1>5, <1>6, <1>8, <2>1, MarkBefore
  <2>3. i - 1 \in a .. b /\ i - 1 \in Int /\ i - 2 \in a .. i - 1
    BY <1>5, <2>2
  <2>4. before \in Cuts(u, a, b)
    BY <2>2, <2>3 DEF Cuts, Count
  <2>5. before >= 1
    BY <1>5, <2>2, <2>3, CountThere
  <2> QED BY <2>4, <2>5
<1> HIDE DEF before, after
<1>14. CASE Count(u, a, b) = 10 /\ Cuts(u, a, b) \subseteq {3, 6}
  <2>1. a # i => before \in {3, 6}
    BY <1>13, <1>14
  <2>2. b # j => before + Count(u, i, j) \in {3, 6}
    BY <1>12, <1>14
  <2> QED BY <1>7, <1>9, <1>10, <1>11, <1>14, <2>1, <2>2
<1>15. CASE Count(u, a, b) = 11 /\ Cuts(u, a, b) \subseteq {1, 4, 7}
  <2>1. a # i => before \in {1, 4, 7}
    BY <1>13, <1>15
  <2>2. b # j => before + Count(u, i, j) \in {1, 4, 7}
    BY <1>12, <1>15
  <2> QED BY <1>7, <1>9, <1>10, <1>11, <1>15, <2>1, <2>2
<1> QED BY <1>6, <1>14, <1>15

\* A number that stands alone is a run of digits, and taken for what it is.
LEMMA AloneIsFound ==
  ASSUME NEW u, NEW n \in Nat, DOMAIN u = 1 .. n, Len(u) = n, NEW i \in 1 .. n, NEW j \in i .. n, Alone(u, i, j)
  PROVE  \E s \in DigitRuns(u) : s = Span(i, j, s.label, s.conf) /\ s.label \in Numbers
<1> DEFINE end == [k \in DOMAIN u |-> DigitRunEnd(u, k)]
           cands(k) == {l \in k .. Len(u) : /\ DigitAt(u, k) /\ DigitAt(u, l) /\ Apart(u, k, l)
                                            /\ \A m \in k .. l : Spaced(u, m)
                                            /\ Chars(u, k, l) >= 7}
<1>0. /\ Solitary(u, i, j) /\ Apart(u, i, j) /\ DigitAt(u, i) /\ DigitAt(u, j) /\ \A k \in i .. j : Spaced(u, k)
      /\ Count(u, i, j) \in {9, 15, 16} /\ ~DateShaped(u, i, j) /\ ~Business(u, i, j)
  <2>1. Grouped(u, i, j, {" ", "-"})
    BY DEF Alone
  <2>2. \A k \in i .. j : Spaced(u, k)
    BY <2>1 DEF Grouped, Spaced
  <2> QED BY <2>1, <2>2, SecretsAssumption DEF Alone, Grouped, Count
<1>1. \A k \in 1 .. n : end[k] = Longest(cands(k)) /\ cands(k) \in SUBSET (1 .. n)
  <2> TAKE k \in 1 .. n
  <2>1. end[k] = Longest(cands(k))
    BY DEF DigitRunEnd, Spaced
  <2>2. cands(k) \in SUBSET (1 .. n)
    OBVIOUS
  <2> QED BY <2>1, <2>2
<1>2. \A k \in 1 .. n : (end[k] = 0 /\ cands(k) = {}) \/ (end[k] \in cands(k) /\ \A y \in cands(k) : y <= end[k])
  <2> HIDE DEF end, cands
  <2> QED BY <1>1, LongestIs
<1>3. AreEnds(end, n)
  <2>1. \A k \in 1 .. n : end[k] \in cands(k) => end[k] \in k .. n
    OBVIOUS
  <2>2. DOMAIN end = 1 .. n
    OBVIOUS
  <2> HIDE DEF end, cands
  <2> QED BY <1>2, <2>1, <2>2 DEF AreEnds
<1>4. Chars(u, i, j) >= 7
  <2>1. \A R \in SUBSET (i .. j) : Cardinality(R) \in Nat
    <3>1. IsFiniteSet(i .. j)
      BY FS_Interval
    <3> QED BY <3>1, FS_Subset, FS_CardinalityType
  <2>2. {k \in i .. j : ~DigitAt(u, k)} \in SUBSET (i .. j) /\ {k \in i .. j : u[k] = "  "} \in SUBSET (i .. j)
    OBVIOUS
  <2> DEFINE c == Cardinality({k \in i .. j : ~DigitAt(u, k)})
             d == Cardinality({k \in i .. j : u[k] = "  "})
  <2>3. c \in Nat /\ d \in Nat
    BY <2>1, <2>2
  <2>4. Chars(u, i, j) = Count(u, i, j) + c + d
    BY DEF Chars, Count
  <2> HIDE DEF c, d
  <2> QED BY <1>0, <2>3, <2>4
<1>5. j \in cands(i)
  BY <1>0, <1>4
<1>6. end[i] = j
  <2>1. end[i] \in cands(i) /\ j <= end[i] /\ i \in 1 .. n
    <3> HIDE DEF end, cands
    <3> QED BY <1>2, <1>5
  <2>2. ASSUME end[i] > j PROVE FALSE
    <3> DEFINE e == end[i]
    <3>1. e \in j + 1 .. n /\ DigitAt(u, e) /\ \A k \in j + 1 .. e : Spaced(u, k)
      <4>1. \A k \in i .. e : Spaced(u, k)
        BY <2>1
      <4>2. e \in i .. n /\ DigitAt(u, e) /\ e > j
        BY <2>1, <2>2
      <4> HIDE DEF e
      <4> QED BY <4>1, <4>2
    <3> HIDE DEF e
    <3> QED BY <1>0, <3>1, NoneAfter
  <2>3. end[i] \in Int
    BY <2>1
  <2> HIDE DEF end, cands
  <2> QED BY <2>1, <2>2, <2>3
<1>7. ASSUME NEW a \in 1 .. i - 1 PROVE end[a] < i
  <2>1. SUFFICES ASSUME end[a] \in cands(a), end[a] >= i PROVE FALSE
    <3>1. a \in 1 .. n /\ (end[a] \in cands(a) => end[a] \in Int)
      OBVIOUS
    <3> HIDE DEF end, cands
    <3> QED BY <1>2, <3>1
  <2>2. DigitAt(u, a) /\ \A k \in a .. end[a] : Spaced(u, k)
    BY <2>1
  <2>3. \A k \in a .. i - 1 : k \in a .. end[a]
    <3>1. end[a] \in Int
      BY <2>1
    <3> HIDE DEF end, cands
    <3> QED BY <2>1, <3>1
  <2> HIDE DEF end, cands
  <2> QED BY <1>0, <2>2, <2>3, NoneBefore
<1>8. <<i, j>> \in Matches(end)
  <2> HIDE DEF end, cands
  <2>1. end[i] # 0
    BY <1>6
  <2> QED BY <1>3, <1>6, <1>7, <2>1, MatchFound
<1>9. ~Owned(u, i, j)
  BY <1>0, NotInPhone DEF Owned
<1>10. Numbered(u, i, j) \in DigitRuns(u)
  <2> DEFINE runs == Matches(end)
  <2>1. <<i, j>> \in runs \ {m \in runs : DateShaped(u, m[1], m[2])}
    <3> HIDE DEF end
    <3> QED BY <1>0, <1>8
  <2>2. Len(DigitsOf(u, i, j)) \in 7 .. 19
    BY <1>0 DEF Count
  <2> HIDE DEF runs
  <2>3. Numbered(u, i, j) \in {Numbered(u, m[1], m[2]) :
             m \in {l \in runs \ {m \in runs : DateShaped(u, m[1], m[2])} :
                      Len(DigitsOf(u, l[1], l[2])) \in 7 .. 19 /\ ~Owned(u, l[1], l[2])}}
    BY <1>9, <2>1, <2>2
  <2> QED BY <2>3 DEF DigitRuns, runs
<1>11. /\ Numbered(u, i, j) = Span(i, j, Numbered(u, i, j).label, Numbered(u, i, j).conf)
       /\ Numbered(u, i, j).label \in Numbers
  <2>1. Len(DigitsOf(u, i, j)) \in {9, 15, 16}
    BY <1>0 DEF Count
  <2>2. CASE Len(DigitsOf(u, i, j)) = 9
    BY <2>2 DEF Numbered, Span, Numbers
  <2>3. CASE Len(DigitsOf(u, i, j)) \in {15, 16}
    BY <2>3 DEF Numbered, Span, Numbers
  <2> QED BY <2>1, <2>2, <2>3
<1> QED BY <1>10, <1>11

LEMMA TextIs ==
  ASSUME NEW t, IsText(t)
  PROVE  Len(t) \in Nat /\ DOMAIN t = 1 .. Len(t) /\ t = [i \in 1 .. Len(t) |-> t[i]]
BY LenProperties DEF IsText

LEMMA RowIsText ==
  ASSUME NEW n \in Nat, NEW s, DOMAIN s = 1 .. n, s = [i \in 1 .. n |-> s[i]]
  PROVE  IsText(s) /\ Len(s) = n /\ Evaluated(s) = s
<1>1. s \in [1 .. n -> ToSet(s)]
  BY DEF ToSet
<1>2. s \in Seq(ToSet(s)) /\ Len(s) = n
  BY <1>1
<1> QED BY <1>2, ConcatEmptySeq DEF IsText, Evaluated

LEMMA NormSepsIs ==
  ASSUME NEW t, IsText(t)
  PROVE  /\ IsText(NormSeps(t)) /\ Len(NormSeps(t)) = Len(t) /\ DOMAIN NormSeps(t) = 1 .. Len(t)
         /\ \A i \in 1 .. Len(t) : NormSeps(t)[i] = IF t[i] \in DOMAIN AsciiForm THEN AsciiForm[t[i]] ELSE t[i]
<1> DEFINE s == [i \in DOMAIN t |-> IF t[i] \in DOMAIN AsciiForm THEN AsciiForm[t[i]] ELSE t[i]]
<1>1. NormSeps(t) = Evaluated(s)
  BY DEF NormSeps
<1>2. Len(t) \in Nat /\ DOMAIN s = 1 .. Len(t) /\ s = [i \in 1 .. Len(t) |-> s[i]]
  BY TextIs
<1>3. IsText(s) /\ Len(s) = Len(t) /\ Evaluated(s) = s
  <2> HIDE DEF s
  <2> QED BY <1>2, RowIsText
<1> QED BY <1>1, <1>2, <1>3

\* The places of the atoms that are seen.
Visible(t) == {i \in DOMAIN t : t[i] \notin Invisible}

LEMMA CleanIs ==
  ASSUME NEW t, IsText(t)
  PROVE  /\ Lists(IdxMap(t), Visible(t)) /\ Visible(t) \in SUBSET (1 .. Len(t))
         /\ IsText(Clean(t)) /\ Len(Clean(t)) = Len(IdxMap(t)) /\ DOMAIN Clean(t) = DOMAIN IdxMap(t)
         /\ Len(IdxMap(t)) \in Nat /\ DOMAIN IdxMap(t) = 1 .. Len(IdxMap(t))
         /\ \A n \in DOMAIN IdxMap(t) : IdxMap(t)[n] \in 1 .. Len(t) /\ Clean(t)[n] = t[IdxMap(t)[n]]
<1> DEFINE idx == IdxMap(t)
           s == [n \in DOMAIN idx |-> t[idx[n]]]
<1>1. Len(t) \in Nat /\ Visible(t) \in SUBSET (1 .. Len(t))
  BY TextIs DEF Visible
<1>2. Lists(idx, Visible(t))
  <2>1. idx = Ascending(Visible(t))
    BY DEF IdxMap, Visible
  <2> HIDE DEF idx
  <2> QED BY <1>1, <2>1, AscendingLists
<1> HIDE DEF idx
<1>3. idx \in Seq(Visible(t)) /\ Len(idx) \in Nat /\ DOMAIN idx = 1 .. Len(idx) /\ \A n \in DOMAIN idx : idx[n] \in Visible(t)
  BY <1>2 DEF Lists
<1>4. DOMAIN s = 1 .. Len(idx) /\ s = [n \in 1 .. Len(idx) |-> s[n]]
  BY <1>3
<1>5. IsText(s) /\ Len(s) = Len(idx) /\ Evaluated(s) = s
  <2> HIDE DEF s
  <2> QED BY <1>3, <1>4, RowIsText
<1>6. Clean(t) = s
  <2>1. Clean(t) = Evaluated(s)
    BY DEF Clean, idx
  <2> QED BY <1>5, <2>1
<1>7. \A n \in DOMAIN idx : idx[n] \in 1 .. Len(t) /\ Clean(t)[n] = t[idx[n]]
  <2>1. \A n \in DOMAIN idx : s[n] = t[idx[n]]
    OBVIOUS
  <2> HIDE DEF s
  <2> QED BY <1>1, <1>3, <1>6, <2>1
<1>8. IsText(Clean(t)) /\ Len(Clean(t)) = Len(idx) /\ DOMAIN Clean(t) = DOMAIN idx
  <2> HIDE DEF s
  <2> QED BY <1>3, <1>4, <1>5, <1>6
<1> QED BY <1>1, <1>2, <1>3, <1>7, <1>8 DEF idx

\* A text with nothing to leave out is all there is to see.
LEMMA AllVisible ==
  ASSUME NEW t, IsText(t), ~HasFormatChars(t)
  PROVE  Clean(t) = t /\ IdxMap(t) = [n \in 1 .. Len(t) |-> n]
<1>1. Len(t) \in Nat /\ DOMAIN t = 1 .. Len(t) /\ t = [i \in 1 .. Len(t) |-> t[i]]
  BY TextIs
<1>2. {i \in DOMAIN t : t[i] \notin Invisible} = 1 .. Len(t)
  BY <1>1 DEF HasFormatChars
<1>3. IdxMap(t) = [n \in 1 .. Len(t) |-> n]
  BY <1>1, <1>2, AscendingRow DEF IdxMap
<1>4. DOMAIN Clean(t) = 1 .. Len(t) /\ IsText(Clean(t)) /\ Len(Clean(t)) = Len(t) /\ \A n \in 1 .. Len(t) : Clean(t)[n] = t[n]
  <2>1. DOMAIN IdxMap(t) = 1 .. Len(t) /\ \A n \in 1 .. Len(t) : IdxMap(t)[n] = n
    BY <1>3
  <2>2. IsText(Clean(t)) /\ DOMAIN Clean(t) = DOMAIN IdxMap(t) /\ \A n \in DOMAIN IdxMap(t) : Clean(t)[n] = t[IdxMap(t)[n]]
    BY CleanIs
  <2>3. Len(Clean(t)) = Len(t)
    <3>1. DOMAIN Clean(t) = 1 .. Len(Clean(t)) /\ Len(Clean(t)) \in Nat
      BY <2>2, TextIs
    <3> QED BY <1>1, <2>1, <2>2, <3>1
  <2> QED BY <2>1, <2>2, <2>3
<1>5. Clean(t) = t
  <2>1. Clean(t) = [i \in 1 .. Len(Clean(t)) |-> Clean(t)[i]]
    BY <1>4, TextIs
  <2> QED BY <1>1, <1>4, <2>1
<1> QED BY <1>3, <1>5

\* What a view of a text is.
LEMMA ViewIs ==
  ASSUME NEW t, IsText(t), NEW v \in Views(t)
  PROVE  \/ v.text = NormSeps(t) /\ v.at = [i \in 1 .. Len(t) |-> i]
         \/ /\ v.text = NormSeps(Clean(t)) /\ v.at = IdxMap(t)
            /\ HasFormatChars(t)
<1>1. CASE v = [text |-> NormSeps(t), at |-> Evaluated([i \in DOMAIN t |-> i])]
  <2> DEFINE s == [i \in DOMAIN t |-> i]
  <2>1. Len(t) \in Nat /\ DOMAIN s = 1 .. Len(t) /\ s = [i \in 1 .. Len(t) |-> s[i]] /\ s = [i \in 1 .. Len(t) |-> i]
    BY TextIs
  <2>2. v.text = NormSeps(t) /\ v.at = Evaluated(s)
    BY <1>1
  <2> HIDE DEF s
  <2>3. Evaluated(s) = s
    BY <2>1, RowIsText
  <2> QED BY <2>1, <2>2, <2>3
<1>2. CASE v = [text |-> NormSeps(Clean(t)), at |-> IdxMap(t)]
  <2>1. v.text = NormSeps(Clean(t)) /\ v.at = IdxMap(t)
    BY <1>2
  <2> QED BY <2>1, AllVisible
<1> QED BY <1>1, <1>2 DEF Views

LEMMA AloneInIs ==
  ASSUME NEW u, IsText(u), NEW p \in AloneIn(u)
  PROVE  p[1] \in 1 .. Len(u) /\ p[2] \in p[1] .. Len(u) /\ Alone(u, p[1], p[2])
<1>1. /\ p[1] \in DOMAIN u /\ p[2] \in DOMAIN u /\ p[1] <= p[2] /\ Alone(u, p[1], p[2])
  BY DEF AloneIn
<1>2. DOMAIN u = 1 .. Len(u) /\ Len(u) \in Nat
  BY TextIs
<1> QED BY <1>1, <1>2

LEMMA Tier0Finds ==
  ASSUME NEW t, IsText(t), NEW v \in Views(t), NEW p \in AloneIn(v.text)
  PROVE  Covered(<<v.at[p[1]], v.at[p[2]]>>, Tier0Spans(t), Numbers)
<1>1. CASE v.text = NormSeps(t) /\ v.at = [i \in 1 .. Len(t) |-> i]
  <2> DEFINE u == NormSeps(t)
  <2>1. IsText(u) /\ Len(u) = Len(t) /\ Len(u) \in Nat /\ DOMAIN u = 1 .. Len(u)
    BY NormSepsIs, TextIs
  <2>2. p \in AloneIn(u)
    BY <1>1
  <2> HIDE DEF u
  <2>3. p[1] \in 1 .. Len(u) /\ p[2] \in p[1] .. Len(u) /\ Alone(u, p[1], p[2])
    BY <2>1, <2>2, AloneInIs
  <2>4. PICK s \in DigitRuns(u) : s = Span(p[1], p[2], s.label, s.conf) /\ s.label \in Numbers
    BY <2>1, <2>3, AloneIsFound
  <2>a. s.from = p[1] /\ s.to = p[2]
    BY <2>4 DEF Span
  <2>5. s \in Tier0Spans(t)
    BY <2>4 DEF Tier0Spans, ScanOnce, u
  <2>6. p[1] \in 1 .. Len(t) /\ p[2] \in 1 .. Len(t)
    BY <2>1, <2>3
  <2>7. v.at[p[1]] = p[1] /\ v.at[p[2]] = p[2]
    BY <1>1, <2>6
  <2> QED BY <2>a, <2>4, <2>5, <2>6, <2>7 DEF Covered
<1>2. CASE v.text = NormSeps(Clean(t)) /\ v.at = IdxMap(t) /\ HasFormatChars(t)
  <2> DEFINE c == Clean(t)
             u == NormSeps(c)
  <2>0. IsText(c) /\ Len(c) = Len(IdxMap(t)) /\ DOMAIN IdxMap(t) = 1 .. Len(IdxMap(t))
    BY CleanIs
  <2>1. IsText(u) /\ Len(u) = Len(c) /\ Len(u) \in Nat /\ DOMAIN u = 1 .. Len(u)
    <3> HIDE DEF c
    <3> QED BY <2>0, NormSepsIs, TextIs
  <2>2. p \in AloneIn(u)
    BY <1>2
  <2> HIDE DEF u
  <2>3. p[1] \in 1 .. Len(u) /\ p[2] \in p[1] .. Len(u) /\ Alone(u, p[1], p[2])
    BY <2>1, <2>2, AloneInIs
  <2>4. PICK s \in DigitRuns(u) : s = Span(p[1], p[2], s.label, s.conf) /\ s.label \in Numbers
    BY <2>1, <2>3, AloneIsFound
  <2>a. s.from = p[1] /\ s.to = p[2]
    BY <2>4 DEF Span
  <2>5. Clean(t) # <<>>
    <3>1. Len(c) # 0
      BY <2>1, <2>3
    <3> QED BY <3>1
  <2>6. s \in ScanOnce(Clean(t))
    BY <2>4 DEF ScanOnce, u
  <2>7. MappedBack(s, IdxMap(t)) \in Tier0Spans(t)
    BY <1>2, <2>5, <2>6 DEF Tier0Spans
  <2> DEFINE m == MappedBack(s, IdxMap(t))
  <2>8. m.from = IdxMap(t)[p[1]] /\ m.to = IdxMap(t)[p[2]] /\ m.label = s.label
    BY <2>a, <2>4 DEF MappedBack, Span
  <2>9. IdxMap(t)[p[1]] \in Int /\ IdxMap(t)[p[2]] \in Int
    <3>1. p[1] \in DOMAIN IdxMap(t) /\ p[2] \in DOMAIN IdxMap(t)
      BY <2>0, <2>1, <2>3
    <3>2. \A n \in DOMAIN IdxMap(t) : IdxMap(t)[n] \in 1 .. Len(t)
      BY CleanIs
    <3> QED BY <3>1, <3>2
  <2> HIDE DEF m
  <2>10. m \in Tier0Spans(t)
    BY <2>7 DEF m
  <2> QED BY <1>2, <2>4, <2>8, <2>9, <2>10 DEF Covered
<1> QED BY <1>1, <1>2, ViewIs

\* What a scan of the egress path found is what its floor finds, and what the
\* browser found what its port of the floor does.
ScanInv ==
  scan # <<>> => /\ scan.text \in LocalTexts
                 /\ scan = [who |-> scan.who, text |-> scan.text, spans |-> scan.spans]
                 /\ scan.who = "appliance" => scan.spans = Tier0Spans(scan.text)
                 /\ scan.who = "browser" => scan.spans = BrowserSpans(scan.text)

LEMMA Scans == Spec => []ScanInv
<1>1. Init => ScanInv
  BY DEF Init, ScanInv
<1>2. ScanInv /\ [Next]_vars => ScanInv'
  <2> SUFFICES ASSUME ScanInv, [Next]_vars PROVE ScanInv'
    OBVIOUS
  <2>1. ASSUME NEW t \in LocalTexts, Open(t) PROVE ScanInv'
    <3>1. scan' = [who |-> "nobody", text |-> t, spans |-> {}]
      BY <2>1 DEF Open
    <3>2. scan'.who = "nobody" /\ scan'.text = t /\ scan'.spans = {}
      BY <3>1
    <3> QED BY <3>1, <3>2 DEF ScanInv
  <2>2. CASE BrowserScan
    <3>1. /\ scan.text \in LocalTexts
          /\ scan' = [who |-> "browser", text |-> scan.text, spans |-> BrowserSpans(scan.text)]
      BY <2>2 DEF BrowserScan, ScanInv
    <3>2. scan'.who = "browser" /\ scan'.text = scan.text /\ scan'.spans = BrowserSpans(scan.text)
      BY <3>1
    <3> QED BY <3>1, <3>2 DEF ScanInv
  <2>3. CASE ApplianceScan
    <3>1. /\ scan.text \in LocalTexts
          /\ scan' = [who |-> "appliance", text |-> scan.text, spans |-> Tier0Spans(scan.text)]
      BY <2>3 DEF ApplianceScan, ScanInv
    <3>2. scan'.who = "appliance" /\ scan'.text = scan.text /\ scan'.spans = Tier0Spans(scan.text)
      BY <3>1
    <3> QED BY <3>1, <3>2 DEF ScanInv
  <2>4. CASE Close
    BY <2>4 DEF Close, ScanInv
  <2>5. CASE UNCHANGED scan
    BY <2>5 DEF ScanInv
  <2> QED BY <2>1, <2>2, <2>3, <2>4, <2>5 DEF Next, vars
<1> QED BY <1>1, <1>2, PTL DEF Spec

\* No dress hides a number: what NumbersFound says, for every text and whatever
\* atoms are digits, spaces, dashes and invisible.
THEOREM Finds == Spec => []NumbersFound
<1>1. ScanInv => NumbersFound
  BY LocalTextAssumption, Tier0Finds DEF ScanInv, NumbersFound
<1> QED BY <1>1, Scans, PTL

-----------------------------------------------------------------------------
(* What the gate knows of a text without the model *)

\* The spans of a text of n atoms.
SpansOf(n) == {s \in [from : 1 .. n, to : 1 .. n, label : Labels, conf : 0 .. 100] : s.from <= s.to}

LEMMA SpanType ==
  ASSUME NEW n \in Nat, NEW i \in 1 .. n, NEW j \in i .. n, NEW l \in Labels, NEW c \in 0 .. 100
  PROVE  Span(i, j, l, c) \in SpansOf(n)
BY DEF Span, SpansOf

LEMMA SpansOfIs ==
  ASSUME NEW n \in Nat, NEW s \in SpansOf(n)
  PROVE  /\ s.from \in 1 .. n /\ s.to \in s.from .. n /\ s.to \in 1 .. n /\ s.from <= s.to
         /\ s.label \in Labels /\ s.conf \in 0 .. 100
         /\ s = Span(s.from, s.to, s.label, s.conf)
BY DEF SpansOf, Span

\* Ends that are the longest choice among what follows.
LEMMA EndsAre ==
  ASSUME NEW t, IsText(t), NEW end, DOMAIN end = DOMAIN t,
         \A i \in DOMAIN t : \E C \in SUBSET (i .. Len(t)) : end[i] = Longest(C)
  PROVE  AreEnds(end, Len(t)) /\ Len(t) \in Nat
<1>1. Len(t) \in Nat /\ DOMAIN t = 1 .. Len(t)
  BY TextIs
<1>2. ASSUME NEW i \in 1 .. Len(t) PROVE end[i] = 0 \/ end[i] \in i .. Len(t)
  <2>1. PICK C \in SUBSET (i .. Len(t)) : end[i] = Longest(C)
    BY <1>1
  <2>2. C \in SUBSET (1 .. Len(t))
    BY <1>1, <2>1
  <2> QED BY <1>1, <2>1, <2>2, LongestIs
<1> QED BY <1>1, <1>2 DEF AreEnds

LEMMA MatchSpans ==
  ASSUME NEW t, IsText(t), NEW end, DOMAIN end = DOMAIN t,
         \A i \in DOMAIN t : \E C \in SUBSET (i .. Len(t)) : end[i] = Longest(C),
         NEW m \in Matches(end), NEW l \in Labels, NEW c \in 0 .. 100
  PROVE  Span(m[1], m[2], l, c) \in SpansOf(Len(t))
<1>1. AreEnds(end, Len(t)) /\ Len(t) \in Nat
  BY EndsAre
<1>2. m[1] \in 1 .. Len(t) /\ m[2] \in m[1] .. Len(t)
  BY <1>1, MatchesAre
<1> QED BY <1>1, <1>2, SpanType

LEMMA FloorLabelsKnown ==
  /\ "payment_card" \in Labels /\ "government_id" \in Labels /\ "date_of_birth" \in Labels /\ "person" \in Labels
  /\ \A a \in DOMAIN Shapes : Shapes[a].label \in Labels
  /\ \A r \in SecretCues \cup NumberCues : r.label \in Labels
BY DEF Labels

LEMMA ShapedTyped ==
  ASSUME NEW t, IsText(t), NEW labels
  PROVE  Shaped(t, labels) \subseteq SpansOf(Len(t))
<1>1. Len(t) \in Nat /\ DOMAIN t = 1 .. Len(t)
  BY TextIs
<1>2. ASSUME NEW i \in DOMAIN t, t[i] \in DOMAIN Shapes
      PROVE  Span(i, i, Shapes[t[i]].label, Shapes[t[i]].conf) \in SpansOf(Len(t))
  <2>1. i \in 1 .. Len(t) /\ i \in i .. Len(t)
    BY <1>1
  <2>2. Shapes[t[i]].label \in Labels /\ Shapes[t[i]].conf \in 0 .. 100
    BY <1>2, FloorLabelsKnown, ShapesAssumption
  <2> QED BY <1>1, <2>1, <2>2, SpanType
<1> QED BY <1>2 DEF Shaped

LEMMA CandsTyped ==
  ASSUME NEW t, IsText(t)
  PROVE  CardCands(t) \subseteq SpansOf(Len(t)) /\ SinCands(t) \subseteq SpansOf(Len(t))
<1> DEFINE cards == [i \in DOMAIN t |-> CardCandEnd(t, i)]
           sins == [i \in DOMAIN t |-> SinCandEnd(t, i)]
<1>1. \A i \in DOMAIN t : \E C \in SUBSET (i .. Len(t)) : cards[i] = Longest(C)
  BY DEF CardCandEnd
<1>2. \A i \in DOMAIN t : \E C \in SUBSET (i .. Len(t)) : sins[i] = Longest(C)
  BY DEF SinCandEnd
<1>3. DOMAIN cards = DOMAIN t /\ DOMAIN sins = DOMAIN t /\ 97 \in 0 .. 100 /\ 90 \in 0 .. 100
  OBVIOUS
<1>4. /\ \A s \in CardCands(t) : \E m \in Matches(cards) : s = Span(m[1], m[2], "payment_card", 97)
      /\ \A s \in SinCands(t) : \E m \in Matches(sins) : s = Span(m[1], m[2], "government_id", 90)
  BY DEF CardCands, SinCands
<1> HIDE DEF cards, sins
<1> QED BY <1>1, <1>2, <1>3, <1>4, FloorLabelsKnown, MatchSpans

LEMMA GluedTyped ==
  ASSUME NEW t, IsText(t)
  PROVE  GluedDigits(t) \subseteq SpansOf(Len(t)) /\ SeparatedCards(t) \subseteq SpansOf(Len(t))
<1> DEFINE glued == [i \in DOMAIN t |-> GluedDigitEnd(t, i)]
           cards == [i \in DOMAIN t |-> SepCardEnd(t, i)]
           ssns == [i \in DOMAIN t |-> DotSsnEnd(t, i)]
<1>1. \A i \in DOMAIN t : \E C \in SUBSET (i .. Len(t)) : glued[i] = Longest(C)
  BY DEF GluedDigitEnd
<1>2. \A i \in DOMAIN t : \E C \in SUBSET (i .. Len(t)) : cards[i] = Longest(C)
  BY DEF SepCardEnd
<1>3. \A i \in DOMAIN t : \E C \in SUBSET (i .. Len(t)) : ssns[i] = Longest(C)
  BY DEF DotSsnEnd
<1>4. /\ DOMAIN glued = DOMAIN t /\ DOMAIN cards = DOMAIN t /\ DOMAIN ssns = DOMAIN t
      /\ 80 \in 0 .. 100 /\ 95 \in 0 .. 100
  OBVIOUS
<1>5. /\ \A s \in GluedDigits(t) : \E m \in Matches(glued) : s = Span(m[1], m[2], "government_id", 80)
      /\ \A s \in SeparatedCards(t) : \/ \E m \in Matches(cards) : s = Span(m[1], m[2], "payment_card", 95)
                                      \/ \E m \in Matches(ssns) : s = Span(m[1], m[2], "government_id", 80)
  BY DEF GluedDigits, SeparatedCards
<1> HIDE DEF glued, cards, ssns
<1>6. \A s \in GluedDigits(t) : s \in SpansOf(Len(t))
  BY <1>1, <1>4, <1>5, FloorLabelsKnown, MatchSpans
<1>7. \A s \in SeparatedCards(t) : s \in SpansOf(Len(t))
  <2> TAKE s \in SeparatedCards(t)
  <2>1. ASSUME NEW m \in Matches(cards), s = Span(m[1], m[2], "payment_card", 95) PROVE s \in SpansOf(Len(t))
    BY <1>2, <1>4, <2>1, FloorLabelsKnown, MatchSpans
  <2>2. ASSUME NEW m \in Matches(ssns), s = Span(m[1], m[2], "government_id", 80) PROVE s \in SpansOf(Len(t))
    BY <1>3, <1>4, <2>2, FloorLabelsKnown, MatchSpans
  <2> QED BY <1>5, <2>1, <2>2
<1> QED BY <1>6, <1>7

LEMMA DigitsNone ==
  ASSUME NEW t, NEW i \in Int, NEW j \in Int, j < i
  PROVE  DigitsOf(t, i, j) = <<>>
<1>1. 1 .. (j + 1 - i) = {}
  OBVIOUS
<1>2. [k \in {} |-> IF DigitAt(t, i + k - 1) THEN Digits[t[i + k - 1]] ELSE <<>>] = <<>>
  OBVIOUS
<1>3. FlattenSeq(<<>>) = <<>>
  BY DEF FlattenSeq
<1> QED BY <1>1, <1>2, <1>3 DEF DigitsOf

LEMMA CardAuxTyped ==
  ASSUME NEW t, IsText(t)
  PROVE  CardAuxSpans(t) \subseteq SpansOf(Len(t))
<1>1. Len(t) \in Nat /\ DOMAIN t = 1 .. Len(t)
  BY TextIs
<1>2. ASSUME NEW r \in SecretCues, NEW i \in DOMAIN t, NEW j \in DOMAIN t, CountIn(t, i, j, r)
      PROVE  Span(i, j, r.label, 90) \in SpansOf(Len(t))
  <2>1. r.least \in Nat \ {0} /\ r.most \in Nat
    BY CueAssumption
  <2>2. Len(DigitsOf(t, i, j)) # 0
    BY <1>2, <2>1 DEF CountIn
  <2>3. i \in 1 .. Len(t) /\ j \in 1 .. Len(t) /\ i \in Int /\ j \in Int
    BY <1>1
  <2>4. ~(j < i)
    <3>1. Len(<<>>) = 0
      OBVIOUS
    <3> QED BY <2>2, <2>3, <3>1, DigitsNone
  <2>5. j \in i .. Len(t) /\ 90 \in 0 .. 100
    BY <2>3, <2>4
  <2> QED BY <1>1, <2>3, <2>5, FloorLabelsKnown, SpanType
<1>3. ASSUME NEW s \in CardAuxSpans(t) PROVE s \in SpansOf(Len(t))
  <2>1. PICK r \in SecretCues :
          s \in {Span(m[2], m[3], r.label, 90) :
                  m \in {n \in {c \in DOMAIN t : t[c] \in r.cues} \X (DOMAIN t) \X (DOMAIN t) :
                     /\ Announced(t, n[1], n[2], Blank \cup LineEnds \cup {"\""}, {":", "=", "#", "-"})
                     /\ Grouped(t, n[2], n[3], {}) /\ CountIn(t, n[2], n[3], r) /\ ~DigitAt(t, n[3] + 1)}}
    BY <1>3 DEF CardAuxSpans
  <2>2. \E i \in DOMAIN t, j \in DOMAIN t : CountIn(t, i, j, r) /\ s = Span(i, j, r.label, 90)
    BY <2>1
  <2> QED BY <1>2, <2>2
<1> QED BY <1>3

LEMMA CueDigitsTyped ==
  ASSUME NEW t, IsText(t)
  PROVE  CueDigitSpans(t) \subseteq SpansOf(Len(t))
<1>1. Len(t) \in Nat /\ DOMAIN t = 1 .. Len(t)
  BY TextIs
<1>2. ASSUME NEW r \in NumberCues, NEW s \in CueNumbers(t, r) PROVE s \in SpansOf(Len(t))
  <2> DEFINE cands(i) == {j \in i .. Len(t) : Grouped(t, i, j, {" ", "-"}) /\ CountIn(t, i, j, r)}
             end(i) == Longest(cands(i))
  <2>1. PICK i \in DOMAIN t : end(i) > 0 /\ s = Span(i, end(i), r.label, 92)
    BY <1>2 DEF CueNumbers
  <2>2. i \in 1 .. Len(t) /\ cands(i) \in SUBSET (1 .. Len(t)) /\ cands(i) \in SUBSET (i .. Len(t))
    <3>1. i \in 1 .. Len(t) /\ i .. Len(t) \subseteq 1 .. Len(t)
      BY <1>1
    <3> QED BY <3>1, Zenon
  <2>3. end(i) = 0 \/ end(i) \in cands(i)
    <3> HIDE DEF cands
    <3> QED BY <1>1, <2>2, LongestIs
  <2>4. end(i) \in i .. Len(t) /\ 92 \in 0 .. 100
    <3> HIDE DEF cands
    <3> QED BY <2>1, <2>2, <2>3
  <2> HIDE DEF end
  <2> QED BY <1>1, <2>1, <2>2, <2>4, FloorLabelsKnown, SpanType
<1>3. ASSUME NEW s \in CueDates(t) PROVE s \in SpansOf(Len(t))
  <2>1. PICK i \in DOMAIN t : s = Span(i, i, "date_of_birth", 92)
    BY <1>3 DEF CueDates
  <2>2. i \in 1 .. Len(t) /\ i \in i .. Len(t) /\ 92 \in 0 .. 100
    BY <1>1
  <2> QED BY <1>1, <2>1, <2>2, FloorLabelsKnown, SpanType
<1> QED BY <1>2, <1>3 DEF CueDigitSpans

-----------------------------------------------------------------------------
(* Folds *)

\* A fold over a finite set that stays among X.
FoldStays(S, X, b, pick, step) ==
  \E f \in [SUBSET S -> X] :
    \A R \in SUBSET S : f[R] = IF R = {} THEN b ELSE step[<<f[R \ {pick[R]}], pick[R]>>]

LEMMA FoldExists ==
  ASSUME NEW S, IsFiniteSet(S), NEW X, NEW b \in X,
         NEW pick, \A R \in SUBSET S : R # {} => pick[R] \in R,
         NEW step, \A x \in X, s \in S : step[<<x, s>>] \in X
  PROVE  FoldStays(S, X, b, pick, step)
<1> DEFINE Upto(k) == {R \in SUBSET S : Cardinality(R) <= k}
           Value(f, R) == IF R = {} THEN b ELSE step[<<f[R \ {pick[R]}], pick[R]>>]
           Solves(f, k) == f \in [Upto(k) -> X] /\ \A R \in Upto(k) : f[R] = Value(f, R)
           G == {k \in Nat : \E f : Solves(f, k)}
<1>1. \A R \in SUBSET S : IsFiniteSet(R) /\ Cardinality(R) \in Nat /\ (Cardinality(R) = 0 <=> R = {})
  BY FS_Subset, FS_CardinalityType, FS_EmptySet
<1>2. \A R \in SUBSET S, k \in Nat : Cardinality(R) <= k + 1 /\ R # {}
                                      => R \ {pick[R]} \in Upto(k) /\ pick[R] \in S
  <2> TAKE R \in SUBSET S, k \in Nat
  <2> HAVE Cardinality(R) <= k + 1 /\ R # {}
  <2>1. Cardinality(R \ {pick[R]}) = Cardinality(R) - 1
    BY <1>1, FS_RemoveElement
  <2> QED BY <1>1, <2>1
<1>3. 0 \in G
  <2>1. \A R \in Upto(0) : R = {}
    BY <1>1
  <2>2. Solves([R \in Upto(0) |-> b], 0)
    BY <2>1
  <2> QED BY <2>2
<1>4. ASSUME NEW k \in Nat, k \in G PROVE k + 1 \in G
  <2>1. PICK g : Solves(g, k)
    BY <1>4
  <2> DEFINE f == [R \in Upto(k + 1) |-> IF R \in Upto(k) THEN g[R] ELSE Value(g, R)]
  <2>2. ASSUME NEW R \in Upto(k + 1) PROVE Value(f, R) = Value(g, R) /\ f[R] = Value(g, R) /\ f[R] \in X
    <3>1. R # {} => R \ {pick[R]} \in Upto(k) /\ R \ {pick[R]} \in Upto(k + 1) /\ pick[R] \in S
      BY <1>1, <1>2
    <3>2. R # {} => f[R \ {pick[R]}] = g[R \ {pick[R]}] /\ g[R \ {pick[R]}] \in X
      BY <2>1, <3>1
    <3>3. Value(g, R) \in X /\ Value(f, R) = Value(g, R)
      <4> HIDE DEF f, Upto
      <4> QED BY <3>1, <3>2
    <3>4. R \in Upto(k) => g[R] = Value(g, R)
      BY <2>1
    <3> HIDE DEF Value, Solves
    <3> QED BY <3>3, <3>4
  <2>3. f \in [Upto(k + 1) -> X]
    <3> HIDE DEF Upto, Value
    <3> QED BY <2>2
  <2>4. Solves(f, k + 1)
    <3> HIDE DEF f, Upto, Value
    <3> QED BY <2>2, <2>3
  <2> HIDE DEF Solves
  <2> QED BY <2>4
<1>5. \A k \in Nat : k \in G
  <2> HIDE DEF G
  <2> QED BY <1>3, <1>4, AllNumbers
<1>6. PICK f : Solves(f, Cardinality(S))
  BY <1>1, <1>5
<1>7. Upto(Cardinality(S)) = SUBSET S
  BY FS_Subset
<1> QED BY <1>6, <1>7 DEF FoldStays

\* A fold over a list, from the first to the last.
LeftFolds(n, X, b, step) ==
  \E f \in [SUBSET (1 .. n) -> X] :
    \A R \in SUBSET (1 .. n) : f[R] = IF R = {} THEN b ELSE step[<<f[R \ {Max(R)}], Max(R)>>]

LEMMA LeftFoldExists ==
  ASSUME NEW n \in Nat, NEW X, NEW b \in X, NEW step, \A x \in X, i \in 1 .. n : step[<<x, i>>] \in X
  PROVE  LeftFolds(n, X, b, step)
<1> DEFINE pick == [R \in SUBSET (1 .. n) |-> Max(R)]
<1>1. \A R \in SUBSET (1 .. n) : R # {} => pick[R] \in R
  <2>1. \A R \in SUBSET (1 .. n) : R \in SUBSET (0 .. n)
    OBVIOUS
  <2> QED BY <2>1, MaxIsLargest
<1>2. IsFiniteSet(1 .. n)
  BY FS_Interval
<1>3. \A R \in SUBSET (1 .. n) : pick[R] = Max(R)
  OBVIOUS
<1> HIDE DEF pick
<1>4. FoldStays(1 .. n, X, b, pick, step)
  BY <1>1, <1>2, FoldExists
<1> QED BY <1>3, <1>4 DEF FoldStays, LeftFolds

\* A fold over a list as a walk along it.
Walks(m, X, b, step, g) ==
  /\ g \in [0 .. m -> X] /\ g[0] = b
  /\ \A k \in 1 .. m : g[k] = step[<<g[k - 1], k>>]

WalksTo(m, X, b, step, x) == \E g : Walks(m, X, b, step, g) /\ g[m] = x

LEMMA FoldWalks ==
  ASSUME NEW m \in Nat, NEW X, NEW b \in X, NEW step, \A x \in X, i \in 1 .. m : step[<<x, i>>] \in X,
         NEW iter, iter[{}] = b,
         \A R \in SUBSET (1 .. m) : R # {} /\ iter[R \ {Max(R)}] \in X
                                      => iter[R] = step[<<iter[R \ {Max(R)}], Max(R)>>]
  PROVE  WalksTo(m, X, b, step, iter[1 .. m])
<1> DEFINE g == [k \in 0 .. m |-> iter[1 .. k]]
           G == {k \in 0 .. m : g[k] \in X /\ (k # 0 => g[k] = step[<<g[k - 1], k>>])}
<1>1. g[0] = b
  <2>1. 1 .. 0 = {} /\ 0 \in 0 .. m
    OBVIOUS
  <2> QED BY <2>1
<1>2. ASSUME NEW k \in 1 .. m, g[k - 1] \in X PROVE g[k] = step[<<g[k - 1], k>>]
  <2>1. 1 .. k \in SUBSET (1 .. m) /\ 1 .. k # {} /\ (1 .. k) \ {k} = 1 .. k - 1 /\ k - 1 \in 0 .. m /\ k \in 0 .. m
    OBVIOUS
  <2>2. Max(1 .. k) = k
    <3>1. 1 .. k \in SUBSET (0 .. m)
      OBVIOUS
    <3>2. Max(1 .. k) \in 1 .. k /\ \A y \in 1 .. k : y <= Max(1 .. k)
      BY <2>1, <3>1, MaxIsLargest
    <3>3. k \in 1 .. k
      OBVIOUS
    <3> QED BY <3>2, <3>3
  <2>3. iter[1 .. k - 1] \in X
    BY <1>2, <2>1
  <2>4. iter[1 .. k] = step[<<iter[1 .. k - 1], k>>]
    BY <2>1, <2>2, <2>3
  <2> QED BY <2>1, <2>4
<1>3. ASSUME NEW k \in 0 .. m, \A j \in 0 .. k - 1 : j \in G PROVE k \in G
  <2>1. CASE k = 0
    BY <1>1, <2>1
  <2>2. CASE k # 0
    <3>1. k \in 1 .. m /\ k - 1 \in 0 .. k - 1
      BY <2>2
    <3>2. g[k - 1] \in X
      BY <1>3, <3>1
    <3> HIDE DEF g
    <3> QED BY <1>2, <3>1, <3>2
  <2> QED BY <2>1, <2>2
<1>4. \A k \in 0 .. m : k \in G
  <2>1. 0 \in Nat
    OBVIOUS
  <2> HIDE DEF G
  <2> QED BY <1>3, <2>1, Upwards
<1>5. g \in [0 .. m -> X]
  BY <1>4
<1>6. g[m] = iter[1 .. m]
  OBVIOUS
<1> HIDE DEF g
<1> QED BY <1>1, <1>4, <1>5, <1>6 DEF Walks, WalksTo

-----------------------------------------------------------------------------
(* Words and names *)

Pairs(n) == {p \in (1 .. n) \X (1 .. n) : p[1] <= p[2]}

LEMMA PairsIs ==
  ASSUME NEW n \in Nat, NEW p \in Pairs(n)
  PROVE  p[1] \in 1 .. n /\ p[2] \in 1 .. n /\ p[1] <= p[2] /\ p[2] \in p[1] .. n /\ p = <<p[1], p[2]>>
BY DEF Pairs

LEMMA RunsTyped ==
  ASSUME NEW t, Len(t) \in Nat, DOMAIN t = 1 .. Len(t), NEW a \in Int, NEW b \in Int, NEW stops
  PROVE  /\ Runs(t, a, b, stops) \in Seq(Pairs(Len(t)))
         /\ \A w \in ToSet(Runs(t, a, b, stops)) :
              w \in Pairs(Len(t)) /\ w[1] \in a .. b /\ w[2] \in a .. b /\ \A k \in w[1] .. w[2] : t[k] \notin stops
<1> DEFINE In(k) == k \in a .. b /\ t[k] \notin stops
           S == {k \in DOMAIN t : In(k) /\ ~In(k - 1)}
           first == Ascending(S)
           upto(i) == {j \in i .. Len(t) : \A k \in i .. j : In(k)}
           s == [n \in DOMAIN first |-> <<first[n], Max(upto(first[n]))>>]
<1>1. Lists(first, S) /\ Cardinality(S) \in Nat
  <2>1. S \in SUBSET (1 .. Len(t))
    OBVIOUS
  <2> HIDE DEF S
  <2> QED BY <2>1, AscendingLists
<1>2. ASSUME NEW i \in S
      PROVE  LET w == <<i, Max(upto(i))>>
             IN  w \in Pairs(Len(t)) /\ w[1] \in a .. b /\ w[2] \in a .. b /\ \A k \in w[1] .. w[2] : t[k] \notin stops
  <2>1. i \in 1 .. Len(t) /\ In(i)
    OBVIOUS
  <2>2. i \in upto(i)
    <3>1. i \in i .. Len(t) /\ \A k \in i .. i : k = i
      BY <2>1
    <3> HIDE DEF In
    <3> QED BY <2>1, <3>1
  <2>3. upto(i) \in SUBSET (0 .. Len(t)) /\ upto(i) # {}
    <3>1. i .. Len(t) \subseteq 0 .. Len(t)
      BY <2>1
    <3> QED BY <2>2, <3>1, Zenon
  <2> DEFINE e == Max(upto(i))
  <2>4. e \in upto(i)
    <3> HIDE DEF upto
    <3> QED BY <2>3, MaxIsLargest
  <2> HIDE DEF e
  <2>5. e \in i .. Len(t) /\ (\A k \in i .. e : In(k)) /\ e \in i .. e
    BY <2>1, <2>4
  <2>6. <<i, e>> \in Pairs(Len(t))
    BY <2>1, <2>5 DEF Pairs
  <2>7. i \in a .. b /\ e \in a .. b /\ \A k \in i .. e : t[k] \notin stops
    BY <2>1, <2>5
  <2> QED BY <2>6, <2>7 DEF e
<1> HIDE DEF upto
<1>3. DOMAIN s = 1 .. Cardinality(S) /\ s = [n \in 1 .. Cardinality(S) |-> s[n]]
  BY <1>1 DEF Lists
<1>4. \A n \in DOMAIN s : \E i \in S : s[n] = <<i, Max(upto(i))>>
  <2>1. \A n \in DOMAIN first : first[n] \in S
    BY <1>1 DEF Lists
  <2> HIDE DEF S, first
  <2> QED BY <2>1
<1>5. Runs(t, a, b, stops) = Evaluated(s)
  BY DEF Runs, upto
<1> HIDE DEF s, S, first, In
<1>6. Evaluated(s) = s /\ IsText(s) /\ Len(s) = Cardinality(S)
  BY <1>1, <1>3, RowIsText
<1>7. \A w \in ToSet(s) : w \in Pairs(Len(t)) /\ w[1] \in a .. b /\ w[2] \in a .. b /\ \A k \in w[1] .. w[2] : t[k] \notin stops
  <2> TAKE w \in ToSet(s)
  <2>1. PICK i \in S : w = <<i, Max(upto(i))>>
    BY <1>4 DEF ToSet
  <2> QED BY <1>2, <2>1
<1>8. s \in Seq(Pairs(Len(t)))
  <2>1. s \in Seq(ToSet(s)) /\ ToSet(s) \subseteq Pairs(Len(t))
    BY <1>6, <1>7 DEF IsText
  <2> QED BY <2>1, SeqMonotonic
<1> QED BY <1>5, <1>6, <1>7, <1>8

LEMMA NameToksTyped ==
  ASSUME NEW t, IsText(t), NEW a \in Int, NEW b \in Int
  PROVE  NameToks(t, a, b) \in Seq(Pairs(Len(t)))
<1> DEFINE u == [k \in DOMAIN t |-> IF LetterAt(t, k) \/ (t[k] \in Joints /\ LetterAt(t, k - 1) /\ LetterAt(t, k + 1))
                                    THEN "a" ELSE " "]
<1>1. Len(t) \in Nat /\ DOMAIN u = 1 .. Len(t) /\ u = [k \in 1 .. Len(t) |-> u[k]]
  BY TextIs
<1>2. NameToks(t, a, b) = Runs(u, a, b, {" "})
  BY DEF NameToks
<1> HIDE DEF u
<1>3. Len(u) = Len(t)
  BY <1>1, RowIsText
<1>4. Len(u) \in Nat /\ DOMAIN u = 1 .. Len(u)
  BY <1>1, <1>3
<1>5. Runs(u, a, b, {" "}) \in Seq(Pairs(Len(u)))
  BY <1>4, RunsTyped
<1> QED BY <1>2, <1>3, <1>5

LEMMA LeadingIs ==
  ASSUME NEW n \in Nat, NEW ok, Len(ok) = n
  PROVE  Leading(ok) \in 0 .. n
<1> DEFINE S == {k \in 0 .. Len(ok) : \A m \in 1 .. k : ok[m]}
<1>1. 0 \in S /\ S \in SUBSET (0 .. n)
  <2>1. 0 \in 0 .. Len(ok) /\ \A m \in 1 .. 0 : ok[m]
    OBVIOUS
  <2> QED BY <2>1
<1>2. Max(S) \in S
  <2> HIDE DEF S
  <2> QED BY <1>1, MaxIsLargest
<1> QED BY <1>1, <1>2 DEF Leading

LEMMA ReverseType ==
  ASSUME NEW X, NEW s \in Seq(X)
  PROVE  Reverse(s) \in Seq(X) /\ Len(Reverse(s)) = Len(s)
<1>1. Len(s) \in Nat /\ \A i \in 1 .. Len(s) : s[(Len(s) - i) + 1] \in X
  <2>1. Len(s) \in Nat /\ \A i \in 1 .. Len(s) : s[i] \in X
    OBVIOUS
  <2>2. \A i \in 1 .. Len(s) : (Len(s) - i) + 1 \in 1 .. Len(s)
    BY <2>1
  <2> QED BY <2>1, <2>2
<1>2. [i \in 1 .. Len(s) |-> s[(Len(s) - i) + 1]] \in [1 .. Len(s) -> X]
  BY <1>1
<1> QED BY <1>1, <1>2 DEF Reverse

LEMMA FirmIs ==
  ASSUME NEW t, NEW n \in Nat, NEW run \in Seq(Pairs(n)), Firm(t, run) # {}
  PROVE  /\ Len(run) \in Nat \ {0} /\ Min(Firm(t, run)) \in 1 .. Len(run) /\ Max(Firm(t, run)) \in 1 .. Len(run)
         /\ \A i, j \in 1 .. Len(run) : <<run[i][1], run[j][2]>> \in (1 .. n) \X (1 .. n)
<1>1. Len(run) \in Nat /\ DOMAIN run = 1 .. Len(run) /\ \A i \in 1 .. Len(run) : run[i] \in Pairs(n)
  BY LenProperties, ElementOfSeq
<1>2. Firm(t, run) \in SUBSET Nat /\ Firm(t, run) \in SUBSET (0 .. Len(run)) /\ Firm(t, run) \in SUBSET (1 .. Len(run))
  <2>1. Firm(t, run) \in SUBSET (1 .. Len(run))
    BY <1>1 DEF Firm
  <2> QED BY <2>1
<1>3. Min(Firm(t, run)) \in Firm(t, run) /\ Max(Firm(t, run)) \in Firm(t, run)
  BY <1>1, <1>2, MinIsLeast, MaxIsLargest
<1>4. \A i \in 1 .. Len(run) : run[i][1] \in 1 .. n /\ run[i][2] \in 1 .. n
  BY <1>1, PairsIs
<1> QED BY <1>1, <1>2, <1>3, <1>4

LEMMA NameRunsTyped ==
  ASSUME NEW t, IsText(t), NEW a \in Int, NEW b \in Int, NEW c \in 1 .. Len(t)
  PROVE  /\ NameRunBefore(t, c) \subseteq (1 .. Len(t)) \X (1 .. Len(t))
         /\ NameRunAfter(t, a, b) \subseteq (1 .. Len(t)) \X (1 .. Len(t))
<1> DEFINE N == Len(t)
<1>0. N \in Nat /\ c - 1 \in Int /\ 1 \in Int
  BY TextIs
<1>1. NameRunBefore(t, c) \subseteq (1 .. N) \X (1 .. N)
  <2> DEFINE toks == Reverse(NameToks(t, 1, c - 1))
             to(n) == IF n = 1 THEN c ELSE toks[n - 1][1]
             ok == [k \in DOMAIN toks |-> k <= 5 /\ IsNameTok(t, toks[k]) /\ GapOnly(t, toks[k][2] + 1, to(k) - 1)]
             n == Leading(ok)
             run == Reverse(SubSeq(toks, 1, n))
  <2>1. NameRunBefore(t, c) = IF Firm(t, run) = {} THEN {} ELSE {<<run[Min(Firm(t, run))][1], run[n][2]>>}
    BY DEF NameRunBefore
  <2>2. toks \in Seq(Pairs(N)) /\ Len(toks) \in Nat
    <3>1. NameToks(t, 1, c - 1) \in Seq(Pairs(N))
      BY <1>0, NameToksTyped
    <3> HIDE DEF N
    <3> QED BY <3>1, ReverseType, LenProperties
  <2>3. Len(ok) = Len(toks)
    <3> HIDE DEF toks
    <3> QED BY <2>2
  <2> HIDE DEF toks, ok, N
  <2>4. n \in 0 .. Len(toks)
    BY <2>2, <2>3, LeadingIs
  <2>5. SubSeq(toks, 1, n) \in Seq(Pairs(N)) /\ Len(SubSeq(toks, 1, n)) = n
    <3> HIDE DEF n
    <3> QED BY <2>2, <2>4
  <2>6. run \in Seq(Pairs(N)) /\ Len(run) = n
    BY <2>5, ReverseType
  <2> HIDE DEF n, run
  <2>7. ASSUME Firm(t, run) # {} PROVE <<run[Min(Firm(t, run))][1], run[n][2]>> \in (1 .. N) \X (1 .. N)
    <3>1. /\ Len(run) \in Nat \ {0} /\ Min(Firm(t, run)) \in 1 .. Len(run)
          /\ \A i, j \in 1 .. Len(run) : <<run[i][1], run[j][2]>> \in (1 .. N) \X (1 .. N)
      BY <1>0, <2>6, <2>7, FirmIs
    <3>2. n \in 1 .. Len(run)
      BY <2>6, <3>1
    <3> QED BY <3>1, <3>2
  <2> QED BY <2>1, <2>7
<1>2. NameRunAfter(t, a, b) \subseteq (1 .. N) \X (1 .. N)
  <2> DEFINE toks == NameToks(t, a, b)
             from(n) == IF n = 1 THEN a ELSE toks[n - 1][2] + 1
             ok == [k \in DOMAIN toks |-> k <= 5 /\ IsNameTok(t, toks[k]) /\ GapOnly(t, from(k), toks[k][1] - 1)]
             n == Leading(ok)
             run == SubSeq(toks, 1, n)
  <2>1. NameRunAfter(t, a, b) = IF Firm(t, run) = {} THEN {} ELSE {<<run[Min(Firm(t, run))][1], run[n][2]>>}
    BY DEF NameRunAfter
  <2>2. toks \in Seq(Pairs(N)) /\ Len(toks) \in Nat
    <3>1. NameToks(t, a, b) \in Seq(Pairs(N))
      BY <1>0, NameToksTyped
    <3> HIDE DEF N
    <3> QED BY <3>1, LenProperties
  <2>3. Len(ok) = Len(toks)
    <3> HIDE DEF toks
    <3> QED BY <2>2
  <2> HIDE DEF toks, ok, N
  <2>4. n \in 0 .. Len(toks)
    BY <2>2, <2>3, LeadingIs
  <2>5. run \in Seq(Pairs(N)) /\ Len(run) = n
    <3> HIDE DEF n
    <3> QED BY <2>2, <2>4
  <2> HIDE DEF n, run
  <2>7. ASSUME Firm(t, run) # {} PROVE <<run[Min(Firm(t, run))][1], run[n][2]>> \in (1 .. N) \X (1 .. N)
    <3>1. /\ Len(run) \in Nat \ {0} /\ Min(Firm(t, run)) \in 1 .. Len(run)
          /\ \A i, j \in 1 .. Len(run) : <<run[i][1], run[j][2]>> \in (1 .. N) \X (1 .. N)
      BY <1>0, <2>5, <2>7, FirmIs
    <3>2. n \in 1 .. Len(run)
      BY <2>5, <3>1
    <3> QED BY <3>1, <3>2
  <2> QED BY <2>1, <2>7
<1> QED BY <1>1, <1>2

LEMMA FieldIs ==
  ASSUME NEW t, IsText(t), NEW c \in 1 .. Len(t), NEW stops
  PROVE  /\ After(t, c) \in 1 .. Len(t) + 1
         /\ FieldEnd(t, After(t, c), stops) \in 0 .. Len(t)
<1>1. Len(t) \in Nat
  BY TextIs
<1>2. After(t, c) \in 1 .. Len(t) + 1
  <2> DEFINE S == {k \in c + 1 .. Len(t) : t[k] \notin Blank} \cup {Len(t) + 1}
  <2>1. S \in SUBSET Nat /\ S # {} /\ \A k \in S : k \in 1 .. Len(t) + 1
    BY <1>1
  <2>2. Min(S) \in S
    <3> HIDE DEF S
    <3> QED BY <2>1, MinIsLeast
  <2> QED BY <2>1, <2>2 DEF After
<1> DEFINE a == After(t, c)
<1>3. FieldEnd(t, a, stops) \in 0 .. Len(t)
  <2> HIDE DEF a
  <2>0. a \in 1 .. Len(t) + 1
    BY <1>2 DEF a
  <2> DEFINE S == {k \in a .. Len(t) : t[k] \in stops} \cup {Len(t) + 1}
  <2>1. S \in SUBSET Nat /\ S # {} /\ \A k \in S : k \in 1 .. Len(t) + 1
    BY <1>1, <2>0
  <2>2. Min(S) \in S
    <3> HIDE DEF S
    <3> QED BY <2>1, MinIsLeast
  <2>3. FieldEnd(t, a, stops) = Min(S) - 1
    BY DEF FieldEnd
  <2>4. Min(S) \in 1 .. Len(t) + 1
    <3> HIDE DEF S
    <3> QED BY <2>1, <2>2
  <2> HIDE DEF S
  <2> QED BY <1>1, <2>3, <2>4
<1> QED BY <1>2, <1>3

LedgerStep(t, toks, r, k) ==
  CASE ~r.open \/ Len(r.run) = 5 \/ PassedOver(t, r.run, toks[k]) -> r
    [] OTHER ->
         IF TakesInitial(t, r.run, toks[k], IF k = Len(toks) THEN <<>> ELSE toks[k + 1]) \/ ~LedgerTokStop(t, toks[k])
         THEN [r EXCEPT !.run = Append(@, toks[k])] ELSE [r EXCEPT !.open = FALSE]

LedgerRuns(n) == [run : Seq(Pairs(n)), open : BOOLEAN]

LEMMA LedgerStepType ==
  ASSUME NEW n \in Nat, NEW t, NEW toks \in Seq(Pairs(n)), NEW r \in LedgerRuns(n), NEW k \in 1 .. Len(toks)
  PROVE  LedgerStep(t, toks, r, k) \in LedgerRuns(n)
<1>1. toks[k] \in Pairs(n)
  BY ElementOfSeq
<1>2. r.run \in Seq(Pairs(n)) /\ r.open \in BOOLEAN
  BY DEF LedgerRuns
<1>3. Append(r.run, toks[k]) \in Seq(Pairs(n))
  BY <1>1, <1>2
<1> HIDE DEF Pairs
<1>4. [r EXCEPT !.run = Append(@, toks[k])] \in LedgerRuns(n) /\ [r EXCEPT !.open = FALSE] \in LedgerRuns(n)
  BY <1>2, <1>3 DEF LedgerRuns
<1> QED BY <1>4 DEF LedgerStep

LEMMA LedgerTyped ==
  ASSUME NEW t, IsText(t), NEW c \in 1 .. Len(t)
  PROVE  /\ LedgerNameRun(t, c) \subseteq (1 .. Len(t)) \X (1 .. Len(t))
         /\ LedgerSlashName(t, c) \subseteq (1 .. Len(t)) \X (1 .. Len(t))
<1> DEFINE N == Len(t)
           a == After(t, c)
<1>0. N \in Nat /\ DOMAIN t = 1 .. N /\ a \in 1 .. N + 1
  BY TextIs, FieldIs
<1>1. LedgerNameRun(t, c) \subseteq (1 .. N) \X (1 .. N)
  <2> DEFINE toks == Tokens(t, a, FieldEnd(t, a, {"\n", "\r", "\t", "  "}))
             list == [k \in DOMAIN toks |-> k]
             b == [run |-> <<>>, open |-> TRUE]
             Value(g, R) == IF R = {} THEN b ELSE LedgerStep(t, toks, g[R \ {Max(R)}], list[Max(R)])
             Solves(g) == g = [R \in SUBSET DOMAIN list |-> Value(g, R)]
             iter == CHOOSE g : Solves(g)
             m == Len(toks)
             X == LedgerRuns(N)
             step == [p \in X \X (1 .. m) |-> LedgerStep(t, toks, p[1], p[2])]
             run == iter[DOMAIN list].run
  <2>1. LedgerNameRun(t, c) = IF Firm(t, run) = {} THEN {} ELSE {<<run[Min(Firm(t, run))][1], run[Max(Firm(t, run))][2]>>}
    BY DEF LedgerNameRun, FoldLeft, MapThenFoldSet, LedgerStep
  <2>2. toks \in Seq(Pairs(N)) /\ m \in Nat /\ DOMAIN toks = 1 .. m
    <3> DEFINE e == FieldEnd(t, a, {"\n", "\r", "\t", "  "})
    <3>1. e \in Int /\ a \in Int
      <4>1. e \in 0 .. Len(t)
        BY FieldIs
      <4> HIDE DEF a, e
      <4> QED BY <1>0, <4>1
    <3> HIDE DEF a, e
    <3>2. toks \in Seq(Pairs(N))
      <4>1. Runs(t, a, e, Blank \cup LineEnds) \in Seq(Pairs(Len(t)))
        BY <1>0, <3>1, RunsTyped
      <4> QED BY <4>1 DEF Tokens, e
    <3> HIDE DEF toks
    <3> QED BY <3>2, LenProperties
  <2>3. DOMAIN list = 1 .. m /\ \A k \in 1 .. m : list[k] = k
    BY <2>2
  <2> HIDE DEF toks, list, m, N
  <2>4. b \in X /\ \A x \in X, k \in 1 .. m : LedgerStep(t, toks, x, k) \in X
    <3>1. b \in X
      BY DEF LedgerRuns
    <3> QED BY <1>0, <2>2, <3>1, LedgerStepType DEF m
  <2> HIDE DEF b, X
  <2>5. \A x \in X, k \in 1 .. m : step[<<x, k>>] = LedgerStep(t, toks, x, k) /\ step[<<x, k>>] \in X
    BY <2>4
  <2> HIDE DEF step
  <2>6. PICK f \in [SUBSET (1 .. m) -> X] :
          \A R \in SUBSET (1 .. m) : f[R] = IF R = {} THEN b ELSE step[<<f[R \ {Max(R)}], Max(R)>>]
    <3>1. LeftFolds(m, X, b, step)
      BY <2>2, <2>4, <2>5, LeftFoldExists
    <3> QED BY <3>1 DEF LeftFolds
  <2>7. \A R \in SUBSET (1 .. m) : R # {} => Max(R) \in 1 .. m /\ R \ {Max(R)} \in SUBSET (1 .. m)
    <3>1. \A R \in SUBSET (1 .. m) : R \in SUBSET (0 .. m)
      BY <2>2
    <3> QED BY <2>2, <3>1, MaxIsLargest
  <2>8. Solves(f)
    <3>1. ASSUME NEW R \in SUBSET (1 .. m) PROVE f[R] = Value(f, R)
      <4>1. f[R] = IF R = {} THEN b ELSE step[<<f[R \ {Max(R)}], Max(R)>>]
        BY <2>6
      <4>2. R # {} => f[R \ {Max(R)}] \in X /\ Max(R) \in 1 .. m /\ list[Max(R)] = Max(R)
        BY <2>3, <2>6, <2>7
      <4> QED BY <2>5, <4>1, <4>2
    <3> HIDE DEF Value
    <3> QED BY <2>3, <2>6, <3>1
  <2>9. Solves(iter)
    <3> HIDE DEF Solves
    <3> QED BY <2>8
  <2>10. \A R \in SUBSET (1 .. m) : iter[R] = Value(iter, R)
    <3> HIDE DEF iter, Value
    <3> QED BY <2>3, <2>9
  <2> HIDE DEF iter
  <2>11. WalksTo(m, X, b, step, iter[1 .. m])
    <3>1. iter[{}] = b
      <4>1. {} \in SUBSET (1 .. m)
        OBVIOUS
      <4> QED BY <2>10, <4>1
    <3>2. ASSUME NEW R \in SUBSET (1 .. m), R # {}, iter[R \ {Max(R)}] \in X
          PROVE  iter[R] = step[<<iter[R \ {Max(R)}], Max(R)>>]
      <4>1. iter[R] = LedgerStep(t, toks, iter[R \ {Max(R)}], list[Max(R)])
        BY <2>10, <3>2
      <4>2. Max(R) \in 1 .. m /\ list[Max(R)] = Max(R)
        BY <2>3, <2>7, <3>2
      <4> QED BY <2>5, <3>2, <4>1, <4>2
    <3>3. \A R \in SUBSET (1 .. m) : R # {} /\ iter[R \ {Max(R)}] \in X
                                       => iter[R] = step[<<iter[R \ {Max(R)}], Max(R)>>]
      BY <3>2
    <3>4. b \in X /\ m \in Nat /\ \A x \in X, k \in 1 .. m : step[<<x, k>>] \in X
      BY <2>2, <2>4, <2>5
    <3> HIDE DEF Value
    <3> QED BY <3>1, <3>3, <3>4, FoldWalks
  <2>12. iter[DOMAIN list] \in X
    <3>1. m \in 0 .. m
      BY <2>2
    <3> QED BY <2>3, <2>11, <3>1 DEF Walks, WalksTo
  <2>13. run \in Seq(Pairs(N))
    BY <2>12 DEF X, LedgerRuns
  <2> HIDE DEF run, Value
  <2>14. ASSUME Firm(t, run) # {}
         PROVE  <<run[Min(Firm(t, run))][1], run[Max(Firm(t, run))][2]>> \in (1 .. N) \X (1 .. N)
    BY <1>0, <2>13, <2>14, FirmIs
  <2> QED BY <2>1, <2>14
<1>2. LedgerSlashName(t, c) \subseteq (1 .. N) \X (1 .. N)
  <2> DEFINE e == FieldEnd(t, a, {"/", "\n", "\r", "\t", "  "})
             inside == {k \in a .. e : t[k] \notin Blank}
  <2>1. e \in 0 .. N
    BY FieldIs
  <2>2. LedgerSlashName(t, c) = IF inside = {} THEN {} ELSE {<<Min(inside), Max(inside)>>}
    BY DEF LedgerSlashName
  <2> HIDE DEF a, e
  <2>3. inside \in SUBSET (0 .. N) /\ inside \in SUBSET (1 .. N) /\ inside \in SUBSET Nat
    <3>1. a .. e \subseteq 1 .. N
      BY <1>0, <2>1
    <3>2. inside \in SUBSET (1 .. N)
      BY <3>1, Zenon
    <3> HIDE DEF inside
    <3> QED BY <1>0, <3>2
  <2> HIDE DEF inside, N
  <2>4. inside # {} => Min(inside) \in inside /\ Max(inside) \in inside
    BY <1>0, <2>3, MinIsLeast, MaxIsLargest
  <2> QED BY <2>2, <2>3, <2>4
<1> QED BY <1>1, <1>2

\* What has the shape of a name begins before it ends.
LEMMA NameShapeIs ==
  ASSUME NEW t, IsText(t), NEW p \in (1 .. Len(t)) \X (1 .. Len(t)), NameShapedRelaxed(t, p)
  PROVE  p[1] <= p[2]
<1>1. PICK w \in ToSet(Tokens(t, p[1], p[2])) : TRUE
  BY DEF NameShapedRelaxed
<1>2. Len(t) \in Nat /\ DOMAIN t = 1 .. Len(t) /\ p[1] \in Int /\ p[2] \in Int
  BY TextIs
<1>3. w[1] \in p[1] .. p[2]
  BY <1>1, <1>2, RunsTyped DEF Tokens
<1> QED BY <1>2, <1>3

LEMMA CueNamesTyped ==
  ASSUME NEW t, IsText(t)
  PROVE  CueNameSpans(t) \subseteq SpansOf(Len(t))
<1> DEFINE at(cues) == {c \in DOMAIN t : t[c] \in cues}
           headers == {c \in at(HeaderCues) : LineStart(t, c)}
           people == (UNION {NameRunBefore(t, c) : c \in Mailboxes(t)})
                    \cup UNION {NameRunAfter(t, After(t, c), FieldEnd(t, After(t, c), {"\n"})) : c \in headers}
           fields == (UNION {LedgerNameRun(t, c) : c \in at(LedgerCues)})
                     \cup UNION {LedgerSlashName(t, c) : c \in at(SlashCues)}
           N == Len(t)
<1>0. N \in Nat /\ DOMAIN t = 1 .. N
  BY TextIs
<1>1. ASSUME NEW c \in DOMAIN t
      PROVE  /\ NameRunBefore(t, c) \subseteq (1 .. N) \X (1 .. N)
             /\ NameRunAfter(t, After(t, c), FieldEnd(t, After(t, c), {"\n"})) \subseteq (1 .. N) \X (1 .. N)
             /\ LedgerNameRun(t, c) \subseteq (1 .. N) \X (1 .. N)
             /\ LedgerSlashName(t, c) \subseteq (1 .. N) \X (1 .. N)
  <2>1. c \in 1 .. N
    BY <1>0
  <2>2. After(t, c) \in Int /\ FieldEnd(t, After(t, c), {"\n"}) \in Int
    BY <1>0, <2>1, FieldIs
  <2> QED BY <2>1, <2>2, NameRunsTyped, LedgerTyped
<1> HIDE DEF N
<1>2. people \subseteq (1 .. N) \X (1 .. N) /\ fields \subseteq (1 .. N) \X (1 .. N)
  <2>1. Mailboxes(t) \subseteq DOMAIN t /\ headers \subseteq DOMAIN t /\ at(LedgerCues) \subseteq DOMAIN t /\ at(SlashCues) \subseteq DOMAIN t
    BY DEF Mailboxes
  <2> HIDE DEF headers, at
  <2> QED BY <1>1, <2>1
<1>3. \A s \in CueNameSpans(t) : \E p \in people \cup fields : NameShapedRelaxed(t, p) /\ s = Span(p[1], p[2], "person", 95)
  BY DEF CueNameSpans, NameShaped
<1> HIDE DEF people, fields
<1>4. ASSUME NEW s \in CueNameSpans(t) PROVE s \in SpansOf(N)
  <2>1. PICK p \in people \cup fields : NameShapedRelaxed(t, p) /\ s = Span(p[1], p[2], "person", 95)
    BY <1>3
  <2>2. p \in (1 .. N) \X (1 .. N)
    BY <1>2
  <2>3. p[1] <= p[2]
    BY <2>1, <2>2, NameShapeIs DEF N
  <2>4. p[1] \in 1 .. N /\ p[2] \in p[1] .. N /\ 95 \in 0 .. 100
    BY <1>0, <2>2, <2>3
  <2> QED BY <1>0, <2>1, <2>4, FloorLabelsKnown, SpanType
<1> QED BY <1>4 DEF N

LEMMA ScanTyped ==
  ASSUME NEW t, IsText(t)
  PROVE  GateScanOnce(t) \subseteq SpansOf(Len(t))
<1> DEFINE u == NormSeps(t)
<1>1. IsText(u) /\ Len(u) = Len(t)
  BY NormSepsIs
<1> HIDE DEF u
<1>2. /\ Shaped(u, {"email", "uuid", "iban"}) \subseteq SpansOf(Len(u))
      /\ CardCands(u) \subseteq SpansOf(Len(u)) /\ SinCands(u) \subseteq SpansOf(Len(u))
      /\ GluedDigits(u) \subseteq SpansOf(Len(u)) /\ SeparatedCards(u) \subseteq SpansOf(Len(u))
      /\ CardAuxSpans(u) \subseteq SpansOf(Len(u))
  BY <1>1, ShapedTyped, CandsTyped, GluedTyped, CardAuxTyped
<1>3. GateScanOnce(t) = Shaped(u, {"email", "uuid", "iban"}) \cup CardCands(u) \cup SinCands(u)
                          \cup GluedDigits(u) \cup SeparatedCards(u) \cup CardAuxSpans(u)
  BY DEF GateScanOnce, GateGluedDigits, GateSeparatedCards, GateCardAux, u
<1> QED BY <1>1, <1>2, <1>3

LEMMA MappedTyped ==
  ASSUME NEW t, IsText(t), NEW s \in SpansOf(Len(Clean(t)))
  PROVE  /\ MappedBack(s, IdxMap(t)) \in SpansOf(Len(t))
         /\ MappedBack(s, IdxMap(t)) = Span(IdxMap(t)[s.from], IdxMap(t)[s.to], s.label, s.conf)
<1> DEFINE idx == IdxMap(t)
           n == Len(Clean(t))
<1>1. /\ DOMAIN idx = 1 .. n /\ n \in Nat /\ Len(t) \in Nat /\ \A k \in 1 .. n : idx[k] \in 1 .. Len(t)
      /\ \A k, m \in 1 .. n : k < m => idx[k] < idx[m]
  BY CleanIs, TextIs DEF Lists
<1> HIDE DEF idx, n
<1>2. /\ s.from \in 1 .. n /\ s.to \in 1 .. n /\ s.from <= s.to /\ s.label \in Labels /\ s.conf \in 0 .. 100
      /\ s = Span(s.from, s.to, s.label, s.conf)
  BY <1>1, SpansOfIs DEF n
<1>3. MappedBack(s, idx) = Span(idx[s.from], idx[s.to], s.label, s.conf)
  <2> DEFINE a == s.from
             b == s.to
             l == s.label
             k == s.conf
  <2>1. s = [from |-> a, to |-> b, label |-> l, conf |-> k]
    BY <1>2 DEF Span
  <2>2. MappedBack(s, idx) = [s EXCEPT !.from = idx[a], !.to = idx[b]]
    BY DEF MappedBack
  <2> HIDE DEF a, b, l, k
  <2>3. MappedBack(s, idx) = [from |-> idx[a], to |-> idx[b], label |-> l, conf |-> k]
    BY <2>1, <2>2
  <2> QED BY <2>3 DEF Span, a, b, l, k
<1>4. idx[s.from] <= idx[s.to] /\ idx[s.from] \in 1 .. Len(t) /\ idx[s.to] \in 1 .. Len(t)
  <2>1. s.from = s.to \/ s.from < s.to
    BY <1>2
  <2>2. idx[s.from] \in 1 .. Len(t) /\ idx[s.to] \in 1 .. Len(t)
    BY <1>1, <1>2
  <2>3. s.from < s.to => idx[s.from] < idx[s.to]
    BY <1>1, <1>2
  <2> QED BY <1>1, <2>1, <2>2, <2>3
<1>5. idx[s.to] \in idx[s.from] .. Len(t)
  BY <1>1, <1>4
<1> QED BY <1>1, <1>2, <1>3, <1>4, <1>5, SpanType DEF idx

LEMMA KnownTyped ==
  ASSUME NEW t, IsText(t)
  PROVE  GateKnows(t) \subseteq SpansOf(Len(t)) /\ ValidatedFloor(t) \subseteq SpansOf(Len(t))
<1>1. GateScanOnce(t) \subseteq SpansOf(Len(t))
  BY ScanTyped
<1>2. \A s \in GateScanOnce(Clean(t)) : MappedBack(s, IdxMap(t)) \in SpansOf(Len(t))
  <2>1. IsText(Clean(t))
    BY CleanIs
  <2>2. GateScanOnce(Clean(t)) \subseteq SpansOf(Len(Clean(t)))
    BY <2>1, ScanTyped
  <2> QED BY <2>2, MappedTyped
<1>3. ValidatedFloor(t) \subseteq SpansOf(Len(t))
  BY <1>1, <1>2 DEF ValidatedFloor
<1>4. CueNameSpans(NormSeps(t)) \subseteq SpansOf(Len(t)) /\ CueDigitSpans(t) \subseteq SpansOf(Len(t))
  <2>1. IsText(NormSeps(t)) /\ Len(NormSeps(t)) = Len(t)
    BY NormSepsIs
  <2>2. CueNameSpans(NormSeps(t)) \subseteq SpansOf(Len(NormSeps(t)))
    BY <2>1, CueNamesTyped
  <2> QED BY <2>1, <2>2, CueDigitsTyped
<1> QED BY <1>3, <1>4 DEF GateKnows, GateCueNames, GateCueDigits

-----------------------------------------------------------------------------
(* Tags, clusters, names and repeats *)

\* What the model says of the tokens of a chunk of n atoms.
AreTags(tags, n) == DOMAIN tags \in SUBSET (1 .. n) /\ \A k \in DOMAIN tags : tags[k] \in Tags \cup {Outside}

LEMMA DecodeTyped ==
  ASSUME NEW n \in Nat, NEW tags, AreTags(tags, n), NEW least
  PROVE  Decode(tags, least) \subseteq SpansOf(n)
<1> DEFINE upto(k) == {j \in DOMAIN tags : j >= k /\
                         \A m \in DOMAIN tags : m \in k + 1 .. j => tags[m] # Outside /\ ~Begins(tags, m)}
           last(k) == Max(upto(k))
           confs(k) == {tags[m].conf : m \in (DOMAIN tags) \cap (k .. last(k))}
           conf(k) == Min(confs(k))
<1>0. DOMAIN tags \in SUBSET (1 .. n) /\ \A k \in DOMAIN tags : k \in 1 .. n /\ tags[k].conf \in 0 .. 100
  <2>1. Outside.conf = 0 /\ 0 \in 0 .. 100
    BY DEF Outside
  <2> QED BY <2>1, TagsAssumption DEF AreTags
<1>1. ASSUME NEW k \in DOMAIN tags, Begins(tags, k)
      PROVE  Span(k, last(k), tags[k].label, conf(k)) \in SpansOf(n)
  <2>1. k \in upto(k) /\ upto(k) \in SUBSET (0 .. n)
    <3>1. k \in upto(k)
      BY <1>0
    <3>2. upto(k) \in SUBSET DOMAIN tags /\ DOMAIN tags \in SUBSET (0 .. n)
      BY <1>0
    <3> HIDE DEF upto
    <3> QED BY <3>1, <3>2
  <2>2. last(k) \in upto(k) /\ k <= last(k)
    <3> HIDE DEF upto
    <3> QED BY <2>1, MaxIsLargest
  <2>3. k \in 1 .. n /\ last(k) \in k .. n
    <3>1. last(k) \in DOMAIN tags
      BY <2>2
    <3> HIDE DEF last
    <3> QED BY <1>0, <2>2, <3>1
  <2> HIDE DEF last
  <2>4. confs(k) \in SUBSET Nat /\ confs(k) # {} /\ confs(k) \subseteq 0 .. 100
    <3>1. k \in (DOMAIN tags) \cap (k .. last(k))
      BY <2>3
    <3>2. \A c \in confs(k) : c \in 0 .. 100
      BY <1>0
    <3>3. tags[k].conf \in confs(k)
      BY <3>1
    <3> HIDE DEF confs
    <3> QED BY <3>2, <3>3
  <2>5. conf(k) \in 0 .. 100
    <3> HIDE DEF confs
    <3> QED BY <2>4, MinIsLeast
  <2>6. tags[k].label \in Labels
    <3>1. tags[k] \in Tags \ {Outside}
      BY <1>1 DEF AreTags, Begins
    <3> QED BY <3>1 DEF Labels
  <2> HIDE DEF conf
  <2> QED BY <2>3, <2>5, <2>6, SpanType
<1>2. \A s \in Decode(tags, least) : \E k \in DOMAIN tags : Begins(tags, k) /\ s = Span(k, last(k), tags[k].label, conf(k))
  BY DEF Decode
<1> QED BY <1>1, <1>2

\* The best of a cluster.
Best(cluster, m) ==
  \A s \in cluster : m.conf > s.conf \/ (m.conf = s.conf /\ m.to - m.from >= s.to - s.from)

LEMMA BestExists ==
  ASSUME NEW n \in Nat, NEW cluster \in SUBSET SpansOf(n), cluster # {}
  PROVE  /\ \E m \in cluster : Best(cluster, m)
         /\ \E m \in cluster : \A s \in cluster : m.conf >= s.conf
<1>0. \A s \in cluster : s.conf \in 0 .. 100 /\ s.to - s.from \in Nat /\ s.to - s.from <= n
  <2> TAKE s \in cluster
  <2>1. s.from \in 1 .. n /\ s.to \in s.from .. n /\ s.conf \in 0 .. 100
    BY SpansOfIs
  <2> QED BY <2>1
<1> DEFINE rank == [s \in cluster |-> s.conf]
<1>1. rank \in [cluster -> Nat] /\ \A s \in cluster : rank[s] <= 100
  BY <1>0
<1>2. PICK a \in cluster : \A s \in cluster : rank[s] <= rank[a]
  <2> HIDE DEF rank
  <2> QED BY <1>1, LargestRank
<1>3. \A s \in cluster : a.conf >= s.conf
  <2>1. \A s \in cluster : rank[s] = s.conf
    OBVIOUS
  <2> HIDE DEF rank
  <2> QED BY <1>0, <1>2, <2>1
<1> DEFINE top == {s \in cluster : s.conf = a.conf}
           long == [s \in top |-> s.to - s.from]
<1>4. top # {} /\ long \in [top -> Nat] /\ \A s \in top : long[s] <= n
  BY <1>0, <1>2
<1>5. PICK m \in top : \A s \in top : long[s] <= long[m]
  <2> HIDE DEF top, long
  <2> QED BY <1>4, LargestRank
<1>6. \A s \in top : s.to - s.from <= m.to - m.from
  <2>1. \A s \in top : long[s] = s.to - s.from
    OBVIOUS
  <2> HIDE DEF top, long
  <2> QED BY <1>5, <2>1
<1>7. Best(cluster, m)
  <2>1. ASSUME NEW s \in cluster PROVE m.conf > s.conf \/ (m.conf = s.conf /\ m.to - m.from >= s.to - s.from)
    <3>1. m \in cluster /\ m.conf = a.conf /\ a.conf >= s.conf /\ a.conf \in Int /\ s.conf \in Int
      BY <1>0, <1>2, <1>3
    <3>2. CASE s.conf = a.conf
      <4>1. s \in top
        BY <3>2
      <4>2. s.to - s.from \in Int /\ m.to - m.from \in Int
        BY <1>0, <3>1
      <4> QED BY <1>6, <3>1, <3>2, <4>1, <4>2
    <3>3. CASE s.conf # a.conf
      BY <3>1, <3>3
    <3> QED BY <3>2, <3>3
  <2> QED BY <2>1 DEF Best
<1> QED BY <1>3, <1>5, <1>7

LEMMA ElectedIs ==
  ASSUME NEW n \in Nat, NEW cluster \in SUBSET SpansOf(n), cluster # {}
  PROVE  /\ Elected(cluster) \in cluster
         /\ (\E s \in cluster : s.label \in FloorLabels) => Elected(cluster).label \in FloorLabels
<1> DEFINE floor == {s \in cluster : s.label \in FloorLabels}
           best == CHOOSE m \in cluster : Best(cluster, m)
           first == CHOOSE m \in floor : \A s \in floor : m.conf >= s.conf
<1>1. best \in cluster
  <2>1. \E m \in cluster : Best(cluster, m)
    BY BestExists
  <2> QED BY <2>1
<1>2. floor # {} => first \in floor
  <2> HAVE floor # {}
  <2>1. floor \in SUBSET SpansOf(n)
    OBVIOUS
  <2>2. \E m \in floor : \A s \in floor : m.conf >= s.conf
    <3> HIDE DEF floor
    <3> QED BY <2>1, BestExists
  <2> HIDE DEF floor
  <2> QED BY <2>2
<1>3. Elected(cluster) = IF floor # {} /\ best \notin floor THEN first ELSE best
  BY DEF Elected, Best
<1> HIDE DEF best, first
<1> QED BY <1>1, <1>2, <1>3

GoesOn(S, k) == \E q \in S : q.from < k /\ k <= q.to
Cluster(S, c) == {s \in S : c <= s.from /\ \A r \in S : r.from \in c + 1 .. s.from => GoesOn(S, r.from)}
ClusterSpan(S, c) ==
  Span(c, Max({s.to : s \in Cluster(S, c)}), Elected(Cluster(S, c)).label, Max({s.conf : s \in Cluster(S, c)}))
Opens(S) == {s \in S : ~GoesOn(S, s.from)}

LEMMA MergedIs ==
  ASSUME NEW S
  PROVE  Merged(S) = {ClusterSpan(S, s.from) : s \in Opens(S)}
<1>1. Merged(S) = {ClusterSpan(S, c) : c \in {s.from : s \in Opens(S)}}
  BY DEF Merged, ClusterSpan, Cluster, GoesOn, Opens
<1> QED BY <1>1

LEMMA ClusterSpanIs ==
  ASSUME NEW n \in Nat, NEW S \in SUBSET SpansOf(n), NEW s \in Opens(S)
  PROVE  /\ ClusterSpan(S, s.from) \in SpansOf(n) /\ ClusterSpan(S, s.from).from = s.from
         /\ \A r \in Cluster(S, s.from) : /\ s.from <= r.from /\ r.to <= ClusterSpan(S, s.from).to
                                          /\ r.label \in FloorLabels => ClusterSpan(S, s.from).label \in FloorLabels
         /\ \E r \in Cluster(S, s.from) : ClusterSpan(S, s.from).to = r.to
<1> DEFINE c == s.from
           C == Cluster(S, c)
           ends == {r.to : r \in C}
           confs == {r.conf : r \in C}
<1>1. s \in S /\ c \in 1 .. n /\ \A r \in S : r.from \in 1 .. n /\ r.to \in r.from .. n /\ r.to \in 1 .. n /\ r.conf \in 0 .. 100 /\ r.label \in Labels
  BY SpansOfIs DEF Opens
<1>2. C \in SUBSET SpansOf(n) /\ C \in SUBSET S /\ s \in C
  <2>1. C \in SUBSET S
    BY DEF Cluster
  <2>2. s \in C
    BY <1>1 DEF Cluster
  <2> HIDE DEF C
  <2> QED BY <2>1, <2>2
<1>3. \A r \in C : c <= r.from
  BY DEF Cluster
<1>4. ClusterSpan(S, c) = Span(c, Max(ends), Elected(C).label, Max(confs))
  BY DEF ClusterSpan
<1> HIDE DEF C
<1>5. ends \in SUBSET (0 .. n) /\ ends # {} /\ confs \in SUBSET (0 .. 100) /\ confs # {}
  <2>1. \A e \in ends : e \in 0 .. n
    BY <1>1, <1>2
  <2>2. \A e \in confs : e \in 0 .. 100
    BY <1>1, <1>2
  <2> QED BY <1>2, <2>1, <2>2
<1>6. Max(ends) \in ends /\ (\A e \in ends : e <= Max(ends)) /\ Max(confs) \in confs
  <2> HIDE DEF ends, confs
  <2> QED BY <1>5, MaxIsLargest
<1>7. \A r \in C : r.to <= Max(ends)
  BY <1>6
<1>8. \E r \in C : Max(ends) = r.to
  BY <1>6
<1>9. Max(confs) \in 0 .. 100 /\ Max(ends) \in c .. n
  <2>1. Max(confs) \in 0 .. 100
    BY <1>5, <1>6
  <2>2. PICK r \in C : Max(ends) = r.to
    BY <1>8
  <2>3. r.to \in r.from .. n /\ c <= r.from /\ r.from \in Int /\ c \in Int
    BY <1>1, <1>2, <1>3
  <2> HIDE DEF ends, confs, c
  <2> QED BY <2>1, <2>2, <2>3
<1> DEFINE e == Max(ends)
           k == Max(confs)
           l == Elected(C).label
<1>10. l \in Labels /\ \A r \in C : r.label \in FloorLabels => l \in FloorLabels
  <2>1. Elected(C) \in C /\ ((\E r \in C : r.label \in FloorLabels) => Elected(C).label \in FloorLabels)
    BY <1>2, ElectedIs
  <2> QED BY <1>1, <1>2, <2>1
<1>11. ClusterSpan(S, c) = Span(c, e, l, k)
  BY <1>4
<1>12. c \in 1 .. n /\ e \in c .. n /\ k \in 0 .. 100 /\ \A r \in C : r.to <= e
  BY <1>1, <1>7, <1>9
<1>13. \E r \in C : e = r.to
  BY <1>8
<1> HIDE DEF e, k, l
<1>14. ClusterSpan(S, c) \in SpansOf(n)
  BY <1>10, <1>11, <1>12, SpanType
<1>15. ClusterSpan(S, c).from = c /\ ClusterSpan(S, c).to = e /\ ClusterSpan(S, c).label = l
  BY <1>11 DEF Span
<1> QED BY <1>3, <1>10, <1>12, <1>13, <1>14, <1>15 DEF C

\* No two spans have a place in common.
Disjoint(S) == \A r, s \in S : r = s \/ r.to < s.from \/ s.to < r.from

LEMMA MergedTyped ==
  ASSUME NEW n \in Nat, NEW S \in SUBSET SpansOf(n)
  PROVE  Merged(S) \in SUBSET SpansOf(n) /\ Disjoint(Merged(S))
<1>1. Merged(S) \in SUBSET SpansOf(n)
  BY MergedIs, ClusterSpanIs
<1>2. ASSUME NEW a \in Opens(S), NEW b \in Opens(S), a.from < b.from
      PROVE  ClusterSpan(S, a.from).to < ClusterSpan(S, b.from).from
  <2>1. PICK r \in Cluster(S, a.from) : ClusterSpan(S, a.from).to = r.to
    BY ClusterSpanIs
  <2>2. /\ r \in S /\ a.from <= r.from /\ a \in S /\ b \in S /\ ~GoesOn(S, b.from)
        /\ \A q \in S : q.from \in a.from + 1 .. r.from => GoesOn(S, q.from)
    BY <2>1 DEF Cluster, Opens
  <2>3. a.from \in Int /\ b.from \in Int /\ r.from \in Int /\ r.to \in Int
    <3>1. \A q \in S : q.from \in 1 .. n /\ q.to \in 1 .. n
      BY SpansOfIs
    <3> QED BY <2>2, <3>1
  <2>4. r.from < b.from
    <3>1. b.from \notin a.from + 1 .. r.from
      BY <2>2
    <3> QED BY <1>2, <2>3, <3>1
  <2>5. ~(b.from <= r.to)
    BY <2>2, <2>4 DEF GoesOn
  <2>6. ClusterSpan(S, b.from).from = b.from
    BY ClusterSpanIs
  <2> QED BY <2>1, <2>3, <2>5, <2>6
<1>3. ASSUME NEW x \in Merged(S), NEW y \in Merged(S) PROVE x = y \/ x.to < y.from \/ y.to < x.from
  <2>1. PICK a \in Opens(S) : x = ClusterSpan(S, a.from)
    BY MergedIs
  <2>2. PICK b \in Opens(S) : y = ClusterSpan(S, b.from)
    BY MergedIs
  <2>3. a.from = b.from \/ a.from < b.from \/ b.from < a.from
    <3>1. a.from \in 1 .. n /\ b.from \in 1 .. n
      BY SpansOfIs DEF Opens
    <3> QED BY <3>1
  <2> QED BY <1>2, <2>1, <2>2, <2>3
<1> QED BY <1>1, <1>3 DEF Disjoint

\* A span that has another whole, under a label of the floor if that one has.
Holds(r, s) == r.from <= s.from /\ s.to <= r.to /\ (s.label \in FloorLabels => r.label \in FloorLabels)

LEMMA MergedHolds ==
  ASSUME NEW n \in Nat, NEW S \in SUBSET SpansOf(n), NEW s \in S
  PROVE  \E r \in Merged(S) : Holds(r, s)
<1>0. \A q \in S : q.from \in 1 .. n /\ q.to \in 1 .. n
  BY SpansOfIs
<1> DEFINE froms == {q.from : q \in S}
           least == Min(froms)
           opens == {q.from : q \in {p \in Opens(S) : p.from <= s.from}}
           c == Max(opens)
<1>1. least \in froms /\ \A k \in froms : least <= k
  <2>1. froms \in SUBSET Nat /\ froms # {}
    BY <1>0
  <2> HIDE DEF froms
  <2> QED BY <2>1, MinIsLeast
<1>2. PICK p \in S : p.from = least
  BY <1>1
<1>3. p \in Opens(S) /\ p.from <= s.from
  <2>1. \A q \in S : least <= q.from
    BY <1>1
  <2> HIDE DEF least
  <2>2. ~GoesOn(S, p.from)
    <3>1. \A q \in S : ~(q.from < p.from)
      BY <1>0, <1>2, <2>1
    <3> QED BY <3>1 DEF GoesOn
  <2> QED BY <1>2, <2>1, <2>2 DEF Opens
<1>4. c \in opens /\ \A k \in opens : k <= c
  <2>1. opens \in SUBSET (0 .. n) /\ opens # {}
    <3>1. \A k \in opens : k \in 0 .. n
      BY <1>0 DEF Opens
    <3>2. p.from \in opens
      BY <1>3
    <3> HIDE DEF opens
    <3> QED BY <3>1, <3>2
  <2> HIDE DEF opens
  <2> QED BY <2>1, MaxIsLargest
<1>5. PICK o \in Opens(S) : o.from <= s.from /\ c = o.from
  BY <1>4
<1>6. \A q \in Opens(S) : q.from <= s.from => q.from <= o.from
  <2>1. \A q \in Opens(S) : q.from <= s.from => q.from \in opens
    OBVIOUS
  <2> HIDE DEF opens
  <2> QED BY <1>4, <1>5, <2>1
<1> HIDE DEF froms, least, opens, c
<1>7. s \in Cluster(S, o.from)
  <2>1. ASSUME NEW r \in S, r.from \in o.from + 1 .. s.from PROVE GoesOn(S, r.from)
    <3>1. r.from > o.from /\ r.from <= s.from /\ r.from \in Int /\ o.from \in Int
      BY <1>0, <2>1 DEF Opens
    <3>2. r \notin Opens(S)
      BY <1>6, <3>1
    <3> QED BY <3>2 DEF Opens
  <2> QED BY <1>5, <2>1 DEF Cluster
<1>8. Holds(ClusterSpan(S, o.from), s)
  BY <1>7, ClusterSpanIs DEF Holds
<1> QED BY <1>8, MergedIs

-----------------------------------------------------------------------------
(* Numbers that stand alone, and the floor of the gate *)

\* What the floor of the gate asks of a number.
StandsAlone(u, i, j) ==
  /\ Grouped(u, i, j, {" ", "-"}) /\ DigitsOf(u, i, j) \in Secrets
  /\ Apart(u, i, j) /\ Solitary(u, i, j) /\ ~Business(u, i, j)

\* The ends of the candidates that begin at the places of a text.
AreCands(u, n, cands, end) ==
  /\ cands \in [1 .. n -> SUBSET (1 .. n)] /\ DOMAIN end = 1 .. n
  /\ \A k \in 1 .. n : end[k] = Longest(cands[k])
  /\ \A k, l \in 1 .. n : l \in cands[k] => k <= l /\ Grouped(u, k, l, {" ", "-"})

LEMMA CandFound ==
  ASSUME NEW u, NEW n \in Nat, DOMAIN u = 1 .. n, NEW i \in 1 .. n, NEW j \in i .. n,
         Solitary(u, i, j), DigitAt(u, i),
         NEW cands, NEW end, AreCands(u, n, cands, end), j \in cands[i]
  PROVE  <<i, j>> \in Matches(end)
<1>0. \A k \in 1 .. n : \A l \in cands[k] : l \in Int /\ k <= l /\ l <= n
  <2>1. \A k \in 1 .. n : \A l \in cands[k] : l \in 1 .. n
    BY DEF AreCands
  <2>2. \A k \in 1 .. n : \A l \in cands[k] : k <= l
    BY <2>1 DEF AreCands
  <2> QED BY <2>1, <2>2
<1>1. \A k \in 1 .. n : (end[k] = 0 /\ cands[k] = {}) \/ (end[k] \in cands[k] /\ \A y \in cands[k] : y <= end[k])
  <2>1. \A k \in 1 .. n : cands[k] \in SUBSET (1 .. n) /\ end[k] = Longest(cands[k])
    BY DEF AreCands
  <2> QED BY <2>1, LongestIs
<1>2. AreEnds(end, n)
  <2>1. DOMAIN end = 1 .. n
    BY DEF AreCands
  <2>2. \A k \in 1 .. n : end[k] = 0 \/ end[k] \in k .. n
    BY <1>0, <1>1
  <2> QED BY <2>1, <2>2 DEF AreEnds
<1>3. \A k \in 1 .. n : \A l \in cands[k] : DigitAt(u, k) /\ DigitAt(u, l) /\ \A m \in k .. l : Spaced(u, m)
  <2>1. \A k \in 1 .. n : \A l \in cands[k] : l \in 1 .. n
    BY DEF AreCands
  <2>2. \A k \in 1 .. n : \A l \in cands[k] : Grouped(u, k, l, {" ", "-"})
    BY <2>1 DEF AreCands
  <2> QED BY <2>2 DEF Grouped, Spaced
<1>4. end[i] = j
  <2>1. end[i] \in cands[i] /\ j <= end[i]
    BY <1>1
  <2>2. ASSUME end[i] > j PROVE FALSE
    <3> DEFINE e == end[i]
    <3>1. e \in j + 1 .. n /\ DigitAt(u, e) /\ \A m \in j + 1 .. e : Spaced(u, m)
      <4>0. e \in cands[i] /\ e > j
        BY <2>1, <2>2
      <4> HIDE DEF e
      <4>1. e \in i .. n /\ DigitAt(u, e) /\ e > j /\ \A m \in i .. e : Spaced(u, m)
        <5>1. e \in Int /\ i <= e /\ e <= n
          BY <1>0, <4>0
        <5> QED BY <1>3, <4>0, <5>1
      <4> QED BY <4>1
    <3> HIDE DEF e
    <3> QED BY <3>1, NoneAfter
  <2>3. end[i] \in Int /\ j \in Int
    BY <1>0, <2>1
  <2> QED BY <2>1, <2>2, <2>3
<1>5. ASSUME NEW a \in 1 .. i - 1 PROVE end[a] < i
  <2>0. a \in 1 .. n /\ a \in Int /\ i \in Int
    OBVIOUS
  <2>1. SUFFICES ASSUME end[a] \in cands[a], end[a] >= i PROVE FALSE
    <3>1. (end[a] = 0 /\ cands[a] = {}) \/ end[a] \in cands[a]
      BY <1>1, <2>0
    <3>2. end[a] \in Int
      BY <1>0, <2>0, <3>1
    <3> QED BY <2>0, <3>1, <3>2
  <2> DEFINE e == end[a]
  <2>2. DigitAt(u, a) /\ (\A k \in a .. e : Spaced(u, k)) /\ e \in Int /\ e >= i
    BY <1>0, <1>3, <2>0, <2>1
  <2> HIDE DEF e
  <2>3. \A k \in a .. i - 1 : k \in a .. e
    BY <2>0, <2>2
  <2> QED BY <2>2, <2>3, NoneBefore
<1>6. end[i] # 0
  BY <1>4
<1> QED BY <1>2, <1>4, <1>5, <1>6, MatchFound

CardEnds(u, k) ==
  {l \in k .. Len(u) : Grouped(u, k, l, {" ", "-"}) /\ Apart(u, k, l) /\ Len(DigitsOf(u, k, l)) \in {15, 16}}
SinEnds(u, k) ==
  {l \in k .. Len(u) : Grouped(u, k, l, {" ", "-"}) /\ Apart(u, k, l) /\ Len(DigitsOf(u, k, l)) = 9}

LEMMA CandsAre ==
  ASSUME NEW u, NEW n \in Nat, DOMAIN u = 1 .. n, Len(u) = n
  PROVE  /\ AreCands(u, n, [k \in 1 .. n |-> CardEnds(u, k)], [k \in DOMAIN u |-> CardCandEnd(u, k)])
         /\ AreCands(u, n, [k \in 1 .. n |-> SinEnds(u, k)], [k \in DOMAIN u |-> SinCandEnd(u, k)])
<1> DEFINE cards == [k \in 1 .. n |-> CardEnds(u, k)]
           sins == [k \in 1 .. n |-> SinEnds(u, k)]
           cardEnd == [k \in DOMAIN u |-> CardCandEnd(u, k)]
           sinEnd == [k \in DOMAIN u |-> SinCandEnd(u, k)]
<1>1. \A k \in 1 .. n : \A l \in CardEnds(u, k) : l \in k .. n /\ Grouped(u, k, l, {" ", "-"})
  BY DEF CardEnds
<1>2. \A k \in 1 .. n : \A l \in SinEnds(u, k) : l \in k .. n /\ Grouped(u, k, l, {" ", "-"})
  BY DEF SinEnds
<1>3. \A k \in 1 .. n : \A l \in k .. n : l \in 1 .. n /\ k <= l
  OBVIOUS
<1>4. \A k \in 1 .. n : CardEnds(u, k) \in SUBSET (1 .. n) /\ SinEnds(u, k) \in SUBSET (1 .. n)
  <2> TAKE k \in 1 .. n
  <2>1. \A l \in CardEnds(u, k) : l \in 1 .. n
    BY <1>1, <1>3
  <2>2. \A l \in SinEnds(u, k) : l \in 1 .. n
    BY <1>2, <1>3
  <2> QED BY <2>1, <2>2
<1>5. \A k \in 1 .. n : CardCandEnd(u, k) = Longest(CardEnds(u, k)) /\ SinCandEnd(u, k) = Longest(SinEnds(u, k))
  BY DEF CardCandEnd, SinCandEnd, CardEnds, SinEnds
<1>6. AreCands(u, n, cards, cardEnd)
  <2>1. cards \in [1 .. n -> SUBSET (1 .. n)] /\ DOMAIN cardEnd = 1 .. n
    BY <1>4
  <2>2. \A k \in 1 .. n : cardEnd[k] = Longest(cards[k])
    BY <1>5
  <2>3. \A k, l \in 1 .. n : l \in cards[k] => k <= l /\ Grouped(u, k, l, {" ", "-"})
    BY <1>1, <1>3
  <2> HIDE DEF cards, cardEnd
  <2> QED BY <2>1, <2>2, <2>3 DEF AreCands
<1>7. AreCands(u, n, sins, sinEnd)
  <2>1. sins \in [1 .. n -> SUBSET (1 .. n)] /\ DOMAIN sinEnd = 1 .. n
    BY <1>4
  <2>2. \A k \in 1 .. n : sinEnd[k] = Longest(sins[k])
    BY <1>5
  <2>3. \A k, l \in 1 .. n : l \in sins[k] => k <= l /\ Grouped(u, k, l, {" ", "-"})
    BY <1>2, <1>3
  <2> HIDE DEF sins, sinEnd
  <2> QED BY <2>1, <2>2, <2>3 DEF AreCands
<1> QED BY <1>6, <1>7

\* A number that stands alone is a candidate whole, and taken for what it is.
LEMMA CandsFind ==
  ASSUME NEW u, NEW n \in Nat, DOMAIN u = 1 .. n, Len(u) = n, NEW i \in 1 .. n, NEW j \in i .. n, StandsAlone(u, i, j)
  PROVE  \E s \in CardCands(u) \cup SinCands(u) : s.from = i /\ s.to = j /\ s.label \in Numbers
<1> DEFINE m == <<i, j>>
           cards == Matches([k \in DOMAIN u |-> CardCandEnd(u, k)])
           sins == Matches([k \in DOMAIN u |-> SinCandEnd(u, k)])
           card == Span(i, j, "payment_card", 97)
           sin == Span(i, j, "government_id", 90)
<1>1. /\ Solitary(u, i, j) /\ Apart(u, i, j) /\ DigitAt(u, i) /\ Grouped(u, i, j, {" ", "-"})
      /\ Len(DigitsOf(u, i, j)) \in {9, 15, 16} /\ LuhnOk(DigitsOf(u, i, j)) /\ ~Business(u, i, j)
  BY SecretsAssumption DEF StandsAlone, Grouped
<1>2. /\ AreCands(u, n, [k \in 1 .. n |-> CardEnds(u, k)], [k \in DOMAIN u |-> CardCandEnd(u, k)])
      /\ AreCands(u, n, [k \in 1 .. n |-> SinEnds(u, k)], [k \in DOMAIN u |-> SinCandEnd(u, k)])
  BY CandsAre
<1>3. Len(DigitsOf(u, i, j)) \in {15, 16} => m \in cards
  <2> HAVE Len(DigitsOf(u, i, j)) \in {15, 16}
  <2> DEFINE ends == [k \in 1 .. n |-> CardEnds(u, k)]
             end == [k \in DOMAIN u |-> CardCandEnd(u, k)]
  <2>1. j \in ends[i]
    BY <1>1 DEF CardEnds
  <2> HIDE DEF ends, end
  <2>2. <<i, j>> \in Matches(end)
    BY <1>1, <1>2, <2>1, CandFound DEF ends, end
  <2> QED BY <2>2 DEF end
<1>4. Len(DigitsOf(u, i, j)) = 9 => m \in sins
  <2> HAVE Len(DigitsOf(u, i, j)) = 9
  <2> DEFINE ends == [k \in 1 .. n |-> SinEnds(u, k)]
             end == [k \in DOMAIN u |-> SinCandEnd(u, k)]
  <2>1. j \in ends[i]
    BY <1>1 DEF SinEnds
  <2> HIDE DEF ends, end
  <2>2. <<i, j>> \in Matches(end)
    BY <1>1, <1>2, <2>1, CandFound DEF ends, end
  <2> QED BY <2>2 DEF end
<1> HIDE DEF cards, sins
<1>5. m[1] = i /\ m[2] = j
  OBVIOUS
<1> HIDE DEF m
<1>6. m \in cards => card \in CardCands(u)
  <2> HAVE m \in cards
  <2>1. m \in {c \in cards : LuhnOk(DigitsOf(u, c[1], c[2]))}
    BY <1>1, <1>5
  <2>2. Span(m[1], m[2], "payment_card", 97) \in CardCands(u)
    BY <2>1 DEF CardCands, cards
  <2> QED BY <1>5, <2>2
<1>7. m \in sins => sin \in SinCands(u)
  <2> HAVE m \in sins
  <2>1. m \in {c \in sins : LuhnOk(DigitsOf(u, c[1], c[2])) /\ ~Business(u, c[1], c[2])}
    BY <1>1, <1>5
  <2>2. Span(m[1], m[2], "government_id", 90) \in SinCands(u)
    BY <2>1 DEF SinCands, sins
  <2> QED BY <1>5, <2>2
<1>8. /\ card.from = i /\ card.to = j /\ card.label \in Numbers
      /\ sin.from = i /\ sin.to = j /\ sin.label \in Numbers
  BY DEF Span, Numbers
<1> HIDE DEF card, sin
<1> QED BY <1>1, <1>3, <1>4, <1>6, <1>7, <1>8

-----------------------------------------------------------------------------
(* Parts of a text *)

\* The part of a text from one place to another.
LEMMA PartIs ==
  ASSUME NEW t, IsText(t), NEW a \in 1 .. Len(t), NEW b \in a .. Len(t)
  PROVE  /\ IsText(SubSeq(t, a, b)) /\ Len(SubSeq(t, a, b)) = b + 1 - a /\ DOMAIN SubSeq(t, a, b) = 1 .. b + 1 - a
         /\ \A k \in 1 .. b + 1 - a : SubSeq(t, a, b)[k] = t[k + a - 1]
         /\ b + 1 - a \in Nat
<1> DEFINE u == SubSeq(t, a, b)
<1>1. Len(t) \in Nat /\ DOMAIN t = 1 .. Len(t) /\ t \in Seq(ToSet(t))
  BY TextIs DEF IsText
<1>2. a \in Int /\ b \in Int /\ 1 <= a /\ a <= b /\ b <= Len(t) /\ b + 1 - a \in Nat /\ (b - a) + 1 = b + 1 - a
  BY <1>1
<1>3. u = [i \in 1 .. (b - a) + 1 |-> t[i + a - 1]]
  OBVIOUS
<1>4. DOMAIN u = 1 .. b + 1 - a /\ \A k \in 1 .. b + 1 - a : u[k] = t[k + a - 1]
  BY <1>2, <1>3
<1>5. u = [i \in 1 .. b + 1 - a |-> u[i]]
  BY <1>2, <1>3
<1> DEFINE n == b + 1 - a
<1>6. IsText(u) /\ Len(u) = n
  <2>1. n \in Nat /\ DOMAIN u = 1 .. n /\ u = [i \in 1 .. n |-> u[i]]
    BY <1>2, <1>4, <1>5
  <2> HIDE DEF u, n
  <2> QED BY <2>1, RowIsText
<1> HIDE DEF u
<1> QED BY <1>2, <1>4, <1>6 DEF u

\* One text is in another, d places further on.
Within(u, w, d) ==
  /\ IsText(u) /\ IsText(w) /\ d \in Nat
  /\ \A k \in 1 .. Len(u) : k + d \in 1 .. Len(w) /\ u[k] = w[k + d]

LEMMA WithinIs ==
  ASSUME NEW u, NEW w, NEW d, Within(u, w, d)
  PROVE  /\ Len(u) \in Nat /\ DOMAIN u = 1 .. Len(u) /\ Len(w) \in Nat /\ DOMAIN w = 1 .. Len(w) /\ d \in Nat
         /\ \A k \in Int : DigitAt(u, k) => DigitAt(w, k + d)
         /\ \A k \in 1 .. Len(u) : k + d \in 1 .. Len(w) /\ u[k] = w[k + d]
         /\ \A k \in 1 .. Len(u) : /\ DigitAt(u, k) <=> DigitAt(w, k + d)
                                   /\ LetterAt(u, k) <=> LetterAt(w, k + d)
         /\ \A k \in Int : WordAt(u, k) => WordAt(w, k + d)
         /\ \A k \in Int : LetterAt(u, k) => LetterAt(w, k + d)
         /\ \A atoms : \A k \in Int : AtomIn(u, k, atoms) => AtomIn(w, k + d, atoms)
<1>1. Len(u) \in Nat /\ DOMAIN u = 1 .. Len(u) /\ Len(w) \in Nat /\ DOMAIN w = 1 .. Len(w) /\ d \in Nat
  BY TextIs DEF Within
<1>2. \A k \in 1 .. Len(u) : k + d \in 1 .. Len(w) /\ u[k] = w[k + d]
  BY DEF Within
<1>3. \A k \in 1 .. Len(u) : /\ DigitAt(u, k) <=> DigitAt(w, k + d)
                             /\ LetterAt(u, k) <=> LetterAt(w, k + d)
  BY <1>1, <1>2 DEF DigitAt, LetterAt
<1>4. \A k \in Int : DigitAt(u, k) => DigitAt(w, k + d)
  BY <1>1, <1>2 DEF DigitAt
<1>5. \A k \in Int : LetterAt(u, k) => LetterAt(w, k + d)
  BY <1>1, <1>2 DEF LetterAt
<1>6. \A atoms : \A k \in Int : AtomIn(u, k, atoms) => AtomIn(w, k + d, atoms)
  BY <1>1, <1>2 DEF AtomIn
<1>7. \A k \in Int : WordAt(u, k) => WordAt(w, k + d)
  BY <1>4, <1>5, <1>6 DEF WordAt
<1> QED BY <1>1, <1>2, <1>3, <1>4, <1>5, <1>6, <1>7

\* A number that stands alone in a text does so in every part that has it, and,
\* if a program account may follow, what says that it is none.
LEMMA StandsAloneWithin ==
  ASSUME NEW u, NEW w, NEW d, Within(u, w, d),
         NEW i \in 1 .. Len(u), NEW j \in i .. Len(u), StandsAlone(w, i + d, j + d),
         ProgramBehind(w, j + d) => \E c \in 1 .. i - 1 : CueAt(w, c + d, SinCues)
  PROVE  StandsAlone(u, i, j)
<1>0. /\ Len(u) \in Nat /\ DOMAIN u = 1 .. Len(u) /\ Len(w) \in Nat /\ DOMAIN w = 1 .. Len(w) /\ d \in Nat
      /\ \A k \in Int : DigitAt(u, k) => DigitAt(w, k + d)
      /\ \A k \in 1 .. Len(u) : k + d \in 1 .. Len(w) /\ u[k] = w[k + d]
      /\ \A k \in 1 .. Len(u) : /\ DigitAt(u, k) <=> DigitAt(w, k + d)
                                /\ LetterAt(u, k) <=> LetterAt(w, k + d)
      /\ \A k \in Int : WordAt(u, k) => WordAt(w, k + d)
      /\ \A k \in Int : LetterAt(u, k) => LetterAt(w, k + d)
      /\ \A atoms : \A k \in Int : AtomIn(u, k, atoms) => AtomIn(w, k + d, atoms)
  BY WithinIs
<1>1. i \in Int /\ j \in Int /\ 1 <= i /\ i <= j /\ j <= Len(u) /\ j \in 1 .. Len(u)
  BY <1>0
<1>2. Grouped(u, i, j, {" ", "-"})
  <2>1. DigitAt(u, i) /\ DigitAt(u, j)
    BY <1>0, <1>1 DEF StandsAlone, Grouped
  <2>2. ASSUME NEW k \in i .. j, ~DigitAt(u, k)
        PROVE  u[k] \in {" ", "-"} /\ DigitAt(u, k - 1) /\ DigitAt(u, k + 1)
    <3>1. k \in 1 .. Len(u) /\ k # i /\ k # j /\ k + d \in i + d .. j + d /\ k \in Int
      BY <1>0, <1>1, <2>1, <2>2
    <3>2. k - 1 \in 1 .. Len(u) /\ k + 1 \in 1 .. Len(u) /\ (k + d) - 1 = (k - 1) + d /\ (k + d) + 1 = (k + 1) + d
      BY <1>0, <1>1, <3>1
    <3>3. ~DigitAt(w, k + d)
      BY <1>0, <2>2, <3>1
    <3>4. w[k + d] \in {" ", "-"} /\ DigitAt(w, (k + d) - 1) /\ DigitAt(w, (k + d) + 1)
      BY <3>1, <3>3 DEF StandsAlone, Grouped
    <3>5. DigitAt(w, (k - 1) + d) /\ DigitAt(w, (k + 1) + d)
      BY <3>2, <3>4
    <3> QED BY <1>0, <3>1, <3>2, <3>4, <3>5
  <2> QED BY <2>1, <2>2 DEF Grouped
<1>3. DigitsOf(u, i, j) = DigitsOf(w, i + d, j + d)
  <2>1. (j + d) + 1 - (i + d) = j + 1 - i
    BY <1>0, <1>1
  <2>2. ASSUME NEW k \in 1 .. (j + 1 - i)
        PROVE  (IF DigitAt(u, i + k - 1) THEN Digits[u[i + k - 1]] ELSE <<>>)
                 = IF DigitAt(w, (i + d) + k - 1) THEN Digits[w[(i + d) + k - 1]] ELSE <<>>
    <3>1. i + k - 1 \in 1 .. Len(u) /\ (i + k - 1) + d = (i + d) + k - 1
      BY <1>0, <1>1
    <3>2. (DigitAt(u, i + k - 1) <=> DigitAt(w, (i + d) + k - 1)) /\ u[i + k - 1] = w[(i + d) + k - 1]
      BY <1>0, <3>1
    <3> QED BY <3>2
  <2> QED BY <2>1, <2>2 DEF DigitsOf
<1>4. Apart(u, i, j)
  <2>1. (i - 1) + d = (i + d) - 1 /\ (j + 1) + d = (j + d) + 1 /\ i - 1 \in Int /\ j + 1 \in Int
    BY <1>0, <1>1
  <2>2. ~WordAt(w, (i - 1) + d) /\ ~WordAt(w, (j + 1) + d)
    BY <2>1 DEF StandsAlone, Apart
  <2> QED BY <1>0, <2>1, <2>2 DEF Apart
<1>5. Solitary(u, i, j)
  <2>1. ASSUME NEW k \in (DOMAIN u) \ (i .. j), DigitAt(u, k)
        PROVE  \E n \in (k + 1 .. i - 1) \cup (j + 1 .. k - 1) : u[n] \notin {" ", "  ", "-"}
    <3>1. k \in 1 .. Len(u) /\ k \in Int /\ k + d \in (DOMAIN w) \ (i + d .. j + d) /\ DigitAt(w, k + d)
      BY <1>0, <1>1, <2>1
    <3>2. PICK m \in ((k + d) + 1 .. (i + d) - 1) \cup ((j + d) + 1 .. (k + d) - 1) : w[m] \notin {" ", "  ", "-"}
      BY <3>1 DEF StandsAlone, Solitary
    <3> DEFINE n == m - d
    <3>3. n + d = m /\ n \in (k + 1 .. i - 1) \cup (j + 1 .. k - 1) /\ n \in 1 .. Len(u)
      BY <1>0, <1>1, <3>1
    <3> HIDE DEF n
    <3> QED BY <1>0, <3>2, <3>3
  <2> QED BY <2>1 DEF Solitary
<1>6. ~Business(u, i, j)
  <2>1. SUFFICES ASSUME ProgramSuffix(u, j) PROVE CueBefore(u, i, SinCues)
    BY DEF Business
  <2>2. PICK p \in {j + 1, j + 2} : AtomIn(u, p, Programs) /\ (p = j + 2 => AtomIn(u, j + 1, {" ", "-"}))
    BY <2>1 DEF ProgramSuffix
  <2>3. p \in Int /\ p + d \in {(j + d) + 1, (j + d) + 2} /\ (p + d = (j + d) + 2 => p = j + 2)
        /\ (j + 1) + d = (j + d) + 1 /\ j + 1 \in Int
    BY <1>0, <1>1
  <2>4. AtomIn(w, p + d, Programs) /\ (p = j + 2 => AtomIn(w, (j + d) + 1, {" ", "-"}))
    BY <1>0, <2>2, <2>3
  <2>5. ProgramBehind(w, j + d)
    BY <2>3, <2>4 DEF ProgramBehind
  <2>6. PICK c \in 1 .. i - 1 : CueAt(w, c + d, SinCues)
    BY <2>5
  <2>7. c \in 1 .. Len(u) /\ (c - 1) + d = (c + d) - 1 /\ (c + 1) + d = (c + d) + 1 /\ c - 1 \in Int /\ c + 1 \in Int /\ c \in Int
    BY <1>0, <1>1
  <2>8. u[c] = w[c + d] /\ w[c + d] \in SinCues /\ ~LetterAt(w, (c + d) - 1) /\ ~LetterAt(w, (c + d) + 1)
    BY <1>0, <2>6, <2>7 DEF CueAt, AtomIn, LetterBeside
  <2>9. ~LetterAt(u, c - 1) /\ ~LetterAt(u, c + 1)
    <3>1. ~LetterAt(w, (c - 1) + d) /\ ~LetterAt(w, (c + 1) + d)
      BY <2>7, <2>8
    <3> QED BY <1>0, <2>7, <3>1
  <2>10. CueAt(u, c, SinCues)
    BY <1>0, <2>7, <2>8, <2>9 DEF CueAt, AtomIn, LetterBeside
  <2> QED BY <2>10 DEF CueBefore
<1> QED BY <1>2, <1>3, <1>4, <1>5, <1>6 DEF StandsAlone

\* The clean form of a part is a part of the clean form.
LEMMA CleanWithin ==
  ASSUME NEW t, IsText(t), NEW a \in 1 .. Len(t), NEW b \in a .. Len(t)
  PROVE  \E d : /\ Within(Clean(SubSeq(t, a, b)), Clean(t), d)
                /\ \A k \in 1 .. Len(Clean(SubSeq(t, a, b))) : IdxMap(t)[k + d] = IdxMap(SubSeq(t, a, b))[k] + a - 1
                /\ \A m \in 1 .. Len(Clean(t)) : IdxMap(t)[m] \in a .. b => m - d \in 1 .. Len(Clean(SubSeq(t, a, b)))
<1> DEFINE u == SubSeq(t, a, b)
           S == Visible(t)
           R == Visible(u)
           B == {k \in S : k < a}
           d == Cardinality(B)
           n == b + 1 - a
<1>1. Len(t) \in Nat /\ DOMAIN t = 1 .. Len(t) /\ a \in Int /\ b \in Int /\ 1 <= a /\ a <= b /\ b <= Len(t)
  BY TextIs
<1>2. IsText(u) /\ Len(u) = n /\ DOMAIN u = 1 .. n /\ n \in Nat /\ \A k \in 1 .. n : u[k] = t[k + a - 1]
  BY PartIs
<1> HIDE DEF u, n
<1>3. \A k \in 1 .. n : k \in Int /\ k + a - 1 \in a .. b /\ k + a - 1 \in 1 .. Len(t)
  BY <1>1, <1>2 DEF n
<1>4. \A m \in a .. b : m - (a - 1) \in 1 .. n /\ (m - (a - 1)) + a - 1 = m
  BY <1>1 DEF n
<1>5. \A k \in 1 .. n : k \in R <=> k + a - 1 \in S
  BY <1>1, <1>2, <1>3 DEF Visible
<1>6. R \in SUBSET (1 .. n) /\ S \in SUBSET (1 .. Len(t)) /\ IsFiniteSet(S) /\ IsFiniteSet(R) /\ IsFiniteSet(B) /\ d \in Nat
  <2>1. R \in SUBSET (1 .. n) /\ S \in SUBSET (1 .. Len(t)) /\ B \in SUBSET S
    BY <1>1, <1>2 DEF Visible
  <2>2. IsFiniteSet(1 .. n) /\ IsFiniteSet(1 .. Len(t))
    BY FS_Interval, <1>1, <1>2
  <2> HIDE DEF S, R, B
  <2> QED BY <2>1, <2>2, FS_Subset, FS_CardinalityType
\* The rank of a place in the whole is its rank in the part and what is before.
<1>7. ASSUME NEW k \in R PROVE RankIn(S, k + a - 1) = RankIn(R, k) + d /\ RankIn(R, k) \in Nat
  <2> DEFINE P == {j \in R : j <= k}
             Q == {j \in S : a <= j /\ j <= k + a - 1}
             h == [j \in P |-> j + a - 1]
  <2>0. k \in 1 .. n /\ k \in Int
    BY <1>3, <1>6
  <2>1. P \in SUBSET R /\ Q \in SUBSET S /\ IsFiniteSet(P) /\ IsFiniteSet(Q)
    <3>1. P \in SUBSET R /\ Q \in SUBSET S
      OBVIOUS
    <3> HIDE DEF P, Q, R, S
    <3> QED BY <1>6, <3>1, FS_Subset
  <2>2. h \in Bijection(P, Q)
    <3>1. \A j \in P : j \in Int /\ j \in 1 .. n /\ j + a - 1 \in Q
      <4> TAKE j \in P
      <4>1. j \in R /\ j \in 1 .. n /\ j \in Int /\ j <= k
        BY <1>3, <1>6
      <4>2. j + a - 1 \in S /\ a <= j + a - 1 /\ j + a - 1 <= k + a - 1
        BY <1>1, <1>5, <2>0, <4>1
      <4> QED BY <4>1, <4>2
    <3>2. \A m \in Q : m - (a - 1) \in P /\ (m - (a - 1)) + a - 1 = m
      <4> TAKE m \in Q
      <4>1. m \in S /\ m \in Int /\ a <= m /\ m <= k + a - 1
        BY <1>6
      <4>2. m \in a .. b
        BY <1>1, <1>3, <2>0, <4>1
      <4>3. m - (a - 1) \in 1 .. n /\ (m - (a - 1)) + a - 1 = m
        BY <1>4, <4>2
      <4>4. m - (a - 1) \in R /\ m - (a - 1) <= k
        BY <1>1, <1>5, <2>0, <4>1, <4>3
      <4> QED BY <4>3, <4>4
    <3>3. \A j \in P : h[j] = j + a - 1
      OBVIOUS
    <3>4. h \in [P -> Q]
      BY <3>1
    <3> HIDE DEF P, Q, h
    <3>5. \A i, j \in P : h[i] = h[j] => i = j
      BY <1>1, <3>1, <3>3
    <3>6. \A m \in Q : \E j \in P : h[j] = m
      BY <3>2, <3>3
    <3> QED BY <3>4, <3>5, <3>6 DEF Bijection, Injection, Surjection, IsInjective
  <2>3. Cardinality(P) = Cardinality(Q) /\ Cardinality(P) \in Nat
    <3> HIDE DEF P, Q, h
    <3>1. ExistsBijection(P, Q)
      BY <2>2 DEF ExistsBijection
    <3> QED BY <2>1, <3>1, FS_Bijection, FS_CardinalityType
  <2>4. {j \in S : j <= k + a - 1} = B \cup Q /\ B \cap Q = {}
    <3>1. \A j \in S : j \in Int
      BY <1>6
    <3>2. k + a - 1 \in Int /\ a <= k + a - 1
      BY <1>1, <1>3, <2>0
    <3>3. \A j \in S : j <= k + a - 1 <=> (j < a \/ (a <= j /\ j <= k + a - 1))
      BY <1>1, <3>1, <3>2
    <3>4. \A j \in S : ~(j < a /\ a <= j)
      BY <1>1, <3>1
    <3> QED BY <3>3, <3>4
  <2>5. Cardinality(B \cup Q) = Cardinality(B) + Cardinality(Q) - Cardinality(B \cap Q) /\ Cardinality({}) = 0
    <3> HIDE DEF B, Q
    <3> QED BY <1>6, <2>1, FS_Union, FS_EmptySet
  <2>6. Cardinality(B \cup Q) = d + Cardinality(P)
    <3>1. Cardinality(B \cup Q) = d + Cardinality(Q) - 0
      BY <2>4, <2>5
    <3> HIDE DEF d, P, Q, B
    <3> QED BY <1>6, <2>3, <3>1
  <2>7. RankIn(R, k) = Cardinality(P) /\ RankIn(S, k + a - 1) = Cardinality(B \cup Q)
    BY <2>4 DEF RankIn
  <2> QED BY <1>6, <2>3, <2>6, <2>7
<1>8. /\ Lists(IdxMap(t), S) /\ Lists(IdxMap(u), R) /\ IsText(Clean(t)) /\ IsText(Clean(u))
      /\ DOMAIN IdxMap(t) = 1 .. Len(Clean(t)) /\ DOMAIN IdxMap(u) = 1 .. Len(Clean(u))
      /\ Len(Clean(t)) \in Nat /\ Len(Clean(u)) \in Nat
      /\ \A k \in 1 .. Len(Clean(t)) : Clean(t)[k] = t[IdxMap(t)[k]] /\ IdxMap(t)[k] \in 1 .. Len(t)
      /\ \A k \in 1 .. Len(Clean(u)) : Clean(u)[k] = u[IdxMap(u)[k]] /\ IdxMap(u)[k] \in 1 .. n
  BY <1>2, CleanIs
<1> DEFINE it == IdxMap(t)
           iu == IdxMap(u)
           ct == Clean(t)
           cu == Clean(u)
<1> HIDE DEF S, R, it, iu, ct, cu, d
\* The list of the part at a place is that of the whole d places on.
<1>9. ASSUME NEW m \in 1 .. Len(ct), NEW k \in R, it[m] = k + a - 1 PROVE m = RankIn(R, k) + d
  <2>1. RankIn(S, it[m]) = m
    BY <1>8 DEF Lists, it, ct
  <2> QED BY <1>7, <1>9, <2>1
<1>10. ASSUME NEW k \in 1 .. Len(cu) PROVE k + d \in 1 .. Len(ct) /\ it[k + d] = iu[k] + a - 1
  <2>1. iu[k] \in R /\ RankIn(R, iu[k]) = k /\ iu[k] \in 1 .. n
    BY <1>8 DEF Lists, iu, cu
  <2>2. iu[k] + a - 1 \in S
    BY <1>5, <2>1
  <2>3. PICK m \in 1 .. Len(ct) : it[m] = iu[k] + a - 1
    BY <1>8, <2>2 DEF Lists, it, ct
  <2>4. m = k + d
    BY <1>9, <2>1, <2>3
  <2> QED BY <2>3, <2>4
<1>11. ASSUME NEW m \in 1 .. Len(ct), it[m] \in a .. b PROVE m - d \in 1 .. Len(cu)
  <2> DEFINE k == it[m] - (a - 1)
  <2>1. it[m] \in S
    BY <1>8 DEF Lists, it, ct
  <2>2. k \in 1 .. n /\ k + a - 1 = it[m]
    BY <1>4, <1>11
  <2> HIDE DEF k
  <2>3. k \in R
    BY <1>5, <2>1, <2>2
  <2>4. m = RankIn(R, k) + d
    BY <1>9, <2>2, <2>3
  <2>5. PICK l \in 1 .. Len(cu) : iu[l] = k
    BY <1>8, <2>3 DEF Lists, iu, cu
  <2>6. RankIn(R, iu[l]) = l
    BY <1>8 DEF Lists, iu, cu
  <2>7. m - d = l
    BY <1>6, <2>4, <2>5, <2>6 DEF d
  <2> QED BY <2>7
<1>12. Within(cu, ct, d)
  <2>1. ASSUME NEW k \in 1 .. Len(cu) PROVE k + d \in 1 .. Len(ct) /\ cu[k] = ct[k + d]
    <3>1. k + d \in 1 .. Len(ct) /\ it[k + d] = iu[k] + a - 1
      BY <1>10
    <3>2. cu[k] = u[iu[k]] /\ iu[k] \in 1 .. n /\ ct[k + d] = t[it[k + d]]
      BY <1>8, <3>1 DEF it, iu, ct, cu
    <3>3. u[iu[k]] = t[iu[k] + a - 1]
      BY <1>2, <3>2
    <3> QED BY <3>1, <3>2, <3>3
  <2> QED BY <1>6, <1>8, <2>1 DEF Within, cu, ct, d
<1>13. /\ Within(cu, ct, d) /\ \A k \in 1 .. Len(cu) : it[k + d] = iu[k] + a - 1
       /\ \A m \in 1 .. Len(ct) : it[m] \in a .. b => m - d \in 1 .. Len(cu)
  BY <1>10, <1>11, <1>12
<1> QED BY <1>13 DEF it, iu, ct, cu, u

LEMMA NormWithin ==
  ASSUME NEW u, NEW w, NEW d, Within(u, w, d)
  PROVE  Within(NormSeps(u), NormSeps(w), d) /\ Len(NormSeps(u)) = Len(u) /\ Len(NormSeps(w)) = Len(w)
<1>1. IsText(u) /\ IsText(w) /\ d \in Nat /\ \A k \in 1 .. Len(u) : k + d \in 1 .. Len(w) /\ u[k] = w[k + d]
  BY DEF Within
<1>2. /\ IsText(NormSeps(u)) /\ Len(NormSeps(u)) = Len(u)
      /\ \A i \in 1 .. Len(u) : NormSeps(u)[i] = IF u[i] \in DOMAIN AsciiForm THEN AsciiForm[u[i]] ELSE u[i]
  BY <1>1, NormSepsIs
<1>3. /\ IsText(NormSeps(w)) /\ Len(NormSeps(w)) = Len(w)
      /\ \A i \in 1 .. Len(w) : NormSeps(w)[i] = IF w[i] \in DOMAIN AsciiForm THEN AsciiForm[w[i]] ELSE w[i]
  BY <1>1, NormSepsIs
<1>4. \A k \in 1 .. Len(u) : NormSeps(u)[k] = NormSeps(w)[k + d]
  BY <1>1, <1>2, <1>3
<1> QED BY <1>1, <1>2, <1>3, <1>4 DEF Within

\* The gate finds in a window what stands alone in the text, if the window has
\* it whole, and what says that it is no Business Number if it may be one.
LEMMA WindowFinds ==
  ASSUME NEW t, IsText(t), NEW v \in Views(t), NEW p \in AloneIn(v.text),
         NEW a \in 1 .. Len(t), NEW b \in a .. Len(t), a <= v.at[p[1]], v.at[p[2]] <= b,
         ProgramBehind(v.text, p[2]) =>
           \E c \in 1 .. p[1] - 1 : CueAt(v.text, c, SinCues) /\ a <= v.at[c] /\ v.at[c] <= b
  PROVE  \E s \in ValidatedFloor(SubSeq(t, a, b)) :
           s.from + a - 1 = v.at[p[1]] /\ s.to + a - 1 = v.at[p[2]] /\ s.label \in Numbers
<1> DEFINE u == SubSeq(t, a, b)
           n == b + 1 - a
<1>0. Len(t) \in Nat /\ DOMAIN t = 1 .. Len(t) /\ a \in Int /\ b \in Int /\ 1 <= a /\ a <= b /\ b <= Len(t) /\ n \in Nat
  BY TextIs
<1>1. IsText(u) /\ Len(u) = n /\ \A k \in 1 .. n : u[k] = t[k + a - 1]
  BY PartIs
<1> HIDE DEF u
<1>2. CASE v.text = NormSeps(t) /\ v.at = [i \in 1 .. Len(t) |-> i]
  <2> DEFINE w == NormSeps(t)
             x == NormSeps(u)
             d == a - 1
             i == p[1] - d
             j == p[2] - d
  <2>1. Within(u, t, d)
    <3>1. d \in Nat /\ \A k \in 1 .. n : k + d \in 1 .. Len(t) /\ k + d = k + a - 1
      BY <1>0
    <3> HIDE DEF d, n
    <3> QED BY <1>1, <3>1 DEF Within
  <2>2. Within(x, w, d) /\ Len(x) = n /\ Len(w) = Len(t) /\ IsText(w) /\ IsText(x)
    <3> HIDE DEF d
    <3>1. Within(NormSeps(u), NormSeps(t), d) /\ Len(NormSeps(u)) = Len(u) /\ Len(NormSeps(t)) = Len(t)
      BY <2>1, NormWithin
    <3>2. IsText(NormSeps(u)) /\ IsText(NormSeps(t))
      BY <3>1 DEF Within
    <3> QED BY <1>1, <3>1, <3>2
  <2>3. p[1] \in 1 .. Len(t) /\ p[2] \in p[1] .. Len(t) /\ Alone(w, p[1], p[2])
    <3>1. p \in AloneIn(w)
      BY <1>2
    <3> HIDE DEF w
    <3> QED BY <2>2, <3>1, AloneInIs
  <2>4. v.at[p[1]] = p[1] /\ v.at[p[2]] = p[2] /\ \A c \in 1 .. p[1] - 1 : v.at[c] = c
    <3>1. p[2] \in 1 .. Len(t) /\ \A c \in 1 .. p[1] - 1 : c \in 1 .. Len(t)
      BY <1>0, <2>3
    <3> QED BY <1>2, <2>3, <3>1
  <2>5. i \in 1 .. n /\ j \in i .. n /\ i + d = p[1] /\ j + d = p[2] /\ d \in Nat
    BY <1>0, <2>3, <2>4
  <2>6. StandsAlone(w, i + d, j + d)
    BY <2>3, <2>5 DEF Alone, StandsAlone
  <2>7. ProgramBehind(w, j + d) => \E c \in 1 .. i - 1 : CueAt(w, c + d, SinCues)
    <3> HAVE ProgramBehind(w, j + d)
    <3>1. PICK c \in 1 .. p[1] - 1 : CueAt(w, c, SinCues) /\ a <= c
      BY <1>2, <2>4, <2>5
    <3>2. c - d \in 1 .. i - 1 /\ (c - d) + d = c
      BY <1>0, <2>3, <3>1
    <3> HIDE DEF i, d, w
    <3> QED BY <3>1, <3>2
  <2> HIDE DEF w, x, d, i, j, n
  <2>8. StandsAlone(x, i, j)
    BY <2>2, <2>5, <2>6, <2>7, StandsAloneWithin
  <2>9. PICK s \in CardCands(x) \cup SinCands(x) : s.from = i /\ s.to = j /\ s.label \in Numbers
    <3>1. DOMAIN x = 1 .. n
      BY <2>2, TextIs
    <3> QED BY <1>0, <2>2, <2>5, <2>8, <3>1, CandsFind
  <2>10. s \in ValidatedFloor(u)
    BY <2>9 DEF ValidatedFloor, GateScanOnce, x
  <2>11. i + a - 1 = p[1] /\ j + a - 1 = p[2]
    BY <1>0, <2>3 DEF i, j, d
  <2> QED BY <2>4, <2>9, <2>10, <2>11 DEF u
<1>3. CASE v.text = NormSeps(Clean(t)) /\ v.at = IdxMap(t)
  <2> DEFINE at == IdxMap(t)
             ct == Clean(t)
             cu == Clean(u)
             w == NormSeps(ct)
             x == NormSeps(cu)
             m == Len(ct)
             l == Len(cu)
  <2>1. PICK d : /\ Within(cu, ct, d) /\ \A k \in 1 .. l : at[k + d] = IdxMap(u)[k] + a - 1
                 /\ \A k \in 1 .. m : at[k] \in a .. b => k - d \in 1 .. l
    BY CleanWithin DEF u
  <2>2. /\ Within(x, w, d) /\ Len(x) = l /\ Len(w) = m /\ IsText(w) /\ IsText(x) /\ d \in Nat
        /\ l \in Nat /\ m \in Nat
    <3> HIDE DEF cu, ct
    <3>1. Within(NormSeps(cu), NormSeps(ct), d) /\ Len(NormSeps(cu)) = Len(cu) /\ Len(NormSeps(ct)) = Len(ct)
      BY <2>1, NormWithin
    <3>2. IsText(cu) /\ IsText(ct) /\ d \in Nat
      BY <2>1 DEF Within
    <3>3. IsText(NormSeps(cu)) /\ IsText(NormSeps(ct))
      BY <3>1 DEF Within
    <3>4. Len(cu) \in Nat /\ Len(ct) \in Nat
      BY <3>2, TextIs
    <3> QED BY <3>1, <3>2, <3>3, <3>4
  <2>3. p[1] \in 1 .. m /\ p[2] \in p[1] .. m /\ p[2] \in 1 .. m /\ Alone(w, p[1], p[2])
    <3>1. p \in AloneIn(w)
      BY <1>3
    <3> HIDE DEF w, m
    <3>2. p[1] \in 1 .. m /\ p[2] \in p[1] .. m /\ Alone(w, p[1], p[2])
      BY <2>2, <3>1, AloneInIs
    <3> QED BY <2>2, <3>2
  <2>4. /\ \A k \in 1 .. m : at[k] \in 1 .. Len(t)
        /\ \A k, h \in 1 .. m : k < h => at[k] < at[h]
    BY CleanIs DEF Lists
  <2>5. v.at = at /\ at[p[1]] \in a .. b /\ at[p[2]] \in a .. b
    <3>1. p[1] = p[2] \/ p[1] < p[2]
      BY <2>3
    <3>2. at[p[1]] \in 1 .. Len(t) /\ at[p[2]] \in 1 .. Len(t) /\ (p[1] = p[2] \/ at[p[1]] < at[p[2]])
      BY <2>3, <2>4, <3>1
    <3>3. v.at = at
      BY <1>3
    <3> HIDE DEF at, m
    <3> QED BY <1>0, <3>2, <3>3
  <2> DEFINE i == p[1] - d
             j == p[2] - d
  <2>6. i \in 1 .. l /\ j \in i .. l /\ i + d = p[1] /\ j + d = p[2]
    <3>1. p[1] - d \in 1 .. l /\ p[2] - d \in 1 .. l
      BY <2>1, <2>3, <2>5
    <3> HIDE DEF l, m
    <3> QED BY <2>2, <2>3, <3>1
  <2>7. StandsAlone(w, i + d, j + d)
    BY <2>3, <2>6 DEF Alone, StandsAlone
  <2>8. ProgramBehind(w, j + d) => \E c \in 1 .. i - 1 : CueAt(w, c + d, SinCues)
    <3> HAVE ProgramBehind(w, j + d)
    <3>1. PICK c \in 1 .. p[1] - 1 : CueAt(w, c, SinCues) /\ a <= at[c] /\ at[c] <= b
      BY <1>3, <2>5, <2>6
    <3>2. c \in 1 .. m /\ at[c] \in a .. b
      <4>1. c \in 1 .. m
        <5> HIDE DEF m, at
        <5> QED BY <2>2, <2>3
      <4>2. at[c] \in 1 .. Len(t)
        BY <2>4, <4>1
      <4> HIDE DEF at, m
      <4> QED BY <1>0, <3>1, <4>1, <4>2
    <3>3. c - d \in 1 .. l
      BY <2>1, <3>2
    <3>4. c - d \in 1 .. i - 1 /\ (c - d) + d = c
      <4> HIDE DEF l, m
      <4> QED BY <2>2, <2>3, <3>1, <3>3
    <3> HIDE DEF i, w
    <3> QED BY <3>1, <3>4
  <2> HIDE DEF i, j, w, x, l, m
  <2>9. StandsAlone(x, i, j)
    BY <2>2, <2>6, <2>7, <2>8, StandsAloneWithin
  <2>10. PICK s \in CardCands(x) \cup SinCands(x) : s.from = i /\ s.to = j /\ s.label \in Numbers
    <3>1. DOMAIN x = 1 .. l
      BY <2>2, TextIs
    <3> QED BY <2>2, <2>6, <2>9, <3>1, CandsFind
  <2>11. s \in GateScanOnce(cu)
    BY <2>10 DEF GateScanOnce, x
  <2>12. at[p[1]] = IdxMap(u)[i] + a - 1 /\ at[p[2]] = IdxMap(u)[j] + a - 1
    <3>1. j \in 1 .. l
      BY <2>2, <2>6
    <3> HIDE DEF at
    <3> QED BY <2>1, <2>6, <3>1
  <2>13. CASE HasFormatChars(u)
    <3> DEFINE r == MappedBack(s, IdxMap(u))
    <3>1. cu # <<>>
      <4>1. l # 0 /\ Len(<<>>) = 0
        BY <2>2, <2>6
      <4> QED BY <4>1 DEF l
    <3>2. r \in ValidatedFloor(u)
      BY <2>11, <2>13, <3>1 DEF ValidatedFloor, cu
    <3>3. s \in SpansOf(Len(Clean(u)))
      <4>1. IsText(cu)
        BY <1>1, CleanIs DEF cu
      <4> QED BY <2>11, <4>1, ScanTyped DEF cu
    <3>4. r = Span(IdxMap(u)[s.from], IdxMap(u)[s.to], s.label, s.conf)
      BY <1>1, <3>3, MappedTyped
    <3>5. r.from = IdxMap(u)[i] /\ r.to = IdxMap(u)[j] /\ r.label \in Numbers
      BY <2>10, <3>4 DEF Span
    <3> HIDE DEF r
    <3> QED BY <2>5, <2>12, <3>2, <3>5 DEF u
  <2>14. CASE ~HasFormatChars(u)
    <3>1. cu = u /\ IdxMap(u) = [k \in 1 .. Len(u) |-> k]
      BY <1>1, <2>14, AllVisible DEF cu
    <3>2. IdxMap(u)[i] = i /\ IdxMap(u)[j] = j
      <4>1. i \in 1 .. Len(u) /\ j \in 1 .. Len(u)
        BY <2>2, <2>6, <3>1 DEF l
      <4> QED BY <3>1, <4>1
    <3>3. s \in ValidatedFloor(u)
      BY <2>11, <3>1 DEF ValidatedFloor
    <3> QED BY <2>5, <2>10, <2>12, <3>2, <3>3 DEF u
  <2> QED BY <2>13, <2>14
<1> QED BY <1>2, <1>3, ViewIs

-----------------------------------------------------------------------------
(* Names that grow, and repeats *)

LEMMA CompleteIs ==
  ASSUME NEW t, Len(t) \in Nat, NEW i \in 1 .. Len(t)
  PROVE  CompleteLeft(t, i) \in 1 .. i /\ CompleteRight(t, i) \in i .. Len(t)
<1> DEFINE L == {b \in 1 .. i : \A k \in b .. i - 1 : LetterOrJoint(t, k)}
           R == {e \in i .. Len(t) : \A k \in i + 1 .. e : LetterOrJoint(t, k)}
<1>1. i \in L /\ i \in R
  OBVIOUS
<1>2. L \in SUBSET Nat /\ R \in SUBSET (0 .. Len(t))
  <2>1. \A b \in L : b \in Nat
    OBVIOUS
  <2>2. \A e \in R : e \in 0 .. Len(t)
    OBVIOUS
  <2> HIDE DEF L, R
  <2> QED BY <2>1, <2>2
<1>3. Min(L) \in L /\ Max(R) \in R
  <2> HIDE DEF L, R
  <2> QED BY <1>1, <1>2, MinIsLeast, MaxIsLargest
<1>4. CompleteLeft(t, i) = Min(L) /\ CompleteRight(t, i) = Max(R)
  BY DEF CompleteLeft, CompleteRight
<1> QED BY <1>3, <1>4

LEMMA RightOfIs ==
  ASSUME NEW t, Len(t) \in Nat, NEW toks \in Seq(Pairs(Len(t))), NEW e \in 1 .. Len(t), NEW room
  PROVE  RightOf(t, toks, e, room) \in e .. Len(t)
<1> DEFINE after(k) == toks[k][1] > e
           joins(k) == /\ t[toks[k][1] - 1] = " " /\ Absorbable(t, toks[k])
                       /\ toks[k][1] - 2 = e \/ (k > 1 /\ after(k - 1) /\ toks[k][1] - 2 = toks[k - 1][2])
           M == {m \in DOMAIN toks :
                   /\ after(m) /\ Cardinality({k \in 1 .. m : after(k)}) <= room
                   /\ \A k \in 1 .. m : after(k) => joins(k)}
           S == {e} \cup {toks[n][2] : n \in M}
<1>1. RightOf(t, toks, e, room) = Max(S)
  BY DEF RightOf
<1>2. M \in SUBSET DOMAIN toks
  OBVIOUS
<1> HIDE DEF M
<1>3. \A n \in DOMAIN toks : toks[n][2] \in 1 .. Len(t)
  <2>1. \A n \in DOMAIN toks : toks[n] \in Pairs(Len(t))
    BY LenProperties, ElementOfSeq
  <2> QED BY <2>1, PairsIs
<1>4. S \in SUBSET (0 .. Len(t)) /\ e \in S /\ S # {}
  <2>1. \A k \in S : k \in 0 .. Len(t)
    BY <1>2, <1>3
  <2> QED BY <2>1
<1>5. Max(S) \in S /\ e <= Max(S)
  <2> HIDE DEF S
  <2> QED BY <1>4, MaxIsLargest
<1>6. \A x \in S : x \in 0 .. Len(t)
  BY <1>4
<1> HIDE DEF S
<1>7. \A x \in 0 .. Len(t) : e <= x => x \in e .. Len(t)
  OBVIOUS
<1> QED BY <1>1, <1>5, <1>6, <1>7

LEMMA LeftOfIs ==
  ASSUME NEW t, Len(t) \in Nat, NEW toks \in Seq(Pairs(Len(t))), NEW b \in 1 .. Len(t), NEW room
  PROVE  LeftOf(t, toks, b, room) \in 1 .. b
<1> DEFINE before(k) == toks[k][2] < b
           joins(k) == /\ AtomIn(t, toks[k][2] + 1, {" "}) /\ Absorbable(t, toks[k])
                       /\ toks[k][2] + 2 = b \/ (k < Len(toks) /\ before(k + 1) /\ toks[k][2] + 2 = toks[k + 1][1])
           M == {m \in DOMAIN toks :
                   /\ before(m) /\ Cardinality({k \in m .. Len(toks) : before(k)}) <= room
                   /\ \A k \in m .. Len(toks) : before(k) => joins(k)}
           S == {b} \cup {toks[n][1] : n \in M}
<1>1. LeftOf(t, toks, b, room) = Min(S)
  BY DEF LeftOf
<1>2. M \in SUBSET DOMAIN toks
  OBVIOUS
<1> HIDE DEF M
<1>3. \A n \in DOMAIN toks : toks[n][1] \in 1 .. Len(t)
  <2>1. \A n \in DOMAIN toks : toks[n] \in Pairs(Len(t))
    BY LenProperties, ElementOfSeq
  <2> QED BY <2>1, PairsIs
<1>4. S \in SUBSET (1 .. Len(t)) /\ S \in SUBSET Nat /\ b \in S /\ S # {}
  <2>1. \A k \in S : k \in 1 .. Len(t)
    BY <1>2, <1>3
  <2> HIDE DEF S
  <2>2. \A k \in S : k \in Nat
    BY <2>1
  <2> QED BY <2>1, <2>2 DEF S
<1>5. Min(S) \in S /\ Min(S) <= b
  <2> HIDE DEF S
  <2> QED BY <1>4, MinIsLeast
<1>6. \A x \in S : x \in 1 .. Len(t)
  BY <1>4
<1> HIDE DEF S
<1>7. \A x \in 1 .. Len(t) : x <= b => x \in 1 .. b
  OBVIOUS
<1> QED BY <1>1, <1>5, <1>6, <1>7

LEMMA HoldsItself == \A s : s.from \in Int /\ s.to \in Int => Holds(s, s)
BY DEF Holds

LEMMA GrownTyped ==
  ASSUME NEW t, IsText(t), NEW toks \in Seq(Pairs(Len(t))), NEW s \in SpansOf(Len(t))
  PROVE  Grown(t, toks, s) \in SpansOf(Len(t)) /\ Holds(Grown(t, toks, s), s)
<1> DEFINE b0 == CompleteLeft(t, s.from)
           e0 == CompleteRight(t, s.to)
           e == RightOf(t, toks, e0, Room(t, b0, e0))
           b == LeftOf(t, toks, b0, Room(t, b0, e))
           n == Len(t)
<1>0. n \in Nat
  BY TextIs
<1>1. /\ s.from \in 1 .. n /\ s.to \in s.from .. n /\ s.to \in 1 .. n /\ s.from <= s.to
      /\ s.label \in Labels /\ s.conf \in 0 .. 100 /\ s = Span(s.from, s.to, s.label, s.conf)
  BY <1>0, SpansOfIs
<1>2. Grown(t, toks, s) = s \/ Grown(t, toks, s) = [s EXCEPT !.from = b, !.to = e]
  BY DEF Grown
<1> HIDE DEF n
<1>3. b0 \in 1 .. s.from /\ e0 \in s.to .. n
  BY <1>0, <1>1, CompleteIs DEF n
<1> HIDE DEF b0, e0
<1>4. b0 \in 1 .. n /\ e0 \in 1 .. n
  BY <1>0, <1>1, <1>3
<1>5. e \in e0 .. n
  BY <1>0, <1>4, RightOfIs DEF n
<1> HIDE DEF e
<1>6. b \in 1 .. b0
  BY <1>0, <1>4, LeftOfIs DEF n
<1> HIDE DEF b
<1>7. b \in 1 .. n /\ e \in b .. n /\ b <= s.from /\ s.to <= e
  BY <1>0, <1>1, <1>3, <1>5, <1>6
<1>8. ASSUME Grown(t, toks, s) = [s EXCEPT !.from = b, !.to = e] PROVE Grown(t, toks, s) = Span(b, e, s.label, s.conf)
  <2> DEFINE l == s.label
             c == s.conf
             i == s.from
             j == s.to
             x == Grown(t, toks, s)
  <2>1. s = Span(i, j, l, c) /\ x = [s EXCEPT !.from = b, !.to = e]
    BY <1>1, <1>8
  <2> HIDE DEF l, c, i, j, x
  <2>2. x = Span(b, e, l, c)
    BY <2>1 DEF Span
  <2> QED BY <2>2 DEF l, c, x
<1>9. Span(b, e, s.label, s.conf) \in SpansOf(n) /\ Holds(Span(b, e, s.label, s.conf), s)
  <2>1. Span(b, e, s.label, s.conf) \in SpansOf(n)
    BY <1>0, <1>1, <1>7, SpanType
  <2> QED BY <1>7, <2>1 DEF Holds, Span
<1>10. Holds(s, s)
  BY <1>1, HoldsItself
<1> QED BY <1>2, <1>8, <1>9, <1>10 DEF n

LEMMA FoldedIs ==
  ASSUME NEW t, NEW i \in Int, NEW j \in Int, i <= j + 1
  PROVE  /\ Len(Folded(t, i, j)) = j + 1 - i /\ DOMAIN Folded(t, i, j) = 1 .. j + 1 - i
         /\ IsText(Folded(t, i, j)) /\ j + 1 - i \in Nat
         /\ \A k \in 1 .. j + 1 - i :
              Folded(t, i, j)[k] = IF LetterAt(t, i + k - 1) THEN Lower[t[i + k - 1]] ELSE t[i + k - 1]
<1> DEFINE n == j + 1 - i
           s == [k \in 1 .. n |-> IF LetterAt(t, i + k - 1) THEN Lower[t[i + k - 1]] ELSE t[i + k - 1]]
<1>1. n \in Nat /\ DOMAIN s = 1 .. n /\ s = [k \in 1 .. n |-> s[k]]
  OBVIOUS
<1>2. Folded(t, i, j) = s
  BY DEF Folded
<1>3. \A k \in 1 .. n : s[k] = IF LetterAt(t, i + k - 1) THEN Lower[t[i + k - 1]] ELSE t[i + k - 1]
  OBVIOUS
<1>4. IsText(s) /\ Len(s) = n
  <2> HIDE DEF s, n
  <2> QED BY <1>1, RowIsText
<1> HIDE DEF s
<1> QED BY <1>1, <1>2, <1>3, <1>4

LEMMA SourcesTyped ==
  ASSUME NEW t, IsText(t), NEW grown \in SUBSET SpansOf(Len(t)), NEW q \in Sources(t, grown)
  PROVE  /\ q[2] \in grown /\ q[2].from \in 1 .. Len(t) /\ q[2].to \in 1 .. Len(t)
         /\ q[1][1] \in 1 .. Len(t) /\ q[1][2] \in 1 .. Len(t) /\ q[1][1] <= q[1][2]
<1> DEFINE n == Len(t)
<1>0. n \in Nat /\ DOMAIN t = 1 .. n
  BY TextIs
<1>1. PICK s \in grown : q \in {<<x, s>> : x \in SourcePlaces(t, s)}
  BY DEF Sources
<1>2. PICK p \in SourcePlaces(t, s) : q = <<p, s>>
  BY <1>1
<1>3. s.from \in 1 .. n /\ s.to \in 1 .. n /\ s.from <= s.to
  BY <1>0, SpansOfIs
<1>4. p = <<s.from, s.to>> \/ p \in WordsIn(t, s.from, s.to)
  BY <1>2 DEF SourcePlaces
<1>5. p[1] \in 1 .. n /\ p[2] \in 1 .. n /\ p[1] <= p[2]
  <2>1. CASE p = <<s.from, s.to>>
    BY <1>3, <2>1
  <2>2. CASE p \in WordsIn(t, s.from, s.to)
    <3>1. p[1] \in s.from .. s.to /\ p[2] \in s.from .. s.to /\ p[1] <= p[2]
      BY <2>2 DEF WordsIn
    <3> HIDE DEF n
    <3> QED BY <1>0, <1>3, <3>1
  <2> QED BY <1>4, <2>1, <2>2
<1> QED BY <1>2, <1>3, <1>5

LEMMA RepeatsTyped ==
  ASSUME NEW t, IsText(t), NEW grown \in SUBSET SpansOf(Len(t))
  PROVE  /\ WithRepeats(t, grown, Sources(t, grown)) \in SUBSET SpansOf(Len(t))
         /\ grown \subseteq WithRepeats(t, grown, Sources(t, grown))
<1> DEFINE n == Len(t)
           sources == Sources(t, grown)
<1>0. n \in Nat /\ DOMAIN t = 1 .. n
  BY TextIs
<1>1. ASSUME NEW q \in sources PROVE q[2] \in grown /\ q[1][1] \in 1 .. n /\ q[1][2] \in 1 .. n /\ q[1][1] <= q[1][2]
  BY SourcesTyped
<1> DEFINE At(q) == {k \in DOMAIN t : /\ Occurs(t, k, Folded(t, q[1][1], q[1][2]))
                                      /\ k \notin q[2].from .. q[2].to}
           More(q) == {Span(i, i + q[1][2] - q[1][1], q[2].label, q[2].conf) : i \in At(q)}
<1>2. WithRepeats(t, grown, sources) = grown \cup UNION {More(q) : q \in FirstOf(t, sources)}
  BY DEF WithRepeats
<1>3. \A q \in FirstOf(t, sources) : q \in sources
  BY DEF FirstOf
<1> HIDE DEF sources, n
<1>4. ASSUME NEW q \in sources PROVE More(q) \subseteq SpansOf(n)
  <2> DEFINE a == q[1][1]
             b == q[1][2]
             c == q[2].conf
             l == q[2].label
  <2>1. a \in 1 .. n /\ b \in 1 .. n /\ a <= b /\ l \in Labels /\ c \in 0 .. 100
    <3>1. q[2] \in SpansOf(n)
      BY <1>1 DEF n
    <3>2. q[2].label \in Labels /\ q[2].conf \in 0 .. 100
      BY <1>0, <3>1, SpansOfIs
    <3> QED BY <1>1, <3>2
  <2> HIDE DEF a, b, c, l
  <2>2. Len(Folded(t, a, b)) = b + 1 - a
    <3>1. a \in Int /\ b \in Int /\ a <= b + 1
      BY <1>0, <2>1
    <3> QED BY <3>1, FoldedIs
  <2>3. ASSUME NEW i \in DOMAIN t, Occurs(t, i, Folded(t, a, b)) PROVE Span(i, i + b - a, l, c) \in SpansOf(n)
    <3>1. i + (b + 1 - a) - 1 <= n
      BY <2>2, <2>3 DEF Occurs, n
    <3>2. i \in 1 .. n /\ i + b - a \in i .. n
      BY <1>0, <2>1, <3>1
    <3> QED BY <1>0, <2>1, <3>2, SpanType
  <2>4. \A x \in More(q) : \E i \in DOMAIN t : Occurs(t, i, Folded(t, a, b)) /\ x = Span(i, i + b - a, l, c)
    BY DEF a, b, c, l
  <2> HIDE DEF More
  <2> QED BY <2>3, <2>4
<1> HIDE DEF More
<1> QED BY <1>2, <1>3, <1>4 DEF sources, n

\* What is assembled holds everything that was found in the windows.
LEMMA AssembledHolds ==
  ASSUME NEW t, IsText(t), NEW found \in SUBSET SpansOf(Len(t)), NEW toks, toks = Tokens(t, 1, Len(t)),
         NEW grown, grown = GrownNames(t, toks, found), NEW S, S = Merged(WithRepeats(t, grown, Sources(t, grown)))
  PROVE  /\ S \in SUBSET SpansOf(Len(t)) /\ Disjoint(S) /\ grown \in SUBSET SpansOf(Len(t))
         /\ \A s \in found : \E r \in S : Holds(r, s)
<1> DEFINE n == Len(t)
           all == WithRepeats(t, grown, Sources(t, grown))
<1>0. n \in Nat /\ DOMAIN t = 1 .. n
  BY TextIs
<1>1. toks \in Seq(Pairs(n))
  <2>1. 1 \in Int /\ n \in Int
    BY <1>0
  <2>2. Runs(t, 1, n, Blank \cup LineEnds) \in Seq(Pairs(Len(t)))
    BY <1>0, <2>1, RunsTyped
  <2> QED BY <2>2 DEF Tokens
<1> DEFINE G(s) == IF s.label = "person" /\ s.conf >= 75 THEN Grown(t, toks, s) ELSE s
<1>2. \A s \in found : G(s) \in SpansOf(n) /\ Holds(G(s), s) /\ s \in SpansOf(n)
  <2> TAKE s \in found
  <2>1. Grown(t, toks, s) \in SpansOf(n) /\ Holds(Grown(t, toks, s), s)
    BY <1>1, GrownTyped
  <2>2. s.from \in 1 .. n /\ s.to \in 1 .. n
    BY <1>0, SpansOfIs
  <2>3. Holds(s, s)
    BY <1>0, <2>2, HoldsItself
  <2> QED BY <2>1, <2>3
<1>3. grown = {G(s) : s \in found}
  BY DEF GrownNames
<1> HIDE DEF G
<1>4. grown \in SUBSET SpansOf(n) /\ \A s \in found : \E r \in grown : Holds(r, s)
  BY <1>2, <1>3
<1>5. all \in SUBSET SpansOf(n) /\ grown \subseteq all
  BY <1>4, RepeatsTyped
<1> HIDE DEF all, n
<1>6. S = Merged(all)
  BY DEF all
<1>7. S \in SUBSET SpansOf(n) /\ Disjoint(S)
  BY <1>0, <1>5, <1>6, MergedTyped
<1>8. ASSUME NEW s \in found PROVE \E r \in S : Holds(r, s)
  <2>1. PICK g \in grown : Holds(g, s)
    BY <1>4
  <2>2. PICK r \in S : Holds(r, g)
    BY <1>0, <1>5, <1>6, MergedHolds
  <2>3. /\ r.from \in Int /\ r.to \in Int /\ g.from \in Int /\ g.to \in Int /\ s.from \in Int /\ s.to \in Int
    <3>1. r \in SpansOf(n) /\ g \in SpansOf(n) /\ s \in SpansOf(n)
      BY <1>4, <1>7 DEF n
    <3>2. \A x \in SpansOf(n) : x.from \in 1 .. n /\ x.to \in 1 .. n
      BY <1>0, SpansOfIs
    <3> QED BY <1>0, <3>1, <3>2
  <2>4. Holds(r, s)
    BY <2>1, <2>2, <2>3 DEF Holds
  <2> QED BY <2>4
<1> QED BY <1>4, <1>7, <1>8 DEF n

-----------------------------------------------------------------------------
(* Lines, windows and chunks *)

LEMMA GreaterIs ==
  ASSUME NEW i \in Int, NEW j \in Int
  PROVE  Greater(i, j) = (IF i >= j THEN i ELSE j) /\ Lesser(i, j) = IF i <= j THEN i ELSE j
<1> DEFINE g == IF i >= j THEN i ELSE j
           l == IF i <= j THEN i ELSE j
<1>1. g \in {i, j} /\ \A y \in {i, j} : g >= y
  OBVIOUS
<1>2. l \in {i, j} /\ \A y \in {i, j} : l <= y
  OBVIOUS
<1>3. \A x, y \in {i, j} : x >= y /\ y >= x => x = y
  OBVIOUS
<1>4. \A x, y \in {i, j} : x <= y /\ y <= x => x = y
  OBVIOUS
<1> HIDE DEF g, l
<1>5. Greater(i, j) = g
  BY <1>1, <1>3 DEF Greater, Max
<1>6. Lesser(i, j) = l
  BY <1>2, <1>4 DEF Lesser, Min
<1> QED BY <1>5, <1>6 DEF g, l

\* Some piece has a stretch whole.
InSome(pieces, i, j) == \E c \in ToSet(pieces) : c[1] <= i /\ j <= c[2]

LEMMA InSomeAppended ==
  ASSUME NEW X, NEW p \in Seq(X), NEW q \in Seq(X), NEW i, NEW j
  PROVE  p \o q \in Seq(X) /\ (InSome(p, i, j) \/ InSome(q, i, j) => InSome(p \o q, i, j))
<1>1. /\ Len(p) \in Nat /\ Len(q) \in Nat /\ p \o q \in Seq(X) /\ Len(p \o q) = Len(p) + Len(q)
      /\ DOMAIN p = 1 .. Len(p) /\ DOMAIN q = 1 .. Len(q) /\ DOMAIN (p \o q) = 1 .. Len(p) + Len(q)
      /\ \A k \in 1 .. Len(p) : (p \o q)[k] = p[k]
      /\ \A k \in 1 .. Len(q) : (p \o q)[Len(p) + k] = q[k]
  BY ConcatProperties, LenProperties
<1>2. \A k \in 1 .. Len(p) : k \in 1 .. Len(p) + Len(q)
  BY <1>1
<1>3. \A k \in 1 .. Len(q) : Len(p) + k \in 1 .. Len(p) + Len(q)
  BY <1>1
<1>4. \A c \in ToSet(p) : c \in ToSet(p \o q)
  BY <1>1, <1>2 DEF ToSet
<1>5. \A c \in ToSet(q) : c \in ToSet(p \o q)
  <2> TAKE c \in ToSet(q)
  <2>1. PICK k \in 1 .. Len(q) : c = q[k]
    BY <1>1 DEF ToSet
  <2>2. c = (p \o q)[Len(p) + k] /\ Len(p) + k \in DOMAIN (p \o q)
    BY <1>1, <1>3, <2>1
  <2> QED BY <2>2 DEF ToSet
<1> QED BY <1>1, <1>4, <1>5 DEF InSome

\* The lines follow on one another, and a stretch without an end of line is on one.
LEMMA LinesAre ==
  ASSUME NEW t, IsText(t)
  PROVE  /\ Lines(t) \in Seq(Pairs(Len(t)))
         /\ \A n \in 1 .. Len(Lines(t)) : Lines(t)[n][1] = IF n = 1 THEN 1 ELSE Lines(t)[n - 1][2] + 1
         /\ \A i \in 1 .. Len(t), j \in 1 .. Len(t) :
              i <= j /\ (\A k \in i .. j : t[k] \notin LineEnds)
                => \E n \in 1 .. Len(Lines(t)) : Lines(t)[n][1] <= i /\ j <= Lines(t)[n][2]
<1> DEFINE m == Len(t)
           S == {k \in DOMAIN t : t[k] \in LineEnds \/ k = Len(t)}
           last == Ascending(S)
           c == Cardinality(S)
           s == [n \in DOMAIN last |-> <<IF n = 1 THEN 1 ELSE last[n - 1] + 1, last[n]>>]
<1>0. m \in Nat /\ DOMAIN t = 1 .. m
  BY TextIs
<1>1. Lists(last, S) /\ c \in Nat /\ S \in SUBSET (1 .. m)
  <2>1. S \in SUBSET (1 .. m)
    BY <1>0
  <2> HIDE DEF S, m
  <2> QED BY <1>0, <2>1, AscendingLists
<1>2. Lines(t) = s
  BY DEF Lines
<1>3. \A i \in 1 .. m : i \in S <=> (t[i] \in LineEnds \/ i = m)
  BY <1>0
<1> HIDE DEF S, last, m
<1>4. /\ DOMAIN last = 1 .. c /\ \A n \in 1 .. c : last[n] \in S /\ last[n] \in 1 .. m
      /\ \A k \in S : \E n \in 1 .. c : last[n] = k
      /\ \A k, n \in 1 .. c : k < n => last[k] < last[n]
  BY <1>1 DEF Lists, c
<1>5. /\ DOMAIN s = 1 .. c /\ s = [n \in 1 .. c |-> s[n]]
      /\ \A n \in 1 .. c : s[n] = <<IF n = 1 THEN 1 ELSE last[n - 1] + 1, last[n]>>
  BY <1>4
<1> HIDE DEF s, c
<1>6. Len(s) = c
  BY <1>1, <1>5, RowIsText
<1>7. ASSUME NEW n \in 1 .. c PROVE s[n] \in Pairs(m)
  <2>1. n = 1 \/ n - 1 \in 1 .. c
    BY <1>1
  <2>2. CASE n = 1
    <3>1. s[n] = <<1, last[n]>> /\ last[n] \in 1 .. m
      BY <1>4, <1>5, <2>2
    <3> QED BY <1>0, <3>1 DEF Pairs
  <2>3. CASE n # 1
    <3>1. n - 1 \in 1 .. c /\ n - 1 < n
      BY <2>1, <2>3
    <3>2. s[n] = <<last[n - 1] + 1, last[n]>> /\ last[n] \in 1 .. m /\ last[n - 1] \in 1 .. m /\ last[n - 1] < last[n]
      BY <1>4, <1>5, <2>3, <3>1
    <3>3. last[n - 1] + 1 \in 1 .. m /\ last[n - 1] + 1 <= last[n]
      BY <1>0, <3>2
    <3> QED BY <3>2, <3>3 DEF Pairs
  <2> QED BY <2>2, <2>3
<1>8. s \in Seq(Pairs(m))
  <2>1. s \in [1 .. c -> Pairs(m)]
    BY <1>5, <1>7
  <2> QED BY <1>1, <2>1
<1>9. \A n \in 1 .. c : s[n][1] = IF n = 1 THEN 1 ELSE s[n - 1][2] + 1
  <2> TAKE n \in 1 .. c
  <2>1. n # 1 => n - 1 \in 1 .. c
    BY <1>1
  <2>2. n # 1 => s[n - 1][2] = last[n - 1]
    BY <1>5, <2>1
  <2> QED BY <1>5, <2>2
<1>10. ASSUME NEW i \in 1 .. m, NEW j \in 1 .. m, i <= j, \A k \in i .. j : t[k] \notin LineEnds
       PROVE  \E n \in 1 .. c : s[n][1] <= i /\ j <= s[n][2]
  <2> DEFINE T == {n \in 1 .. c : last[n] >= i}
             n == Min(T)
  <2>1. T \in SUBSET Nat /\ T # {}
    <3>1. m \in S /\ m >= i
      BY <1>0, <1>3
    <3>2. PICK k \in 1 .. c : last[k] = m
      BY <1>4, <3>1
    <3> QED BY <3>1, <3>2
  <2>2. n \in T /\ \A y \in T : n <= y
    <3> HIDE DEF T
    <3> QED BY <2>1, MinIsLeast
  <2> HIDE DEF n
  <2>3. n \in 1 .. c /\ last[n] >= i /\ last[n] \in S /\ last[n] \in 1 .. m
    BY <1>4, <2>2
  <2>4. s[n][1] <= i
    <3>1. CASE n = 1
      BY <1>0, <1>5, <2>3, <3>1
    <3>2. CASE n # 1
      <4>1. n - 1 \in 1 .. c /\ ~(n <= n - 1)
        BY <1>1, <2>3, <3>2
      <4>2. n - 1 \notin T
        BY <2>2, <4>1
      <4>3. last[n - 1] \in 1 .. m /\ ~(last[n - 1] >= i)
        BY <1>4, <4>1, <4>2
      <4>4. s[n][1] = last[n - 1] + 1
        BY <1>5, <2>3, <3>2
      <4> QED BY <1>0, <4>3, <4>4
    <3> QED BY <3>1, <3>2
  <2>5. j <= last[n]
    <3>1. SUFFICES ASSUME last[n] < j PROVE FALSE
      BY <1>0, <2>3
    <3>2. last[n] \in i .. j /\ last[n] # m
      BY <1>0, <1>10, <2>3, <3>1
    <3> QED BY <1>3, <1>10, <2>3, <3>2
  <2>6. s[n][2] = last[n]
    BY <1>5, <2>3
  <2> QED BY <2>3, <2>4, <2>5, <2>6
<1> QED BY <1>2, <1>6, <1>8, <1>9, <1>10 DEF m

LEMMA WindowsAre ==
  ASSUME NEW t, NEW n \in Nat, NEW a \in 1 .. n, NEW b \in a .. n
  PROVE  /\ Windows(t, a, b) \in Seq(Pairs(n))
         /\ \A i \in 1 .. n, j \in 1 .. n :
              a <= i /\ i <= j /\ j <= b /\ j - i < Overlap => InSome(Windows(t, a, b), i, j)
<1> DEFINE edge(i) == Lesser(i + Size - 1, b)
           spaces(i) == {k \in Greater(i + Size - Overlap, i + 1) .. edge(i) : t[k] = " "}
           last(i) == IF edge(i) = b \/ spaces(i) = {} THEN edge(i) ELSE Max(spaces(i)) - 1
           next(i) == NextFrom(i, last(i))
           Value(f, i) == <<<<i, last(i)>>>> \o IF last(i) = b THEN <<>> ELSE f[next(i)]
           Solves(f, m) == f = [i \in m .. b |-> Value(f, i)]
           from == CHOOSE f : Solves(f, a)
<1>0. a \in Int /\ b \in Int /\ 1 <= a /\ a <= b /\ b <= n /\ Overlap \in Nat /\ Overlap >= 1 /\ Size \in Nat /\ Size >= 3 * Overlap /\ b \in Nat
  BY WindowAssumption
<1>1. Windows(t, a, b) = from[a]
  BY DEF Windows
<1>2. ASSUME NEW i \in a .. b
      PROVE  /\ last(i) \in i .. b
             /\ last(i) # b => last(i) + 1 >= i + 2 * Overlap
             /\ last(i) # b => next(i) \in i + 1 .. b /\ next(i) = last(i) + 1 - Overlap
  <2>0. i \in Int /\ 1 <= i /\ i <= b /\ i + Size - 1 \in Int /\ i + Size - Overlap \in Int /\ i + 1 \in Int
    BY <1>0
  <2>1. edge(i) = IF i + Size - 1 <= b THEN i + Size - 1 ELSE b
    BY <1>0, <2>0, GreaterIs
  <2>2. Greater(i + Size - Overlap, i + 1) = i + Size - Overlap
    <3>1. i + Size - Overlap >= i + 1
      BY <1>0, <2>0
    <3> QED BY <2>0, <3>1, GreaterIs
  <2> HIDE DEF edge
  <2>3. edge(i) \in i .. b /\ edge(i) \in Int /\ (edge(i) # b => edge(i) = i + Size - 1)
    BY <1>0, <2>0, <2>1
  <2>4. spaces(i) # {} => Max(spaces(i)) \in i + Size - Overlap .. edge(i)
    <3>1. spaces(i) \in SUBSET (i + Size - Overlap .. edge(i))
      BY <2>2
    <3>2. i + Size - Overlap .. edge(i) \subseteq 0 .. b
      BY <1>0, <2>0, <2>3
    <3> HIDE DEF spaces
    <3>3. spaces(i) \in SUBSET (0 .. b)
      BY <3>1, <3>2
    <3>4. spaces(i) # {} => Max(spaces(i)) \in spaces(i)
      BY <1>0, <3>3, MaxIsLargest
    <3> QED BY <3>1, <3>4
  <2> DEFINE e == last(i)
             z == Max(spaces(i))
  <2>5. e = edge(i) \/ (z \in i + Size - Overlap .. edge(i) /\ e = z - 1 /\ edge(i) # b)
    BY <2>4
  <2> HIDE DEF spaces, e, z
  <2>6. e \in i .. b /\ e \in Int /\ (e # b => e + 1 >= i + 2 * Overlap)
    <3>1. CASE e = edge(i)
      BY <1>0, <2>0, <2>3, <3>1
    <3>2. CASE z \in i + Size - Overlap .. edge(i) /\ e = z - 1
      BY <1>0, <2>0, <2>3, <3>2
    <3> QED BY <2>5, <3>1, <3>2
  <2>7. e # b => NextFrom(i, e) = e + 1 - Overlap /\ e + 1 - Overlap \in i + 1 .. b
    <3> HAVE e # b
    <3>1. e + 1 - Overlap \in Int /\ i + 1 \in Int /\ e + 1 - Overlap >= i + 1 /\ e + 1 - Overlap <= b
      BY <1>0, <2>0, <2>6
    <3>2. NextFrom(i, e) = e + 1 - Overlap
      BY <3>1, GreaterIs DEF NextFrom
    <3> QED BY <3>1, <3>2
  <2> QED BY <2>6, <2>7 DEF e
<1> HIDE DEF last, next
<1> DEFINE S == {m \in 1 .. b : m >= a => \E f : Solves(f, m)}
<1>3. ASSUME NEW m \in 1 .. b, \A j \in m + 1 .. b : j \in S PROVE m \in S
  <2>1. SUFFICES ASSUME m >= a PROVE \E f : Solves(f, m)
    OBVIOUS
  <2>0. m \in Int /\ m <= b
    BY <1>0
  <2>2. CASE m = b
    <3> DEFINE f == [i \in m .. b |-> <<<<i, last(i)>>>> \o <<>>]
    <3>1. \A i \in m .. b : i \in a .. b /\ i = b
      BY <1>0, <2>0, <2>1, <2>2
    <3>2. \A i \in m .. b : last(i) = b
      <4> TAKE i \in m .. b
      <4>1. last(i) \in i .. b /\ i = b
        BY <1>2, <3>1
      <4> QED BY <1>0, <4>1
    <3>3. \A i \in m .. b : Value(f, i) = <<<<i, last(i)>>>> \o <<>>
      BY <3>2
    <3> HIDE DEF Value
    <3>4. Solves(f, m)
      BY <3>3
    <3> QED BY <3>4
  <2>3. CASE m # b
    <3>1. m + 1 \in m + 1 .. b /\ m + 1 >= a /\ m + 1 \in Int
      BY <1>0, <2>0, <2>1, <2>3
    <3>2. PICK g : Solves(g, m + 1)
      BY <1>3, <3>1
    <3> DEFINE f == [i \in m .. b |-> IF i = m THEN Value(g, m) ELSE g[i]]
    <3>3. \A i \in m + 1 .. b : f[i] = g[i] /\ g[i] = Value(g, i)
      <4>1. \A i \in m + 1 .. b : i \in m .. b /\ i # m
        BY <2>0
      <4> HIDE DEF Value
      <4> QED BY <3>2, <4>1
    <3>4. ASSUME NEW i \in m .. b PROVE Value(f, i) = Value(g, i)
      <4>1. i \in a .. b
        BY <1>0, <2>0, <2>1
      <4>2. last(i) # b => next(i) \in m + 1 .. b
        <5>1. last(i) # b => next(i) \in i + 1 .. b
          BY <1>2, <4>1
        <5> QED BY <2>0, <5>1
      <4>3. last(i) # b => f[next(i)] = g[next(i)]
        BY <3>3, <4>2
      <4> HIDE DEF f
      <4> QED BY <4>3
    <3>5. \A i \in m .. b : f[i] = Value(f, i)
      <4>1. f[m] = Value(g, m)
        <5>1. m \in m .. b
          BY <2>0
        <5> HIDE DEF Value
        <5> QED BY <5>1
      <4>2. \A i \in m .. b : i = m \/ i \in m + 1 .. b
        BY <2>0
      <4> HIDE DEF f, Value
      <4> QED BY <3>3, <3>4, <4>1, <4>2
    <3>6. Solves(f, m)
      <4>1. f = [i \in m .. b |-> f[i]]
        OBVIOUS
      <4> HIDE DEF f, Value
      <4> QED BY <3>5, <4>1
    <3> QED BY <3>6
  <2> QED BY <2>2, <2>3
<1>4. a \in S
  <2>1. a \in 1 .. b
    BY <1>0
  <2> HIDE DEF S
  <2> QED BY <1>0, <1>3, <2>1, Backwards
<1>5. Solves(from, a)
  <2>1. \E f : Solves(f, a)
    BY <1>0, <1>4
  <2> HIDE DEF Solves
  <2> QED BY <2>1
<1> HIDE DEF from
<1>6. \A i \in a .. b : from[i] = <<<<i, last(i)>>>> \o IF last(i) = b THEN <<>> ELSE from[next(i)]
  BY <1>5
<1> HIDE DEF S, Solves, Value
<1> DEFINE Has(i) == /\ from[i] \in Seq(Pairs(n))
                     /\ \A u, v \in 1 .. n : i <= u /\ u <= v /\ v <= b /\ v - u < Overlap => InSome(from[i], u, v)
           G == {i \in 1 .. b : i >= a => Has(i)}
<1>7. ASSUME NEW i \in 1 .. b, \A j \in i + 1 .. b : j \in G PROVE i \in G
  <2>1. SUFFICES ASSUME i >= a PROVE Has(i)
    OBVIOUS
  <2>2. i \in a .. b /\ i \in Int /\ i \in 1 .. n
    BY <1>0, <2>1
  <2> DEFINE e == last(i)
             w == <<i, e>>
             rest == IF e = b THEN <<>> ELSE from[next(i)]
  <2>3. e \in i .. b /\ e \in Int /\ (e # b => e + 1 >= i + 2 * Overlap /\ next(i) \in i + 1 .. b /\ next(i) = e + 1 - Overlap)
    <3>1. e \in i .. b /\ (e # b => e + 1 >= i + 2 * Overlap) /\ (e # b => next(i) \in i + 1 .. b /\ next(i) = e + 1 - Overlap)
      BY <1>2, <2>2
    <3> HIDE DEF e
    <3> QED BY <3>1
  <2>4. from[i] = <<w>> \o rest
    BY <1>6, <2>2
  <2>5. e # b => Has(next(i))
    <3> HAVE e # b
    <3>1. next(i) \in i + 1 .. b /\ next(i) >= a
      BY <1>0, <2>2, <2>3
    <3> HIDE DEF Has
    <3> QED BY <1>7, <3>1
  <2> HIDE DEF e
  <2>6. w \in Pairs(n)
    <3>1. e \in 1 .. n /\ i <= e
      BY <1>0, <2>2, <2>3
    <3> QED BY <2>2, <3>1 DEF Pairs
  <2>7. <<w>> \in Seq(Pairs(n)) /\ ToSet(<<w>>) = {w}
    <3> HIDE DEF w
    <3>1. <<w>> \in Seq(Pairs(n)) /\ DOMAIN <<w>> = {1} /\ <<w>>[1] = w
      BY <2>6
    <3> QED BY <3>1 DEF ToSet
  <2>8. rest \in Seq(Pairs(n))
    BY <2>5
  <2>9. ASSUME NEW u \in 1 .. n, NEW v \in 1 .. n, i <= u, u <= v, v <= b, v - u < Overlap
        PROVE  InSome(<<w>>, u, v) \/ InSome(rest, u, v)
    <3>1. CASE v <= e
      <4>1. w[1] <= u /\ v <= w[2]
        BY <2>9, <3>1
      <4> HIDE DEF w
      <4> QED BY <2>7, <4>1 DEF InSome
    <3>2. CASE ~(v <= e)
      <4>1. e # b /\ next(i) <= u
        BY <1>0, <2>2, <2>3, <2>9, <3>2
      <4>2. InSome(from[next(i)], u, v)
        BY <2>5, <2>9, <4>1
      <4> QED BY <4>1, <4>2
    <3> QED BY <3>1, <3>2
  <2> HIDE DEF w, rest
  <2>10. <<w>> \o rest \in Seq(Pairs(n)) /\ \A u, v : InSome(<<w>>, u, v) \/ InSome(rest, u, v) => InSome(<<w>> \o rest, u, v)
    BY <2>7, <2>8, InSomeAppended
  <2> QED BY <2>4, <2>9, <2>10
<1>8. a \in G
  <2>1. a \in 1 .. b
    BY <1>0
  <2> HIDE DEF G
  <2> QED BY <1>0, <1>7, <2>1, Backwards
<1>9. Has(a)
  <2> HIDE DEF Has
  <2> QED BY <1>0, <1>8
<1> QED BY <1>1, <1>9

\* A chunk that is being filled, and one line more.
Flush(r) == IF r.to < r.from THEN r.out ELSE Append(r.out, <<r.from, r.to>>)
AddLine(t, r, l) ==
  CASE l[2] - l[1] >= Size -> [out |-> Flush(r) \o Windows(t, l[1], l[2]), from |-> l[2] + 1, to |-> l[2]]
    [] l[2] - l[1] < Size /\ r.from <= r.to /\ l[2] - r.from >= Size ->
         [out |-> Flush(r), from |-> l[1], to |-> l[2]]
    [] OTHER -> [r EXCEPT !.to = l[2]]

Fillings(n) == [out : Seq(Pairs(n)), from : 1 .. n + 1, to : 0 .. n]

\* What a filling has, finished or not.
Filled(r, i, j) == InSome(r.out, i, j) \/ (r.from <= i /\ j <= r.to)

LEMMA FlushIs ==
  ASSUME NEW n \in Nat, NEW r \in Fillings(n)
  PROVE  /\ Flush(r) \in Seq(Pairs(n))
         /\ \A i \in Int, j \in Int : i <= j /\ Filled(r, i, j) => InSome(Flush(r), i, j)
<1>1. r.out \in Seq(Pairs(n)) /\ r.from \in 1 .. n + 1 /\ r.to \in 0 .. n
  BY DEF Fillings
<1>2. CASE r.to < r.from
  <2>1. \A i \in Int, j \in Int : i <= j => ~(r.from <= i /\ j <= r.to)
    BY <1>1, <1>2
  <2> QED BY <1>1, <1>2, <2>1 DEF Flush, Filled
<1>3. CASE ~(r.to < r.from)
  <2> DEFINE w == <<r.from, r.to>>
             q == <<w>>
  <2>1. r.from \in 1 .. n /\ r.to \in 1 .. n /\ r.from <= r.to
    BY <1>1, <1>3
  <2>2. w \in Pairs(n) /\ w[1] = r.from /\ w[2] = r.to
    BY <2>1 DEF Pairs
  <2> HIDE DEF w
  <2>3. q \in Seq(Pairs(n)) /\ DOMAIN q = {1} /\ q[1] = w
    BY <2>2
  <2>4. Append(r.out, w) = r.out \o q
    <3> DEFINE p == r.out
    <3>1. p \in Seq(Pairs(n))
      BY <1>1
    <3> HIDE DEF p
    <3>2. Append(p, w) = p \o <<w>>
      BY <2>2, <3>1, AppendIsConcat
    <3> QED BY <3>2 DEF p
  <2>5. \A i, j : r.from <= i /\ j <= r.to => InSome(q, i, j)
    BY <2>2, <2>3 DEF InSome, ToSet
  <2> HIDE DEF q
  <2>6. r.out \o q \in Seq(Pairs(n)) /\ \A i, j : InSome(r.out, i, j) \/ InSome(q, i, j) => InSome(r.out \o q, i, j)
    BY <1>1, <2>3, InSomeAppended
  <2>7. Flush(r) = r.out \o q
    BY <1>3, <2>4 DEF Flush, w
  <2> QED BY <2>5, <2>6, <2>7 DEF Filled
<1> QED BY <1>2, <1>3

LEMMA AddLineIs ==
  ASSUME NEW t, NEW n \in Nat, NEW r \in Fillings(n), NEW l \in Pairs(n)
  PROVE  /\ AddLine(t, r, l) \in Fillings(n) /\ AddLine(t, r, l).to = l[2]
         /\ r.from <= r.to + 1 /\ l[1] = r.to + 1 => AddLine(t, r, l).from <= AddLine(t, r, l).to + 1
         /\ r.from <= r.to + 1 /\ l[1] = r.to + 1 =>
              \A i \in 1 .. n, j \in 1 .. n :
                i <= j /\ j - i < Overlap /\ (Filled(r, i, j) \/ (l[1] <= i /\ j <= l[2])) => Filled(AddLine(t, r, l), i, j)
<1> DEFINE x == AddLine(t, r, l)
           a == l[1]
           b == l[2]
<1>1. r.out \in Seq(Pairs(n)) /\ r.from \in 1 .. n + 1 /\ r.to \in 0 .. n
  BY DEF Fillings
<1>2. a \in 1 .. n /\ b \in 1 .. n /\ a <= b /\ b \in a .. n /\ Size \in Nat
  BY PairsIs, WindowAssumption
<1>3. /\ Flush(r) \in Seq(Pairs(n))
      /\ \A i \in Int, j \in Int : i <= j /\ Filled(r, i, j) => InSome(Flush(r), i, j)
  BY FlushIs
<1>4. CASE b - a >= Size
  <2>1. x = [out |-> Flush(r) \o Windows(t, a, b), from |-> b + 1, to |-> b]
    <3>1. ~(b - a < Size)
      BY <1>2, <1>4
    <3> QED BY <1>4, <3>1 DEF AddLine
  <2> DEFINE p == Flush(r)
             q == Windows(t, a, b)
  <2> HIDE DEF x, a, b
  <2>2. /\ q \in Seq(Pairs(n))
        /\ \A i \in 1 .. n, j \in 1 .. n : a <= i /\ i <= j /\ j <= b /\ j - i < Overlap => InSome(q, i, j)
    BY <1>2, WindowsAre
  <2> HIDE DEF p, q
  <2>3. p \o q \in Seq(Pairs(n)) /\ \A i, j : InSome(p, i, j) \/ InSome(q, i, j) => InSome(p \o q, i, j)
    BY <1>3, <2>2, InSomeAppended DEF p
  <2>4. x = [out |-> p \o q, from |-> b + 1, to |-> b]
    BY <2>1 DEF p, q
  <2>5. x \in Fillings(n) /\ x.to = b /\ x.from <= x.to + 1
    <3>1. b + 1 \in 1 .. n + 1 /\ b \in 0 .. n /\ b + 1 <= b + 1
      BY <1>2
    <3> QED BY <2>3, <2>4, <3>1 DEF Fillings
  <2>6. ASSUME NEW i \in 1 .. n, NEW j \in 1 .. n, i <= j, j - i < Overlap, Filled(r, i, j) \/ (a <= i /\ j <= b)
        PROVE  Filled(x, i, j)
    <3>1. i \in Int /\ j \in Int
      OBVIOUS
    <3>2. InSome(p, i, j) \/ InSome(q, i, j)
      BY <1>3, <2>2, <2>6, <3>1 DEF p
    <3>3. InSome(x.out, i, j)
      BY <2>3, <2>4, <3>2
    <3> QED BY <3>3 DEF Filled
  <2> QED BY <2>5, <2>6 DEF x, a, b
<1>5. CASE ~(b - a >= Size) /\ r.from <= r.to /\ b - r.from >= Size
  <2>0. b - a < Size
    BY <1>2, <1>5
  <2>1. x = [out |-> Flush(r), from |-> a, to |-> b]
    BY <1>5, <2>0 DEF AddLine
  <2> HIDE DEF x, a, b
  <2>2. x \in Fillings(n) /\ x.to = b /\ x.from <= x.to + 1
    <3>1. a \in 1 .. n + 1 /\ b \in 0 .. n /\ a <= b + 1
      BY <1>2
    <3> QED BY <1>3, <2>1, <3>1 DEF Fillings
  <2>3. ASSUME NEW i \in 1 .. n, NEW j \in 1 .. n, i <= j, Filled(r, i, j) \/ (a <= i /\ j <= b)
        PROVE  Filled(x, i, j)
    <3>1. i \in Int /\ j \in Int
      OBVIOUS
    <3>2. InSome(x.out, i, j) \/ (x.from <= i /\ j <= x.to)
      BY <1>3, <2>1, <2>3, <3>1
    <3> QED BY <3>2 DEF Filled
  <2> QED BY <2>2, <2>3 DEF x, a, b
<1>6. CASE ~(b - a >= Size) /\ ~(r.from <= r.to /\ b - r.from >= Size)
  <2> DEFINE o == r.out
             f == r.from
  <2>1. x = [r EXCEPT !.to = b]
    BY <1>6 DEF AddLine
  <2>2. r = [out |-> o, from |-> f, to |-> r.to]
    BY DEF Fillings
  <2> HIDE DEF x, a, b, o, f
  <2>3. x = [out |-> o, from |-> f, to |-> b]
    BY <2>1, <2>2
  <2>4. x \in Fillings(n) /\ x.to = b /\ x.from = r.from /\ x.out = r.out
    <3>1. b \in 0 .. n
      BY <1>2
    <3> QED BY <1>1, <2>3, <3>1 DEF Fillings, o, f
  <2>5. ASSUME r.from <= r.to + 1, a = r.to + 1 PROVE x.from <= x.to + 1 /\ r.to <= b /\ r.from <= a
    BY <1>1, <1>2, <2>4, <2>5
  <2>6. ASSUME r.from <= r.to + 1, a = r.to + 1,
               NEW i \in 1 .. n, NEW j \in 1 .. n, i <= j, Filled(r, i, j) \/ (a <= i /\ j <= b)
        PROVE  Filled(x, i, j)
    <3>1. i \in Int /\ j \in Int /\ r.from \in Int /\ r.to \in Int /\ a \in Int /\ b \in Int
      BY <1>1, <1>2
    <3>2. InSome(r.out, i, j) \/ (r.from <= i /\ j <= b)
      BY <2>5, <2>6, <3>1 DEF Filled
    <3> QED BY <2>4, <3>2 DEF Filled
  <2> QED BY <2>4, <2>5, <2>6 DEF x, a, b
<1> QED BY <1>4, <1>5, <1>6

\* Some chunk has whole what lies on one line and is shorter than the overlap.
LEMMA ChunksAre ==
  ASSUME NEW t, IsText(t)
  PROVE  /\ Chunks(t) \in Seq(Pairs(Len(t)))
         /\ \A i \in 1 .. Len(t), j \in 1 .. Len(t) : i <= j /\ InOnePiece(t, i, j) => InSome(Chunks(t), i, j)
<1> DEFINE n == Len(t)
           list == Lines(t)
           m == Len(list)
           b == [out |-> <<>>, from |-> 1, to |-> 0]
           Value(g, R) == IF R = {} THEN b ELSE AddLine(t, g[R \ {Max(R)}], list[Max(R)])
           Solves(g) == g = [R \in SUBSET DOMAIN list |-> Value(g, R)]
           iter == CHOOSE g : Solves(g)
           X == Fillings(n)
           step == [p \in X \X (1 .. m) |-> AddLine(t, p[1], list[p[2]])]
<1>0. n \in Nat
  BY TextIs
<1>1. Chunks(t) = Flush(iter[DOMAIN list])
  BY DEF Chunks, FoldLeft, MapThenFoldSet, AddLine, Flush
<1>2. /\ list \in Seq(Pairs(n)) /\ m \in Nat /\ DOMAIN list = 1 .. m
      /\ \A k \in 1 .. m : list[k] \in Pairs(n) /\ list[k][1] = IF k = 1 THEN 1 ELSE list[k - 1][2] + 1
  <2>1. /\ list \in Seq(Pairs(n))
        /\ \A k \in 1 .. m : list[k][1] = IF k = 1 THEN 1 ELSE list[k - 1][2] + 1
    BY LinesAre
  <2> HIDE DEF list
  <2> QED BY <2>1, LenProperties, ElementOfSeq
<1>3. \A i \in 1 .. n, j \in 1 .. n :
        i <= j /\ (\A k \in i .. j : t[k] \notin LineEnds) => \E k \in 1 .. m : list[k][1] <= i /\ j <= list[k][2]
  BY LinesAre
<1> HIDE DEF list, m, n
<1>4. b \in X /\ \A x \in X, k \in 1 .. m : AddLine(t, x, list[k]) \in X
  <2>1. b \in X
    <3>1. <<>> \in Seq(Pairs(n)) /\ 1 \in 1 .. n + 1 /\ 0 \in 0 .. n
      BY <1>0
    <3> QED BY <3>1 DEF Fillings
  <2>2. \A x \in X, k \in 1 .. m : AddLine(t, x, list[k]) \in X
    BY <1>0, <1>2, AddLineIs
  <2> QED BY <2>1, <2>2
<1>b. b.from = 1 /\ b.to = 0 /\ b.out = <<>>
  OBVIOUS
<1> HIDE DEF b, X
<1>5. \A x \in X, k \in 1 .. m : step[<<x, k>>] = AddLine(t, x, list[k]) /\ step[<<x, k>>] \in X
  BY <1>4
<1> HIDE DEF step
<1>6. PICK f \in [SUBSET (1 .. m) -> X] :
        \A R \in SUBSET (1 .. m) : f[R] = IF R = {} THEN b ELSE step[<<f[R \ {Max(R)}], Max(R)>>]
  <2>1. LeftFolds(m, X, b, step)
    BY <1>2, <1>4, <1>5, LeftFoldExists
  <2> QED BY <2>1 DEF LeftFolds
<1>7. \A R \in SUBSET (1 .. m) : R # {} => Max(R) \in 1 .. m /\ R \ {Max(R)} \in SUBSET (1 .. m)
  <2>1. \A R \in SUBSET (1 .. m) : R \in SUBSET (0 .. m)
    BY <1>2
  <2> QED BY <1>2, <2>1, MaxIsLargest
<1>8. Solves(f)
  <2>1. ASSUME NEW R \in SUBSET (1 .. m) PROVE f[R] = Value(f, R)
    <3>1. f[R] = IF R = {} THEN b ELSE step[<<f[R \ {Max(R)}], Max(R)>>]
      BY <1>6
    <3>2. R # {} => f[R \ {Max(R)}] \in X /\ Max(R) \in 1 .. m
      BY <1>6, <1>7
    <3> QED BY <1>5, <3>1, <3>2
  <2> HIDE DEF Value
  <2> QED BY <1>2, <1>6, <2>1
<1>9. Solves(iter)
  <2> HIDE DEF Solves
  <2> QED BY <1>8
<1>10. \A R \in SUBSET (1 .. m) : iter[R] = Value(iter, R)
  <2> HIDE DEF iter, Value
  <2> QED BY <1>2, <1>9
<1> HIDE DEF iter
<1>11. WalksTo(m, X, b, step, iter[1 .. m])
  <2>1. iter[{}] = b
    <3>1. {} \in SUBSET (1 .. m)
      OBVIOUS
    <3> QED BY <1>10, <3>1
  <2>2. ASSUME NEW R \in SUBSET (1 .. m), R # {}, iter[R \ {Max(R)}] \in X
        PROVE  iter[R] = step[<<iter[R \ {Max(R)}], Max(R)>>]
    <3>1. iter[R] = AddLine(t, iter[R \ {Max(R)}], list[Max(R)])
      BY <1>10, <2>2
    <3>2. Max(R) \in 1 .. m
      BY <1>7, <2>2
    <3> QED BY <1>5, <2>2, <3>1, <3>2
  <2>3. \A R \in SUBSET (1 .. m) : R # {} /\ iter[R \ {Max(R)}] \in X
                                     => iter[R] = step[<<iter[R \ {Max(R)}], Max(R)>>]
    BY <2>2
  <2>4. b \in X /\ m \in Nat /\ \A x \in X, k \in 1 .. m : step[<<x, k>>] \in X
    BY <1>2, <1>4, <1>5
  <2> HIDE DEF Value
  <2> QED BY <2>1, <2>3, <2>4, FoldWalks
<1> HIDE DEF Solves, Value
<1>12. PICK g : Walks(m, X, b, step, g) /\ g[m] = iter[1 .. m]
  BY <1>11 DEF WalksTo
<1>13. g \in [0 .. m -> X] /\ g[0] = b /\ \A k \in 1 .. m : g[k] = step[<<g[k - 1], k>>]
  BY <1>12 DEF Walks
<1> DEFINE Good(k) == /\ g[k].from <= g[k].to + 1 /\ g[k].to = IF k = 0 THEN 0 ELSE list[k][2]
                      /\ \A i \in 1 .. n, j \in 1 .. n, h \in 1 .. k :
                           i <= j /\ j - i < Overlap /\ list[h][1] <= i /\ j <= list[h][2] => Filled(g[k], i, j)
           G == {k \in 0 .. m : Good(k)}
<1>14. ASSUME NEW k \in 0 .. m, \A h \in 0 .. k - 1 : h \in G PROVE k \in G
  <2>1. CASE k = 0
    <3>1. Good(0)
      <4>1. 1 .. 0 = {}
        OBVIOUS
      <4> QED BY <1>13, <1>b, <4>1
    <3> QED BY <2>1, <3>1
  <2>2. CASE k # 0
    <3> DEFINE r == g[k - 1]
               l == list[k]
    <3>1. k \in 1 .. m /\ k - 1 \in 0 .. m /\ k - 1 \in 0 .. k - 1 /\ k \in Int
      BY <1>2, <2>2
    <3>2. r \in X /\ l \in Pairs(n) /\ g[k] = AddLine(t, r, l)
      <4>1. g[k - 1] \in X
        BY <1>13, <3>1
      <4> QED BY <1>2, <1>5, <1>13, <3>1, <4>1
    <3>3. Good(k - 1)
      BY <1>14, <3>1
    <3>4. r.from <= r.to + 1 /\ l[1] = r.to + 1
      <4>1. r.from <= r.to + 1 /\ r.to = IF k - 1 = 0 THEN 0 ELSE list[k - 1][2]
        BY <3>3
      <4>2. l[1] = IF k = 1 THEN 1 ELSE list[k - 1][2] + 1
        BY <1>2, <3>1
      <4>3. k - 1 = 0 <=> k = 1
        BY <3>1
      <4> HIDE DEF r, l
      <4> QED BY <4>1, <4>2, <4>3
    <3>5. \A i \in 1 .. n, j \in 1 .. n, h \in 1 .. k - 1 :
            i <= j /\ j - i < Overlap /\ list[h][1] <= i /\ j <= list[h][2] => Filled(r, i, j)
      BY <3>3
    <3> HIDE DEF r, Good
    <3>6. /\ AddLine(t, r, l).to = l[2] /\ AddLine(t, r, l).from <= AddLine(t, r, l).to + 1
          /\ \A i \in 1 .. n, j \in 1 .. n :
               i <= j /\ j - i < Overlap /\ (Filled(r, i, j) \/ (l[1] <= i /\ j <= l[2])) => Filled(AddLine(t, r, l), i, j)
      <4> HIDE DEF l
      <4> QED BY <1>0, <3>2, <3>4, AddLineIs DEF X
    <3>7. \A h \in 1 .. k : h = k \/ h \in 1 .. k - 1
      BY <3>1
    <3>8. Good(k)
      <4>1. g[k].to = IF k = 0 THEN 0 ELSE list[k][2]
        BY <2>2, <3>2, <3>6
      <4>2. ASSUME NEW i \in 1 .. n, NEW j \in 1 .. n, NEW h \in 1 .. k,
                   i <= j, j - i < Overlap, list[h][1] <= i, j <= list[h][2]
            PROVE  Filled(g[k], i, j)
        <5>1. CASE h = k
          BY <3>2, <3>6, <4>2, <5>1
        <5>2. CASE h \in 1 .. k - 1
          <6>1. Filled(r, i, j)
            BY <3>5, <4>2, <5>2
          <6> QED BY <3>2, <3>6, <4>2, <6>1
        <5> QED BY <3>7, <5>1, <5>2
      <4> QED BY <3>2, <3>6, <4>1, <4>2 DEF Good
    <3> QED BY <3>8
  <2> QED BY <2>1, <2>2
<1>15. m \in G
  <2>1. 0 \in Nat /\ m \in 0 .. m
    BY <1>2
  <2> HIDE DEF G
  <2> QED BY <1>2, <1>14, <2>1, Upwards
<1> DEFINE r == g[m]
<1>16. r \in Fillings(n) /\ Chunks(t) = Flush(r)
  <2>1. g[m] \in X
    BY <1>2, <1>13
  <2> QED BY <1>1, <1>2, <1>12, <2>1 DEF X
<1>17. \A i \in 1 .. n, j \in 1 .. n, h \in 1 .. m :
         i <= j /\ j - i < Overlap /\ list[h][1] <= i /\ j <= list[h][2] => Filled(r, i, j)
  BY <1>15
<1> HIDE DEF r, G, Good
<1>18. /\ Flush(r) \in Seq(Pairs(n))
       /\ \A i \in Int, j \in Int : i <= j /\ Filled(r, i, j) => InSome(Flush(r), i, j)
  BY <1>0, <1>16, FlushIs
<1>19. ASSUME NEW i \in 1 .. n, NEW j \in 1 .. n, i <= j, InOnePiece(t, i, j) PROVE InSome(Chunks(t), i, j)
  <2>1. j - i < Overlap /\ \A k \in i .. j : t[k] \notin LineEnds
    BY <1>19 DEF InOnePiece
  <2>2. PICK h \in 1 .. m : list[h][1] <= i /\ j <= list[h][2]
    BY <1>3, <1>19, <2>1
  <2>3. Filled(r, i, j)
    BY <1>17, <1>19, <2>1, <2>2
  <2>4. i \in Int /\ j \in Int
    OBVIOUS
  <2> QED BY <1>16, <1>18, <1>19, <2>3, <2>4
<1> QED BY <1>16, <1>18, <1>19 DEF n

-----------------------------------------------------------------------------
(* What is answered *)

\* What is found in a part of a text, d places further on.
Shifted(s, d) == Span(s.from + d, s.to + d, s.label, s.conf)

LEMMA ShiftedIs ==
  ASSUME NEW n \in Nat, NEW a \in 1 .. n, NEW b \in a .. n, NEW s \in SpansOf(b + 1 - a)
  PROVE  /\ Shifted(s, a - 1) \in SpansOf(n)
         /\ Shifted(s, a - 1).from = s.from + a - 1 /\ Shifted(s, a - 1).to = s.to + a - 1
         /\ Shifted(s, a - 1).label = s.label
<1>1. b + 1 - a \in Nat /\ a \in Int /\ b \in Int /\ 1 <= a /\ b <= n
  OBVIOUS
<1>2. s.from \in 1 .. b + 1 - a /\ s.to \in s.from .. b + 1 - a /\ s.label \in Labels /\ s.conf \in 0 .. 100
  BY <1>1, SpansOfIs
<1>3. s.from + (a - 1) \in 1 .. n /\ s.to + (a - 1) \in s.from + (a - 1) .. n
  BY <1>1, <1>2
<1>4. Span(s.from + (a - 1), s.to + (a - 1), s.label, s.conf) \in SpansOf(n)
  BY <1>2, <1>3, SpanType
<1>5. s.from + (a - 1) = s.from + a - 1 /\ s.to + (a - 1) = s.to + a - 1
  BY <1>1, <1>2
<1> QED BY <1>4, <1>5 DEF Shifted, Span

\* What the floor finds in a chunk is held by what is found in the text.
ChunkDone(t, found, c) ==
  \A s \in ValidatedFloor(SubSeq(t, c[1], c[2])) : \E r \in found : Holds(r, Shifted(s, c[1] - 1))

LEMMA HoldsOn ==
  ASSUME NEW n \in Nat, NEW q \in SpansOf(n), NEW r \in SpansOf(n), NEW s \in SpansOf(n), Holds(q, r), Holds(r, s)
  PROVE  Holds(q, s)
<1>1. /\ q.from \in Int /\ q.to \in Int /\ r.from \in Int /\ r.to \in Int /\ s.from \in Int /\ s.to \in Int
  <2>1. \A x \in SpansOf(n) : x.from \in 1 .. n /\ x.to \in 1 .. n
    BY SpansOfIs
  <2> QED BY <2>1
<1> QED BY <1>1 DEF Holds

\* The merge of what is known of a chunk and what the model says of it.
ChunkFound(t, c, tags, least) ==
  {Shifted(s, c[1] - 1) : s \in Merged(GateKnows(SubSeq(t, c[1], c[2])) \cup Decode(tags, least))}

LEMMA ChunkServed ==
  ASSUME NEW t, IsText(t), NEW c \in Pairs(Len(t)), NEW tags, AreTags(tags, c[2] + 1 - c[1]), NEW least,
         NEW more, more = ChunkFound(t, c, tags, least)
  PROVE  more \in SUBSET SpansOf(Len(t)) /\ ChunkDone(t, more, c)
<1> DEFINE a == c[1]
           b == c[2]
           u == SubSeq(t, a, b)
           m == b + 1 - a
           both == GateKnows(u) \cup Decode(tags, least)
           merged == Merged(both)
<1>0. Len(t) \in Nat /\ a \in 1 .. Len(t) /\ b \in 1 .. Len(t) /\ a <= b
  BY TextIs, PairsIs
<1>1. b \in a .. Len(t)
  BY <1>0
<1> HIDE DEF a, b
<1>2. IsText(u) /\ Len(u) = m /\ m \in Nat
  BY <1>0, <1>1, PartIs
<1>3. GateKnows(u) \subseteq SpansOf(m) /\ ValidatedFloor(u) \subseteq SpansOf(m)
  <2> HIDE DEF u, m
  <2> QED BY <1>2, KnownTyped
<1>4. Decode(tags, least) \subseteq SpansOf(m)
  <2>1. AreTags(tags, m)
    BY DEF a, b
  <2> HIDE DEF m
  <2> QED BY <1>2, <2>1, DecodeTyped
<1>5. both \in SUBSET SpansOf(m) /\ ValidatedFloor(u) \subseteq both
  <2>1. ValidatedFloor(u) \subseteq GateKnows(u)
    BY DEF GateKnows
  <2> QED BY <1>3, <1>4, <2>1
<1> HIDE DEF both
<1>6. merged \in SUBSET SpansOf(m) /\ \A s \in both : \E r \in merged : Holds(r, s)
  <2>1. merged \in SUBSET SpansOf(m)
    BY <1>2, <1>5, MergedTyped
  <2>2. \A s \in both : \E r \in merged : Holds(r, s)
    BY <1>2, <1>5, MergedHolds
  <2> QED BY <2>1, <2>2
<1> HIDE DEF merged
<1>7. more = {Shifted(s, a - 1) : s \in merged}
  BY DEF ChunkFound, merged, both, u, a, b
<1>8. \A s \in SpansOf(m) : /\ Shifted(s, a - 1) \in SpansOf(Len(t))
                            /\ Shifted(s, a - 1).from = s.from + a - 1 /\ Shifted(s, a - 1).to = s.to + a - 1
                            /\ Shifted(s, a - 1).label = s.label
  BY <1>0, <1>1, ShiftedIs
<1>9. more \in SUBSET SpansOf(Len(t))
  BY <1>6, <1>7, <1>8
<1>10. ASSUME NEW s \in ValidatedFloor(u) PROVE \E r \in more : Holds(r, Shifted(s, a - 1))
  <2>1. PICK r \in merged : Holds(r, s)
    BY <1>5, <1>6
  <2>2. r \in SpansOf(m) /\ s \in SpansOf(m)
    BY <1>5, <1>6
  <2>3. r.from \in Int /\ r.to \in Int /\ s.from \in Int /\ s.to \in Int /\ a \in Int
    <3>1. \A x \in SpansOf(m) : x.from \in 1 .. m /\ x.to \in 1 .. m
      BY <1>2, SpansOfIs
    <3> QED BY <1>0, <2>2, <3>1
  <2>4. /\ Shifted(r, a - 1).from = r.from + a - 1 /\ Shifted(r, a - 1).to = r.to + a - 1
        /\ Shifted(s, a - 1).from = s.from + a - 1 /\ Shifted(s, a - 1).to = s.to + a - 1
        /\ Shifted(r, a - 1).label = r.label /\ Shifted(s, a - 1).label = s.label
    BY <1>8, <2>2
  <2>5. Holds(Shifted(r, a - 1), Shifted(s, a - 1))
    BY <2>1, <2>3, <2>4 DEF Holds
  <2> QED BY <1>7, <2>1, <2>5
<1> QED BY <1>9, <1>10 DEF ChunkDone, u, a, b

\* The places of a view are in the text, and in its order.
LEMMA ViewPlaces ==
  ASSUME NEW t, IsText(t), NEW v \in Views(t), NEW p \in AloneIn(v.text)
  PROVE  /\ p[1] \in Int /\ v.at[p[1]] \in 1 .. Len(t) /\ v.at[p[2]] \in 1 .. Len(t) /\ v.at[p[1]] <= v.at[p[2]]
         /\ \A c \in 1 .. p[1] - 1 : v.at[c] \in 1 .. Len(t) /\ v.at[c] <= v.at[p[1]]
<1>0. Len(t) \in Nat
  BY TextIs
<1>1. PICK m \in Nat : /\ IsText(v.text) /\ Len(v.text) = m /\ \A k \in 1 .. m : v.at[k] \in 1 .. Len(t)
                       /\ \A k, l \in 1 .. m : k < l => v.at[k] < v.at[l]
  <2>1. CASE v.text = NormSeps(t) /\ v.at = [i \in 1 .. Len(t) |-> i]
    <3>1. IsText(v.text) /\ Len(v.text) = Len(t)
      BY <2>1, NormSepsIs
    <3>2. /\ \A k \in 1 .. Len(t) : v.at[k] \in 1 .. Len(t)
          /\ \A k, l \in 1 .. Len(t) : k < l => v.at[k] < v.at[l]
      BY <1>0, <2>1
    <3> QED BY <1>0, <3>1, <3>2
  <2>2. CASE v.text = NormSeps(Clean(t)) /\ v.at = IdxMap(t)
    <3> DEFINE m == Len(IdxMap(t))
    <3>1. /\ IsText(Clean(t)) /\ Len(Clean(t)) = m /\ m \in Nat /\ DOMAIN IdxMap(t) = 1 .. m
          /\ \A k \in 1 .. m : IdxMap(t)[k] \in 1 .. Len(t)
          /\ \A k, l \in 1 .. m : k < l => IdxMap(t)[k] < IdxMap(t)[l]
      BY CleanIs DEF Lists
    <3>2. IsText(v.text) /\ Len(v.text) = m
      BY <2>2, <3>1, NormSepsIs
    <3> HIDE DEF m
    <3> QED BY <2>2, <3>1, <3>2
  <2> QED BY <2>1, <2>2, ViewIs
<1>2. p[1] \in 1 .. m /\ p[2] \in p[1] .. m
  BY <1>1, AloneInIs
<1>3. p[1] \in Int /\ p[2] \in 1 .. m /\ (p[1] = p[2] \/ p[1] < p[2]) /\ \A c \in 1 .. p[1] - 1 : c \in 1 .. m /\ c < p[1]
  BY <1>1, <1>2
<1>4. v.at[p[1]] \in 1 .. Len(t) /\ v.at[p[2]] \in 1 .. Len(t)
  BY <1>1, <1>2, <1>3
<1>5. v.at[p[1]] <= v.at[p[2]]
  <2>1. v.at[p[1]] = v.at[p[2]] \/ v.at[p[1]] < v.at[p[2]]
    BY <1>1, <1>2, <1>3
  <2> QED BY <1>0, <1>4, <2>1
<1>6. ASSUME NEW c \in 1 .. p[1] - 1 PROVE v.at[c] \in 1 .. Len(t) /\ v.at[c] <= v.at[p[1]]
  <2>1. v.at[c] \in 1 .. Len(t) /\ v.at[c] < v.at[p[1]]
    BY <1>1, <1>2, <1>3
  <2> QED BY <1>0, <1>4, <2>1
<1> QED BY <1>3, <1>4, <1>5, <1>6

\* When every chunk is done, every number that some window has whole is found.
LEMMA AllAnswered ==
  ASSUME NEW t, IsText(t), NEW found, found \in SUBSET SpansOf(Len(t)),
         \A c \in ToSet(Chunks(t)) : ChunkDone(t, found, c),
         NEW v \in Views(t), NEW p \in AloneIn(v.text), InOneWindow(t, v, p)
  PROVE  Covered(<<v.at[p[1]], v.at[p[2]]>>, found, FloorLabels)
<1> DEFINE n == Len(t)
           i == v.at[p[1]]
           j == v.at[p[2]]
           Cued(a, b) == ProgramBehind(v.text, p[2]) =>
                           \E k \in 1 .. p[1] - 1 : CueAt(v.text, k, SinCues) /\ a <= v.at[k] /\ v.at[k] <= b
<1>0. n \in Nat
  BY TextIs
<1>1. /\ i \in 1 .. n /\ j \in 1 .. n /\ i <= j
      /\ \A k \in 1 .. p[1] - 1 : v.at[k] \in 1 .. n /\ v.at[k] <= i
  BY ViewPlaces
<1>2. /\ Chunks(t) \in Seq(Pairs(n))
      /\ \A x \in 1 .. n, y \in 1 .. n : x <= y /\ InOnePiece(t, x, y) => InSome(Chunks(t), x, y)
  BY ChunksAre
<1>a. \A c \in ToSet(Chunks(t)) : c \in Pairs(n)
  <2> DEFINE s == Chunks(t)
  <2>1. \A k \in DOMAIN s : s[k] \in Pairs(n)
    <3> HIDE DEF s, n
    <3> QED BY <1>2, LenProperties, ElementOfSeq DEF s
  <2> QED BY <2>1 DEF ToSet
<1>b. \A c \in Pairs(n) : c[1] \in 1 .. n /\ c[2] \in c[1] .. n /\ c[1] \in Int /\ c[2] \in Int
  BY <1>0, PairsIs
<1> HIDE DEF n, i, j
<1>3. PICK c \in ToSet(Chunks(t)) : c[1] <= i /\ j <= c[2] /\ Cued(c[1], c[2])
  <2>1. CASE ProgramBehind(v.text, p[2])
    <3>1. PICK k \in 1 .. p[1] - 1 : CueAt(v.text, k, SinCues) /\ InOnePiece(t, v.at[k], j)
      BY <2>1 DEF InOneWindow, j
    <3>2. v.at[k] \in 1 .. n /\ v.at[k] <= i /\ v.at[k] <= j
      <4>1. v.at[k] \in 1 .. n /\ v.at[k] <= i
        BY <1>1
      <4> QED BY <1>0, <1>1, <4>1
    <3>3. PICK c \in ToSet(Chunks(t)) : c[1] <= v.at[k] /\ j <= c[2]
      BY <1>1, <1>2, <3>1, <3>2 DEF InSome
    <3>4. c[1] <= i /\ v.at[k] <= c[2]
      BY <1>0, <1>1, <1>a, <1>b, <3>2, <3>3
    <3> QED BY <3>1, <3>3, <3>4
  <2>2. CASE ~ProgramBehind(v.text, p[2])
    <3>1. InOnePiece(t, i, j)
      BY DEF InOneWindow, i, j
    <3>2. PICK c \in ToSet(Chunks(t)) : c[1] <= i /\ j <= c[2]
      BY <1>1, <1>2, <3>1 DEF InSome
    <3> QED BY <2>2, <3>2
  <2> QED BY <2>1, <2>2
<1> DEFINE a == c[1]
           b == c[2]
<1>4. a \in 1 .. Len(t) /\ b \in a .. Len(t)
  BY <1>a, <1>b DEF n
<1>c. a <= v.at[p[1]] /\ v.at[p[2]] <= b /\ Cued(a, b)
  BY <1>3 DEF i, j
<1> HIDE DEF a, b
<1>5. PICK s \in ValidatedFloor(SubSeq(t, a, b)) : s.from + a - 1 = i /\ s.to + a - 1 = j /\ s.label \in Numbers
  BY <1>4, <1>c, WindowFinds DEF i, j
<1>6. PICK r \in found : Holds(r, Shifted(s, a - 1))
  BY DEF ChunkDone, a, b
<1>7. Shifted(s, a - 1).from = i /\ Shifted(s, a - 1).to = j /\ Shifted(s, a - 1).label \in FloorLabels
  <2>1. s \in SpansOf(b + 1 - a)
    <3> DEFINE u == SubSeq(t, a, b)
    <3>1. IsText(u) /\ Len(u) = b + 1 - a
      BY <1>4, PartIs
    <3> HIDE DEF u
    <3>2. ValidatedFloor(u) \subseteq SpansOf(b + 1 - a)
      BY <3>1, KnownTyped
    <3> QED BY <3>2 DEF u
  <2>2. /\ Shifted(s, a - 1).from = s.from + a - 1 /\ Shifted(s, a - 1).to = s.to + a - 1
        /\ Shifted(s, a - 1).label = s.label
    BY <1>0, <1>4, <2>1, ShiftedIs DEF n
  <2> QED BY <1>5, <2>2, NumberLabelsAssumption
<1>8. r.from <= i /\ j <= r.to /\ r.label \in FloorLabels
  BY <1>6, <1>7 DEF Holds
<1> QED BY <1>8 DEF Covered, i, j

Busy == {"floor", "model", "sought", "masked", "swept", "answered"}
Sought == {"sought", "masked", "swept", "answered"}

\* What there is while a request is served: its chunks are still to come or
\* done, and what is found is found in its text.
ServedInv ==
  /\ phase \in {"idle", "refused"} \cup Busy
  /\ phase \in Busy => asked.text \in Texts /\ spans \in SUBSET SpansOf(Len(asked.text))
  /\ phase \notin Busy => spans = {}
  /\ phase \in {"floor", "model"} =>
       /\ chunks \in Seq(Pairs(Len(asked.text)))
       /\ \A c \in ToSet(Chunks(asked.text)) : c \in ToSet(chunks) \/ ChunkDone(asked.text, spans, c)
  /\ phase = "model" => chunks # <<>> /\ known = GateKnows(Chunk)
  /\ phase \in Sought =>
       /\ Disjoint(spans)
       /\ \A c \in ToSet(Chunks(asked.text)) : ChunkDone(asked.text, spans, c)

LEMMA AskedIs == ASSUME ServedInv, phase \in Busy PROVE IsText(asked.text) /\ Len(asked.text) \in Nat
BY TextAssumption, TextIs DEF ServedInv

LEMMA ReceiveServed ==
  ASSUME ServedInv, NEW header, NEW request \in Requests, Receive(header, request) PROVE ServedInv'
<1>1. /\ phase = "idle" /\ spans = {} /\ asked' = request /\ phase' = "floor" /\ chunks' = Chunks(request.text)
      /\ spans' = {} /\ request.text \in Texts
  BY DEF Receive, ServedInv, Busy, Requests
<1>2. Chunks(request.text) \in Seq(Pairs(Len(request.text)))
  BY <1>1, TextAssumption, ChunksAre
<1> QED BY <1>1, <1>2 DEF ServedInv, Busy, Sought

LEMMA ModelServed == ASSUME ServedInv, AskModel PROVE ServedInv'
<1> DEFINE t == asked.text
           c == Head(chunks)
           u == SubSeq(t, c[1], c[2])
           tokens == {k \in DOMAIN u : u[k] \notin Blank \cup LineEnds}
           Given(guess) == [k \in tokens |-> IF k \in DOMAIN guess THEN guess[k] ELSE Outside]
           More(tags) == {Shifted(s, c[1] - 1) : s \in Merged(GateKnows(u) \cup Decode(tags, asked.least))}
<1>1. /\ phase = "model" /\ phase' = "floor" /\ chunks' = Tail(chunks) /\ asked' = asked
      /\ t \in Texts /\ spans \in SUBSET SpansOf(Len(t)) /\ chunks \in Seq(Pairs(Len(t))) /\ chunks # <<>>
      /\ known = GateKnows(u)
      /\ \A q \in ToSet(Chunks(t)) : q \in ToSet(chunks) \/ ChunkDone(t, spans, q)
  BY DEF AskModel, ServedInv, Busy, Chunk
<1>2. IsText(t) /\ Len(t) \in Nat
  BY <1>1, AskedIs DEF Busy
<1>3. c \in Pairs(Len(t)) /\ Tail(chunks) \in Seq(Pairs(Len(t))) /\ \A q \in ToSet(chunks) : q = c \/ q \in ToSet(Tail(chunks))
  <2> DEFINE X == Pairs(Len(t))
  <2>1. chunks \in Seq(X) /\ chunks # <<>>
    BY <1>1
  <2> HIDE DEF X
  <2>2. /\ Len(chunks) \in Nat \ {0} /\ DOMAIN chunks = 1 .. Len(chunks) /\ Head(chunks) = chunks[1] /\ Head(chunks) \in X
        /\ Tail(chunks) \in Seq(X) /\ Len(Tail(chunks)) = Len(chunks) - 1
        /\ \A k \in 1 .. Len(Tail(chunks)) : Tail(chunks)[k] = chunks[k + 1]
    BY <2>1, HeadTailProperties, EmptySeq, LenProperties
  <2>3. DOMAIN Tail(chunks) = 1 .. Len(chunks) - 1
    BY <2>2, LenProperties
  <2>4. ASSUME NEW k \in 1 .. Len(chunks), k # 1 PROVE chunks[k] \in ToSet(Tail(chunks))
    <3>1. k - 1 \in 1 .. Len(chunks) - 1 /\ (k - 1) + 1 = k
      BY <2>2, <2>4
    <3> QED BY <2>2, <2>3, <3>1 DEF ToSet
  <2> QED BY <2>2, <2>4 DEF ToSet, X
<1>4. c[1] \in 1 .. Len(t) /\ c[2] \in c[1] .. Len(t) /\ c[1] \in Int
  BY <1>2, <1>3, PairsIs
<1>5. IsText(u) /\ Len(u) = c[2] + 1 - c[1] /\ DOMAIN u = 1 .. c[2] + 1 - c[1] /\ c[2] + 1 - c[1] \in Nat
  BY <1>2, <1>4, PartIs
<1>6. PICK guess \in [{k \in DOMAIN u : u[k] \in Tagged} -> Tags] :
        spans' = spans \cup {InText(s) : s \in Merged(known \cup Decode(Given(guess), asked.least))}
  BY DEF AskModel, Chunk
<1> DEFINE tags == Given(guess)
           merged == Merged(GateKnows(u) \cup Decode(tags, asked.least))
<1>7. AreTags(tags, c[2] + 1 - c[1])
  <2>1. DOMAIN tags = tokens /\ tokens \in SUBSET (1 .. c[2] + 1 - c[1])
    BY <1>5
  <2>2. \A k \in tokens : tags[k] \in Tags \cup {Outside}
    OBVIOUS
  <2> HIDE DEF tags, tokens
  <2> QED BY <2>1, <2>2 DEF AreTags
<1> HIDE DEF tags
<1>8. More(tags) \in SUBSET SpansOf(Len(t)) /\ ChunkDone(t, More(tags), c)
  <2> DEFINE least == asked.least
             more == More(tags)
  <2>1. more = ChunkFound(t, c, tags, least)
    BY DEF ChunkFound
  <2>2. c \in Pairs(Len(t)) /\ AreTags(tags, c[2] + 1 - c[1]) /\ IsText(t)
    BY <1>2, <1>3, <1>7
  <2> HIDE DEF t, c, least, more, u
  <2>3. more \in SUBSET SpansOf(Len(t)) /\ ChunkDone(t, more, c)
    BY <2>1, <2>2, ChunkServed
  <2> QED BY <2>3 DEF more
<1>9. \A s \in merged : InText(s) = Shifted(s, c[1] - 1)
  <2>1. merged \in SUBSET SpansOf(c[2] + 1 - c[1])
    <3> DEFINE m == c[2] + 1 - c[1]
    <3>1. GateKnows(u) \subseteq SpansOf(m) /\ Decode(tags, asked.least) \subseteq SpansOf(m)
      BY <1>5, <1>7, KnownTyped, DecodeTyped
    <3>2. GateKnows(u) \cup Decode(tags, asked.least) \in SUBSET SpansOf(m)
      BY <3>1
    <3> HIDE DEF m
    <3> QED BY <1>5, <3>2, MergedTyped DEF m
  <2> HIDE DEF merged, c
  <2> TAKE s \in merged
  <2> DEFINE i == s.from
             j == s.to
             l == s.label
             k == s.conf
             a == c[1]
             x == InText(s)
  <2>2. i \in Int /\ j \in Int /\ a \in Int /\ s = [from |-> i, to |-> j, label |-> l, conf |-> k]
    <3>1. s \in SpansOf(c[2] + 1 - c[1])
      BY <2>1
    <3>2. i \in 1 .. c[2] + 1 - c[1] /\ j \in 1 .. c[2] + 1 - c[1] /\ s = Span(i, j, l, k)
      BY <1>5, <3>1, SpansOfIs
    <3> QED BY <1>4, <3>2 DEF Span
  <2>3. x = [s EXCEPT !.from = i + a - 1, !.to = j + a - 1]
    BY DEF InText, c
  <2>4. i + a - 1 = i + (a - 1) /\ j + a - 1 = j + (a - 1)
    BY <2>2
  <2> HIDE DEF i, j, l, k, a, x
  <2>5. x = [from |-> i + a - 1, to |-> j + a - 1, label |-> l, conf |-> k]
    BY <2>2, <2>3
  <2>6. x = Span(i + (a - 1), j + (a - 1), l, k)
    BY <2>4, <2>5 DEF Span
  <2> QED BY <2>6 DEF Shifted, i, j, l, k, a, x
<1>10. spans' = spans \cup More(tags)
  <2>1. spans' = spans \cup {InText(s) : s \in merged}
    BY <1>1, <1>6 DEF tags
  <2>2. More(tags) = {Shifted(s, c[1] - 1) : s \in merged}
    OBVIOUS
  <2>3. {InText(s) : s \in merged} = {Shifted(s, c[1] - 1) : s \in merged}
    <3> HIDE DEF merged, c
    <3> QED BY <1>9
  <2> QED BY <2>1, <2>2, <2>3
<1> HIDE DEF More, c, t, u, merged
<1>11. spans' \in SUBSET SpansOf(Len(t))
  BY <1>1, <1>8, <1>10
<1>12. \A q : ChunkDone(t, spans, q) \/ ChunkDone(t, More(tags), q) => ChunkDone(t, spans', q)
  BY <1>10 DEF ChunkDone
<1>13. \A q \in ToSet(Chunks(t)) : q \in ToSet(Tail(chunks)) \/ ChunkDone(t, spans', q)
  BY <1>1, <1>3, <1>8, <1>12
<1> QED BY <1>1, <1>3, <1>11, <1>13 DEF ServedInv, Busy, Sought, t

LEMMA AssembleServed == ASSUME ServedInv, Assemble PROVE ServedInv'
<1> DEFINE t == asked.text
<1>1. /\ phase = "floor" /\ phase' \in {"sought", "answered"} /\ chunks = <<>> /\ asked' = asked
      /\ t \in Texts /\ spans \in SUBSET SpansOf(Len(t))
      /\ \A q \in ToSet(Chunks(t)) : q \in ToSet(chunks) \/ ChunkDone(t, spans, q)
  BY DEF Assemble, ServedInv, Busy
<1>2. IsText(t) /\ Len(t) \in Nat
  BY <1>1, AskedIs DEF Busy
<1>3. ToSet(<<>>) = {}
  BY DEF ToSet
<1>4. PICK toks, grown : /\ toks = Tokens(t, 1, Len(t)) /\ grown = GrownNames(t, toks, spans)
                         /\ spans' = Merged(WithRepeats(t, grown, Sources(t, grown)))
  BY DEF Assemble
<1> HIDE DEF t
<1>5. /\ spans' \in SUBSET SpansOf(Len(t)) /\ Disjoint(spans')
      /\ \A s \in spans : \E r \in spans' : Holds(r, s)
  BY <1>1, <1>2, <1>4, AssembledHolds
<1>6. ASSUME NEW q \in ToSet(Chunks(t)) PROVE ChunkDone(t, spans', q)
  <2> DEFINE u == SubSeq(t, q[1], q[2])
  <2>1. ChunkDone(t, spans, q)
    BY <1>1, <1>3
  <2>2. q \in Pairs(Len(t))
    <3> DEFINE s == Chunks(t)
               n == Len(t)
    <3>1. s \in Seq(Pairs(n))
      BY <1>2, ChunksAre
    <3> HIDE DEF s, n
    <3>2. \A k \in DOMAIN s : s[k] \in Pairs(n)
      BY <3>1, LenProperties, ElementOfSeq
    <3> QED BY <3>2 DEF ToSet, s, n
  <2>3. q[1] \in 1 .. Len(t) /\ q[2] \in q[1] .. Len(t)
    BY <1>2, <2>2, PairsIs
  <2>4. ASSUME NEW s \in ValidatedFloor(u) PROVE Shifted(s, q[1] - 1) \in SpansOf(Len(t))
    <3>1. IsText(u) /\ Len(u) = q[2] + 1 - q[1]
      BY <1>2, <2>3, PartIs
    <3> HIDE DEF u
    <3>2. ValidatedFloor(u) \subseteq SpansOf(q[2] + 1 - q[1])
      BY <3>1, KnownTyped
    <3>3. s \in SpansOf(q[2] + 1 - q[1])
      BY <2>4, <3>2
    <3> QED BY <1>2, <2>3, <3>3, ShiftedIs
  <2>5. ASSUME NEW s \in ValidatedFloor(u) PROVE \E r \in spans' : Holds(r, Shifted(s, q[1] - 1))
    <3> DEFINE x == Shifted(s, q[1] - 1)
    <3>1. PICK r \in spans : Holds(r, x)
      BY <2>1, <2>5 DEF ChunkDone
    <3>2. x \in SpansOf(Len(t))
      BY <2>4, <2>5
    <3> HIDE DEF x
    <3>3. PICK z \in spans' : Holds(z, r)
      BY <1>5
    <3>4. Holds(z, x)
      BY <1>1, <1>2, <1>5, <3>1, <3>2, <3>3, HoldsOn DEF t
    <3> QED BY <3>3, <3>4 DEF x
  <2> QED BY <2>5 DEF ChunkDone
<1> QED BY <1>1, <1>5, <1>6 DEF ServedInv, Busy, Sought, t

\* What a request and its answer are, at every step of its service.
LEMMA Serving == Spec => []ServedInv
<1>1. Init => ServedInv
  BY DEF Init, GateInit, ServedInv, Busy, Sought
<1>2. ServedInv /\ [Next]_vars => ServedInv'
  <2> SUFFICES ASSUME ServedInv, [Next]_vars PROVE ServedInv'
    OBVIOUS
  <2>1. CASE UNCHANGED gateVars
    BY <2>1 DEF gateVars, ServedInv, Busy, Sought, Chunk
  <2>2. ASSUME NEW host, NEW token, Start(host, token) PROVE ServedInv'
    BY <2>2 DEF Start, ServedInv, Busy, Sought, Chunk
  <2>3. ASSUME NEW header, NEW request, Refuse(header, request) PROVE ServedInv'
    BY <2>3 DEF Refuse, ServedInv, Busy, Sought, Chunk
  <2>4. ASSUME NEW header, NEW request \in Requests, Receive(header, request) PROVE ServedInv'
    BY <2>4, ReceiveServed
  <2>5. CASE ScanFloor
    BY <2>5 DEF ScanFloor, ServedInv, Busy, Sought, Chunk
  <2>6. CASE AskModel
    BY <2>6, ModelServed
  <2>7. CASE Assemble
    BY <2>7, AssembleServed
  <2>8. CASE Substitute \/ SweepExact \/ SweepFolded
    BY <2>8 DEF Substitute, SweepExact, SweepFolded, ServedInv, Busy, Sought
  <2>9. CASE Respond
    BY <2>9 DEF Respond, ServedInv, Busy, Sought
  <2>10. (\E t \in LocalTexts : Open(t)) \/ BrowserScan \/ ApplianceScan \/ Close => UNCHANGED gateVars
    BY DEF Open, BrowserScan, ApplianceScan, Close
  <2>11. CASE GateNext
    BY <2>2, <2>3, <2>4, <2>5, <2>6, <2>7, <2>8, <2>9, <2>11 DEF GateNext
  <2> QED BY <2>1, <2>10, <2>11 DEF Next, vars
<1> QED BY <1>1, <1>2, PTL DEF Spec

\* Wherever the windows of a long text are cut and whatever the model takes its
\* words for, the answer has every number that stands alone on its line
\* (NumbersAnswered): some chunk has the number whole, with the cue that it
\* needs, the floor finds it there, and neither the merge, nor the growth of
\* names, nor the search for repeats gives up what is found or weakens a floor
\* label (gate/privacy_gate.py: detect_chunked, merge_spans).
THEOREM Answers == Spec => []NumbersAnswered
<1>1. ServedInv => NumbersAnswered
  <2> SUFFICES ASSUME ServedInv, phase \in Sought, NEW v \in Views(asked.text), NEW p \in AloneIn(v.text),
                      InOneWindow(asked.text, v, p)
               PROVE  Covered(<<v.at[p[1]], v.at[p[2]]>>, spans, FloorLabels)
    BY DEF NumbersAnswered, Sought
  <2>1. phase \in Busy
    BY DEF Sought, Busy
  <2>2. IsText(asked.text)
    BY <2>1, AskedIs
  <2>3. spans \in SUBSET SpansOf(Len(asked.text)) /\ \A c \in ToSet(Chunks(asked.text)) : ChunkDone(asked.text, spans, c)
    BY <2>1 DEF ServedInv
  <2> QED BY <2>2, <2>3, AllAnswered
<1> QED BY <1>1, Serving, PTL

-----------------------------------------------------------------------------
(* Redacted, and restored *)

\* An atom as it is compared when case does not matter.
Low(a) == IF a \in DOMAIN Lower THEN Lower[a] ELSE a

LEMMA FoldedLow ==
  ASSUME NEW t, IsText(t), NEW i \in 1 .. Len(t) + 1, NEW j \in i - 1 .. Len(t)
  PROVE  /\ Len(Folded(t, i, j)) = j + 1 - i /\ DOMAIN Folded(t, i, j) = 1 .. j + 1 - i /\ j + 1 - i \in Nat
         /\ Folded(t, i, j) = [k \in 1 .. j + 1 - i |-> Low(t[i + k - 1])]
         /\ \A k \in 1 .. j + 1 - i : Folded(t, i, j)[k] = Low(t[i + k - 1])
<1>1. Len(t) \in Nat /\ DOMAIN t = 1 .. Len(t)
  BY TextIs
<1>2. i \in Int /\ j \in Int /\ i <= j + 1 /\ \A k \in 1 .. j + 1 - i : i + k - 1 \in 1 .. Len(t)
  BY <1>1
<1>3. \A k \in 1 .. j + 1 - i :
         Low(t[i + k - 1]) = IF LetterAt(t, i + k - 1) THEN Lower[t[i + k - 1]] ELSE t[i + k - 1]
  BY <1>1, <1>2 DEF Low, LetterAt
<1>4. Folded(t, i, j) = [k \in 1 .. j + 1 - i |-> Low(t[i + k - 1])]
  BY <1>3 DEF Folded
<1>5. Len(Folded(t, i, j)) = j + 1 - i /\ DOMAIN Folded(t, i, j) = 1 .. j + 1 - i /\ j + 1 - i \in Nat
  BY <1>2, FoldedIs
<1> QED BY <1>4, <1>5

\* What is no word of a text, in either case.
Foreign(p, t) == p \notin DOMAIN Lower /\ \A a \in ToSet(t) : p # a /\ p # Low(a)

\* Placeholders of a text, and for each what of the text it stands for.
Maps(m, t) ==
  \A p \in DOMAIN m :
    /\ Foreign(p, t) /\ IsText(m[p].value) /\ Len(m[p].value) \in Nat \ {0}
    /\ \A k \in 1 .. Len(m[p].value) : m[p].value[k] \in ToSet(t)

\* Where a value is read, word for word.
LEMMA StandsIs ==
  ASSUME NEW u, IsText(u), NEW i \in 1 .. Len(u), NEW v, IsText(v), Len(v) \in Nat \ {0}, NEW exact, StandsAt(u, i, v, exact)
  PROVE  /\ i + Len(v) - 1 \in i .. Len(u) /\ Guarded(u, i, i + Len(v) - 1)
         /\ \A k \in 1 .. Len(v) : /\ i + k - 1 \in 1 .. Len(u) /\ Low(u[i + k - 1]) = Low(v[k])
                                   /\ exact => u[i + k - 1] = v[k]
<1> DEFINE n == Len(v)
           j == i + n - 1
<1>1. Len(u) \in Nat /\ DOMAIN u = 1 .. Len(u) /\ n \in Nat \ {0} /\ DOMAIN v = 1 .. n
  BY TextIs
<1>2. /\ j <= Len(u) /\ Guarded(u, i, j)
      /\ IF exact THEN SubSeq(u, i, j) = v ELSE Folded(u, i, j) = Folded(v, 1, n)
  BY DEF StandsAt
<1>3. j \in i .. Len(u) /\ j \in i - 1 .. Len(u) /\ i \in 1 .. Len(u) + 1 /\ j + 1 - i = n
      /\ \A k \in 1 .. n : i + k - 1 \in 1 .. Len(u) /\ k + i - 1 = i + k - 1 /\ 1 + k - 1 = k
  BY <1>1, <1>2
<1> HIDE DEF n, j
<1>4. CASE exact
  <2>1. \A k \in 1 .. n : SubSeq(u, i, j)[k] = u[k + i - 1]
    BY <1>1, <1>3, PartIs
  <2> QED BY <1>2, <1>3, <1>4, <2>1 DEF n, j
<1>5. CASE ~exact
  <2>1. \A k \in 1 .. n : Folded(u, i, j)[k] = Low(u[i + k - 1])
    BY <1>3, FoldedLow
  <2>2. \A k \in 1 .. n : Folded(v, 1, n)[k] = Low(v[1 + k - 1])
    <3>1. 1 \in 1 .. Len(v) + 1 /\ n \in 1 - 1 .. Len(v) /\ n + 1 - 1 = n
      BY <1>1 DEF n
    <3> QED BY <3>1, FoldedLow
  <2> QED BY <1>2, <1>3, <1>5, <2>1, <2>2 DEF n, j
<1> QED BY <1>4, <1>5

LEMMA StandsThere ==
  ASSUME NEW u, IsText(u), NEW i \in 1 .. Len(u), NEW v, IsText(v), Len(v) \in Nat \ {0}, NEW exact,
         i + Len(v) - 1 <= Len(u), Guarded(u, i, i + Len(v) - 1),
         \A k \in 1 .. Len(v) : Low(u[i + k - 1]) = Low(v[k]) /\ (exact => u[i + k - 1] = v[k])
  PROVE  StandsAt(u, i, v, exact)
<1> DEFINE n == Len(v)
           j == i + n - 1
<1>1. Len(u) \in Nat /\ DOMAIN u = 1 .. Len(u) /\ n \in Nat \ {0} /\ DOMAIN v = 1 .. n /\ v = [k \in 1 .. n |-> v[k]]
  BY TextIs
<1>2. j \in i .. Len(u) /\ j \in i - 1 .. Len(u) /\ i \in 1 .. Len(u) + 1 /\ j + 1 - i = n
      /\ \A k \in 1 .. n : i + k - 1 \in 1 .. Len(u) /\ k + i - 1 = i + k - 1 /\ 1 + k - 1 = k
  BY <1>1
<1>3. \A k \in 1 .. n : Low(u[i + k - 1]) = Low(v[k]) /\ (exact => u[i + k - 1] = v[k])
  OBVIOUS
<1>4. j <= Len(u) /\ Guarded(u, i, j)
  OBVIOUS
<1> HIDE DEF n, j
<1>5. exact => SubSeq(u, i, j) = v
  <2> SUFFICES ASSUME exact PROVE SubSeq(u, i, j) = v
    OBVIOUS
  <2> DEFINE w == SubSeq(u, i, j)
  <2>1. IsText(w) /\ Len(w) = n /\ \A k \in 1 .. n : w[k] = u[k + i - 1]
    BY <1>2, PartIs
  <2> HIDE DEF w
  <2>2. w = [k \in 1 .. n |-> w[k]]
    BY <2>1, TextIs
  <2>3. \A k \in 1 .. n : w[k] = v[k]
    BY <1>2, <1>3, <2>1
  <2> QED BY <1>1, <2>2, <2>3 DEF w
<1>6. Folded(u, i, j) = Folded(v, 1, n)
  <2>1. Folded(u, i, j) = [k \in 1 .. n |-> Low(u[i + k - 1])]
    BY <1>2, FoldedLow
  <2>2. Folded(v, 1, n) = [k \in 1 .. n |-> Low(v[1 + k - 1])]
    <3>1. 1 \in 1 .. Len(v) + 1 /\ n \in 1 - 1 .. Len(v) /\ n + 1 - 1 = n
      BY <1>1 DEF n
    <3> QED BY <3>1, FoldedLow
  <2> QED BY <1>2, <1>3, <2>1, <2>2
<1> QED BY <1>4, <1>5, <1>6 DEF StandsAt, n, j

\* The values that stand at a place, and the one that is swept there.
Hits(t, i, these, exact) == {p \in these : StandsAt(t, i, names[p].value, exact)}
LongestHit(t, i, these, exact) ==
  CHOOSE p \in Hits(t, i, these, exact) :
    \A q \in Hits(t, i, these, exact) : Len(names[p].value) >= Len(names[q].value)

\* What a sweep makes of the text from a place on, if f does from the later ones.
Onward(t, f, i, these, exact) ==
  IF i > Len(t) THEN <<>>
  ELSE IF Hits(t, i, these, exact) = {} THEN <<t[i]>> \o f[i + 1]
  ELSE <<LongestHit(t, i, these, exact)>> \o f[i + Len(names[LongestHit(t, i, these, exact)].value)]

\* What it writes at a place, and where it goes on.
Written(t, i, these, exact) ==
  IF Hits(t, i, these, exact) = {} THEN t[i] ELSE LongestHit(t, i, these, exact)
GoesOnAt(t, i, these, exact) ==
  IF Hits(t, i, these, exact) = {} THEN i + 1 ELSE i + Len(names[LongestHit(t, i, these, exact)].value)

LEMMA SweepGoesOn ==
  ASSUME NEW t, IsText(t), NEW text, Maps(names, text), NEW these \in SUBSET DOMAIN names, NEW exact, NEW i \in 1 .. Len(t)
  PROVE  /\ GoesOnAt(t, i, these, exact) \in i + 1 .. Len(t) + 1
         /\ \A f : Onward(t, f, i, these, exact) = <<Written(t, i, these, exact)>> \o f[GoesOnAt(t, i, these, exact)]
         /\ Hits(t, i, these, exact) # {} => Written(t, i, these, exact) \in Hits(t, i, these, exact)
<1> DEFINE hits == Hits(t, i, these, exact)
           p == LongestHit(t, i, these, exact)
           rank == [q \in hits |-> Len(names[q].value)]
<1>1. Len(t) \in Nat /\ i \in 1 .. Len(t)
  BY TextIs
<1>2. \A q \in hits : q \in these /\ q \in DOMAIN names /\ StandsAt(t, i, names[q].value, exact)
  BY DEF Hits
<1>3. p = CHOOSE r \in hits : \A q \in hits : Len(names[r].value) >= Len(names[q].value)
  BY DEF LongestHit
<1> HIDE DEF hits, p
<1>4. ASSUME NEW q \in hits PROVE Len(names[q].value) \in Nat \ {0} /\ i + Len(names[q].value) - 1 <= Len(t)
  <2>1. Len(names[q].value) \in Nat \ {0}
    BY <1>2 DEF Maps
  <2> QED BY <1>2, <2>1 DEF StandsAt
<1>5. hits # {} => p \in hits
  <2> SUFFICES ASSUME hits # {} PROVE p \in hits
    OBVIOUS
  <2>1. rank \in [hits -> Nat] /\ \A q \in hits : rank[q] = Len(names[q].value)
    BY <1>4
  <2>2. \A q \in hits : rank[q] <= Len(t)
    BY <1>1, <1>4, <2>1
  <2> HIDE DEF rank
  <2>3. PICK r \in hits : \A q \in hits : rank[q] <= rank[r]
    BY <1>1, <2>1, <2>2, LargestRank
  <2>4. \A q \in hits : Len(names[r].value) >= Len(names[q].value)
    BY <1>4, <2>1, <2>3
  <2> QED BY <1>3, <2>4
<1>6. hits # {} => i + Len(names[p].value) \in i + 1 .. Len(t) + 1
  <2> SUFFICES ASSUME hits # {} PROVE i + Len(names[p].value) \in i + 1 .. Len(t) + 1
    OBVIOUS
  <2>1. Len(names[p].value) \in Nat \ {0} /\ i + Len(names[p].value) - 1 <= Len(t)
    BY <1>4, <1>5
  <2> QED BY <1>1, <2>1
<1>7. GoesOnAt(t, i, these, exact) = (IF hits = {} THEN i + 1 ELSE i + Len(names[p].value))
  BY DEF GoesOnAt, hits, p
<1>8. Written(t, i, these, exact) = IF hits = {} THEN t[i] ELSE p
  BY DEF Written, hits, p
<1>9. ~(i > Len(t))
  BY <1>1
<1>10. \A f : Onward(t, f, i, these, exact) = (IF hits = {} THEN <<t[i]>> \o f[i + 1] ELSE <<p>> \o f[i + Len(names[p].value)])
  BY <1>9 DEF Onward, hits, p
<1>11. GoesOnAt(t, i, these, exact) \in i + 1 .. Len(t) + 1
  BY <1>1, <1>6, <1>7
<1>12. \A f : Onward(t, f, i, these, exact) = <<Written(t, i, these, exact)>> \o f[GoesOnAt(t, i, these, exact)]
  BY <1>7, <1>8, <1>10
<1> QED BY <1>5, <1>8, <1>11, <1>12 DEF hits

LEMMA SweepExists ==
  ASSUME NEW t, IsText(t), NEW text, Maps(names, text), NEW these \in SUBSET DOMAIN names, NEW exact
  PROVE  \E f : /\ f = [i \in 1 .. Len(t) + 1 |-> Onward(t, f, i, these, exact)]
                /\ Sweep(t, these, exact) = f[1]
<1> DEFINE c == Len(t) + 1
           Solves(f, m) == f = [i \in m .. c |-> Onward(t, f, i, these, exact)]
           S == {m \in 1 .. c : \E f : Solves(f, m)}
<1>1. c \in Nat /\ Len(t) \in Nat
  BY TextIs
<1>2. ASSUME NEW m \in 1 .. c, \A j \in m + 1 .. c : j \in S PROVE m \in S
  <2>1. CASE m = c
    <3> DEFINE f == [i \in m .. c |-> <<>>]
    <3>1. \A i \in m .. c : Onward(t, f, i, these, exact) = <<>>
      BY <1>1, <2>1 DEF Onward
    <3>2. Solves(f, m)
      BY <3>1
    <3> QED BY <3>2
  <2>2. CASE m < c
    <3>1. m + 1 \in S
      <4>1. m + 1 \in m + 1 .. c
        BY <1>1, <2>2
      <4> HIDE DEF S, c
      <4> QED BY <1>2, <4>1
    <3>2. PICK g : Solves(g, m + 1)
      BY <3>1
    <3> DEFINE f == [i \in m .. c |-> IF i = m THEN Onward(t, g, m, these, exact) ELSE g[i]]
    <3>3. \A i \in m + 1 .. c : f[i] = g[i] /\ g[i] = Onward(t, g, i, these, exact)
      BY <3>2
    <3>4. ASSUME NEW i \in m .. c PROVE Onward(t, f, i, these, exact) = Onward(t, g, i, these, exact)
      <4>1. CASE i > Len(t)
        BY <4>1 DEF Onward
      <4>2. CASE ~(i > Len(t))
        <5>1. i \in 1 .. Len(t)
          BY <1>1, <4>2
        <5> DEFINE k == GoesOnAt(t, i, these, exact)
        <5>2. /\ k \in i + 1 .. Len(t) + 1
              /\ \A h : Onward(t, h, i, these, exact) = <<Written(t, i, these, exact)>> \o h[k]
          BY <5>1, SweepGoesOn
        <5> HIDE DEF k
        <5>3. k \in m + 1 .. c
          BY <1>1, <5>1, <5>2
        <5>4. f[k] = g[k]
          BY <3>3, <5>3
        <5> HIDE DEF f
        <5> QED BY <5>2, <5>4
      <4> QED BY <4>1, <4>2
    <3>5. \A i \in m .. c : f[i] = Onward(t, f, i, these, exact)
      <4>1. f[m] = Onward(t, g, m, these, exact)
        BY <1>1
      <4>2. \A i \in m .. c : i = m \/ i \in m + 1 .. c
        BY <1>1
      <4> HIDE DEF f
      <4> QED BY <3>3, <3>4, <4>1, <4>2
    <3>6. Solves(f, m)
      <4>1. f = [i \in m .. c |-> f[i]]
        OBVIOUS
      <4> HIDE DEF f
      <4> QED BY <3>5, <4>1
    <3> QED BY <3>6
  <2> QED BY <1>1, <2>1, <2>2
<1>3. 1 \in S
  <2>1. 1 \in 1 .. c
    BY <1>1
  <2> HIDE DEF S, c
  <2> QED BY <1>1, <1>2, <2>1, Backwards
<1>4. PICK g : Solves(g, 1)
  BY <1>3
<1> DEFINE from == CHOOSE f : Solves(f, 1)
<1>5. Solves(from, 1)
  <2> HIDE DEF Solves
  <2> QED BY <1>4
<1>6. Sweep(t, these, exact) = from[1]
  BY DEF Sweep, Onward, Hits, LongestHit
<1> HIDE DEF from
<1> QED BY <1>5, <1>6

LEMMA TextsJoined ==
  ASSUME NEW u, NEW v, IsText(u), IsText(v)
  PROVE  /\ IsText(u \o v) /\ Len(u \o v) = Len(u) + Len(v)
         /\ \A i \in 1 .. Len(u) : (u \o v)[i] = u[i]
         /\ \A i \in 1 .. Len(v) : (u \o v)[Len(u) + i] = v[i]
<1> DEFINE T == ToSet(u) \cup ToSet(v)
           w == u \o v
           n == Len(w)
<1>1. u \in Seq(T) /\ v \in Seq(T)
  <2>1. u \in Seq(ToSet(u)) /\ v \in Seq(ToSet(v))
    BY DEF IsText
  <2>2. Len(u) \in Nat /\ Len(v) \in Nat /\ u = [i \in 1 .. Len(u) |-> u[i]] /\ v = [i \in 1 .. Len(v) |-> v[i]]
    BY TextIs
  <2>3. (\A i \in 1 .. Len(u) : u[i] \in T) /\ \A i \in 1 .. Len(v) : v[i] \in T
    BY TextIs DEF ToSet
  <2> HIDE DEF T
  <2> QED BY <2>2, <2>3
<1> HIDE DEF T
<1>2. w \in Seq(T) /\ Len(w) = Len(u) + Len(v)
  BY <1>1
<1>3. (\A i \in 1 .. Len(u) : w[i] = u[i]) /\ \A i \in 1 .. Len(v) : w[Len(u) + i] = v[i]
  BY <1>1
<1> HIDE DEF w
<1>4. n \in Nat /\ DOMAIN w = 1 .. n /\ w = [i \in 1 .. n |-> w[i]]
  BY <1>2, LenProperties
<1>5. IsText(w)
  <2> HIDE DEF n
  <2> QED BY <1>4, RowIsText
<1> QED BY <1>2, <1>3, <1>5 DEF w

LEMMA OneIsText == \A a : IsText(<<a>>) /\ Len(<<a>>) = 1 /\ <<a>>[1] = a
<1> TAKE a
<1> DEFINE s == <<a>>
<1>1. Len(s) = 1 /\ s[1] = a /\ DOMAIN s = 1 .. 1 /\ s = [i \in 1 .. 1 |-> s[i]]
  OBVIOUS
<1> HIDE DEF s
<1>2. IsText(s)
  BY <1>1, RowIsText
<1> QED BY <1>1, <1>2 DEF s

LEMMA NoneIsText == IsText(<<>>) /\ Len(<<>>) = 0
BY DEF IsText

LEMMA PutBefore ==
  ASSUME NEW w, NEW r, IsText(r)
  PROVE  /\ IsText(<<w>> \o r) /\ Len(<<w>> \o r) = Len(r) + 1 /\ (<<w>> \o r)[1] = w
         /\ \A j \in 1 .. Len(r) : (<<w>> \o r)[j + 1] = r[j]
<1> DEFINE x == <<w>>
           y == x \o r
<1>1. IsText(x) /\ Len(x) = 1 /\ x[1] = w /\ Len(r) \in Nat
  BY OneIsText, TextIs
<1> HIDE DEF x
<1>2. IsText(x) /\ IsText(r)
  BY <1>1
<1>3. /\ IsText(y) /\ Len(y) = Len(x) + Len(r)
      /\ \A j \in 1 .. Len(x) : y[j] = x[j]
  BY <1>2, TextsJoined
<1>4. \A j \in 1 .. Len(r) : y[Len(x) + j] = r[j]
  <2> TAKE j \in 1 .. Len(r)
  <2> QED BY <1>2, TextsJoined
<1> HIDE DEF y
<1>5. Len(x) + Len(r) = Len(r) + 1 /\ 1 \in 1 .. Len(x) /\ \A j \in 1 .. Len(r) : Len(x) + j = j + 1
  BY <1>1
<1>6. IsText(y) /\ Len(y) = Len(r) + 1 /\ y[1] = w /\ \A j \in 1 .. Len(r) : y[j + 1] = r[j]
  BY <1>1, <1>3, <1>4, <1>5
<1> QED BY <1>6 DEF y, x

\* How a sweep went: it wrote the atom k of u at the place at[k] of t.
Walk(t, u, at, these, exact) ==
  /\ IsText(u) /\ at \in [1 .. Len(u) + 1 -> 1 .. Len(t) + 1] /\ at[Len(u) + 1] = Len(t) + 1
  /\ \A k \in 1 .. Len(u) :
       /\ at[k] \in 1 .. Len(t)
       /\ \/ Hits(t, at[k], these, exact) = {} /\ u[k] = t[at[k]] /\ at[k + 1] = at[k] + 1
          \/ u[k] \in Hits(t, at[k], these, exact) /\ at[k + 1] = at[k] + Len(names[u[k]].value)

LEMMA SweepWalks ==
  ASSUME NEW t, IsText(t), NEW text, Maps(names, text), NEW these \in SUBSET DOMAIN names, NEW exact
  PROVE  \E at : Walk(t, Sweep(t, these, exact), at, these, exact) /\ at[1] = 1
<1> DEFINE n == Len(t)
<1>1. n \in Nat
  BY TextIs
<1>2. PICK f : f = [i \in 1 .. n + 1 |-> Onward(t, f, i, these, exact)] /\ Sweep(t, these, exact) = f[1]
  BY SweepExists
<1>3. \A i \in 1 .. n + 1 : f[i] = Onward(t, f, i, these, exact)
  BY <1>2
<1> DEFINE S == {i \in 1 .. n + 1 : \E at : Walk(t, f[i], at, these, exact) /\ at[1] = i}
<1>4. ASSUME NEW i \in 1 .. n + 1, \A j \in i + 1 .. n + 1 : j \in S PROVE i \in S
  <2>1. CASE i = n + 1
    <3> DEFINE at == [k \in 1 .. 1 |-> n + 1]
    <3>0. i > Len(t)
      BY <1>1, <2>1
    <3>1. f[i] = <<>>
      <4> HIDE DEF n
      <4> QED BY <1>3, <3>0 DEF Onward
    <3>2. at \in [1 .. 1 -> 1 .. n + 1] /\ at[1] = n + 1
      BY <1>1
    <3> HIDE DEF at
    <3>3. Walk(t, <<>>, at, these, exact)
      BY <3>2, NoneIsText DEF Walk
    <3> QED BY <2>1, <3>1, <3>2, <3>3
  <2>2. CASE i # n + 1
    <3>0. i \in 1 .. n
      BY <1>1, <2>2
    <3> DEFINE k == GoesOnAt(t, i, these, exact)
               w == Written(t, i, these, exact)
               r == f[k]
               u == <<w>> \o r
    <3>1. /\ k \in i + 1 .. n + 1 /\ Onward(t, f, i, these, exact) = u
          /\ Hits(t, i, these, exact) # {} => w \in Hits(t, i, these, exact)
      BY <3>0, SweepGoesOn
    <3>2. \/ Hits(t, i, these, exact) = {} /\ w = t[i] /\ k = i + 1
          \/ w \in Hits(t, i, these, exact) /\ k = i + Len(names[w].value)
      BY <3>1 DEF Written, GoesOnAt
    <3> HIDE DEF w, k, S
    <3>3. PICK b : Walk(t, r, b, these, exact) /\ b[1] = k
      BY <1>4, <3>1 DEF S
    <3>4. f[i] = u
      BY <1>3, <3>1
    <3> DEFINE m == Len(r)
               at == [j \in 1 .. m + 2 |-> IF j = 1 THEN i ELSE b[j - 1]]
    <3>5. IsText(r) /\ m \in Nat /\ b \in [1 .. m + 1 -> 1 .. n + 1] /\ b[m + 1] = n + 1
      BY <3>3, TextIs DEF Walk
    <3> HIDE DEF r
    <3>6. IsText(u) /\ Len(u) = m + 1 /\ u[1] = w /\ \A j \in 1 .. m : u[j + 1] = r[j]
      BY <3>5, PutBefore
    <3> HIDE DEF u, m
    <3>7. /\ at \in [1 .. m + 2 -> 1 .. n + 1] /\ at[1] = i
          /\ \A j \in 1 .. m + 1 : at[j + 1] = b[j]
      <4>1. \A j \in 1 .. m + 2 : j # 1 => j - 1 \in 1 .. m + 1
        BY <3>5
      <4>2. \A j \in 1 .. m + 1 : j + 1 \in 1 .. m + 2 /\ j + 1 # 1 /\ (j + 1) - 1 = j
        BY <3>5
      <4>3. 1 \in 1 .. m + 2
        BY <3>5
      <4>4. \A j \in 1 .. m + 2 : at[j] \in 1 .. n + 1
        BY <3>5, <4>1
      <4> QED BY <4>2, <4>3, <4>4
    <3> HIDE DEF at, n
    <3>8. \A j \in 1 .. m + 1 :
            /\ at[j] \in 1 .. n
            /\ \/ Hits(t, at[j], these, exact) = {} /\ u[j] = t[at[j]] /\ at[j + 1] = at[j] + 1
               \/ u[j] \in Hits(t, at[j], these, exact) /\ at[j + 1] = at[j] + Len(names[u[j]].value)
      <4> TAKE j \in 1 .. m + 1
      <4>1. CASE j = 1
        <5>1. at[1] = i /\ at[1 + 1] = k /\ u[1] = w
          BY <3>3, <3>5, <3>6, <3>7
        <5> QED BY <3>0, <3>2, <4>1, <5>1
      <4>2. CASE j # 1
        <5> DEFINE l == j - 1
        <5>1. l \in 1 .. m /\ j = l + 1 /\ l \in 1 .. m + 1 /\ j + 1 \in 1 .. m + 2 /\ l + 1 \in 1 .. m + 1
          BY <3>5, <4>2
        <5> HIDE DEF l
        <5>2. at[l + 1] = b[l] /\ at[l + 1 + 1] = b[l + 1] /\ u[l + 1] = r[l]
          BY <3>6, <3>7, <5>1
        <5>3. /\ b[l] \in 1 .. n
              /\ \/ Hits(t, b[l], these, exact) = {} /\ r[l] = t[b[l]] /\ b[l + 1] = b[l] + 1
                 \/ r[l] \in Hits(t, b[l], these, exact) /\ b[l + 1] = b[l] + Len(names[r[l]].value)
          BY <3>3, <5>1 DEF Walk, m, n
        <5> QED BY <5>1, <5>2, <5>3
      <4> QED BY <4>1, <4>2
    <3>9. Walk(t, u, at, these, exact)
      <4>1. m + 1 \in 1 .. m + 1 /\ (m + 1) + 1 = m + 2
        BY <3>5
      <4>2. at[m + 2] = n + 1
        BY <3>5, <3>7, <4>1
      <4> QED BY <3>6, <3>7, <3>8, <4>1, <4>2 DEF Walk, n
    <3> QED BY <3>4, <3>7, <3>9 DEF S
  <2> QED BY <2>1, <2>2
<1>5. 1 \in S
  <2>1. 1 \in 1 .. n + 1 /\ n + 1 \in Nat
    BY <1>1
  <2> HIDE DEF S, n
  <2> QED BY <1>4, <2>1, Backwards
<1> QED BY <1>2, <1>5

LEMMA SameWord ==
  ASSUME NEW u, NEW w, NEW i \in DOMAIN u, NEW j \in DOMAIN w, u[i] = w[j]
  PROVE  (WordAt(u, i) <=> WordAt(w, j)) /\ (AlnumAt(u, i) <=> AlnumAt(w, j))
BY DEF WordAt, DigitAt, LetterAt, AtomIn, AlnumAt

LEMMA NoWordBeyond == ASSUME NEW u, NEW i, i \notin DOMAIN u PROVE ~WordAt(u, i)
BY DEF WordAt, DigitAt, LetterAt, AtomIn

\* What joins words.
Joint == "_"

LEMMA OnlyJoint == \A a : Low(a) = Low(Joint) => a = Joint
BY LowerAssumption, Zenon DEF Low, Joint

LEMMA AlnumIsWord == \A u, i : AlnumAt(u, i) <=> WordAt(u, i) /\ u[i] # Joint
BY Zenon DEF AlnumAt, Joint

\* Beside a value that begins and ends in more than a joint of words, _, there
\* is no word.
LEMMA NothingBeside ==
  ASSUME NEW t, IsText(t), NEW i \in 1 .. Len(t), NEW v, IsText(v), Len(v) \in Nat \ {0}, v[1] # Joint, v[Len(v)] # Joint,
         NEW exact, StandsAt(t, i, v, exact)
  PROVE  (AlnumAt(t, i + Len(v)) => ~WordAt(t, i + Len(v) - 1)) /\ (AlnumAt(t, i - 1) => ~WordAt(t, i))
<1>0. Len(t) \in Nat /\ i \in Int
  <2>1. Len(t) \in Nat
    BY TextIs
  <2> QED BY <2>1
<1>1. /\ Guarded(t, i, i + Len(v) - 1)
      /\ \A k \in 1 .. Len(v) : Low(t[i + k - 1]) = Low(v[k])
  BY StandsIs
<1>2. PICK l \in Nat \ {0} : l = Len(v)
  OBVIOUS
<1>3. (i + l - 1) + 1 = i + l /\ (i - 1) + 1 = i /\ i + 1 - 1 = i /\ 1 \in 1 .. l /\ l \in 1 .. l
  BY <1>0
<1>4. Low(t[i]) = Low(v[1]) /\ Low(t[i + l - 1]) = Low(v[l])
  BY <1>1, <1>2, <1>3
<1>5. t[i] # Joint /\ t[i + l - 1] # Joint
  BY <1>2, <1>4, OnlyJoint
<1>6. (AlnumAt(t, i) => ~WordAt(t, i - 1)) /\ (AlnumAt(t, i + l - 1) => ~WordAt(t, i + l))
  BY <1>1, <1>2, <1>3 DEF Guarded
<1>7. (AlnumAt(t, i + l) => ~WordAt(t, i + l - 1)) /\ (AlnumAt(t, i - 1) => ~WordAt(t, i))
  BY <1>5, <1>6, AlnumIsWord
<1> QED BY <1>2, <1>7

\* No value of a map begins or ends in a joint of words.
Edged(m) == \A p \in DOMAIN m : m[p].value[1] # Joint /\ m[p].value[Len(m[p].value)] # Joint

\* What an atom of a redacted text stands for, the places x + 1 .. y of the
\* text: a placeholder for its value, in either case but at the places that are
\* kept, between two seams; any other atom for itself, at a place that is
\* neither kept nor hidden.
StandsFor(a, m, t, kept, hid, seams, x, y) ==
  /\ x \in Nat /\ y \in Nat /\ y <= Len(t)
  /\ IF a \in DOMAIN m
     THEN /\ y = x + Len(m[a].value)
          /\ \A k \in 1 .. Len(m[a].value) : /\ Low(m[a].value[k]) = Low(t[x + k])
                                             /\ x + k \in kept => m[a].value[k] = t[x + k]
          /\ x \in seams /\ y \in seams
     ELSE y = x + 1 /\ a = t[y] /\ y \notin kept /\ y \notin hid

\* Where a text may be cut in two: where no word is, if no value that is sought
\* begins or ends in a joint of words, or else anywhere.
InWord(t, x) == WordAt(t, x) /\ WordAt(t, x + 1)
Sewn(seams, t, m) ==
  /\ \A x \in 0 .. Len(t) : ~InWord(t, x) => x \in seams
  /\ \/ \A x \in 0 .. Len(t) : x \in seams
     \/ Edged(m) /\ \A x \in seams : ~InWord(t, x)

\* The atoms of u stand for the first y places of the text, one after the other.
CutAt(u, m, t, kept, hid, seams, cut) ==
  /\ cut \in [0 .. Len(u) -> Nat] /\ cut[0] = 0
  /\ \A i \in 1 .. Len(u) : StandsFor(u[i], m, t, kept, hid, seams, cut[i - 1], cut[i])
Spells(u, m, t, kept, hid, seams, y) == IsText(u) /\ \E cut : CutAt(u, m, t, kept, hid, seams, cut) /\ cut[Len(u)] = y

\* No placeholder stands where a value does.
LEMMA NoPlaceholderThere ==
  ASSUME NEW m, NEW t, Maps(m, t), NEW v, (\A k \in 1 .. Len(v) : v[k] \in ToSet(t)), IsText(v), Len(v) \in Nat \ {0},
         NEW u, IsText(u), NEW i \in 1 .. Len(u), NEW exact, StandsAt(u, i, v, exact)
  PROVE  \A k \in 1 .. Len(v) : i + k - 1 \in 1 .. Len(u) /\ u[i + k - 1] \notin DOMAIN m
<1> TAKE k \in 1 .. Len(v)
<1>1. i + k - 1 \in 1 .. Len(u) /\ Low(u[i + k - 1]) = Low(v[k])
  BY StandsIs
<1>2. v[k] \in ToSet(t)
  OBVIOUS
<1>3. ASSUME u[i + k - 1] \in DOMAIN m PROVE FALSE
  <2> DEFINE q == u[i + k - 1]
  <2>1. Foreign(q, t)
    BY <1>3 DEF Maps
  <2>2. Low(q) = q
    BY <2>1 DEF Foreign, Low
  <2> QED BY <1>1, <1>2, <2>1, <2>2 DEF Foreign
<1> QED BY <1>1, <1>3

\* Where a value stands, a word neither begins before it nor goes on after it, so
\* that the text may be cut on both sides.
LEMMA SeamsThere ==
  ASSUME NEW m, NEW t, IsText(t), NEW kept, NEW hid, NEW seams, Sewn(seams, t, m),
         NEW u, IsText(u), Len(u) \in Nat, NEW cut, CutAt(u, m, t, kept, hid, seams, cut), cut[Len(u)] = Len(t),
         NEW i \in 1 .. Len(u), NEW j \in i .. Len(u), u[i] \notin DOMAIN m, u[j] \notin DOMAIN m,
         Edged(m) => (WordAt(u, i) => ~WordAt(u, i - 1)) /\ (WordAt(u, j) => ~WordAt(u, j + 1))
  PROVE  cut[i - 1] \in seams /\ cut[j] \in seams
<1> DEFINE n == Len(u)
           c == cut[i - 1]
           d == cut[j]
<1>1. n \in Nat /\ Len(t) \in Nat /\ DOMAIN t = 1 .. Len(t) /\ DOMAIN u = 1 .. n
  BY TextIs
<1>2. i \in Int /\ j \in Int /\ 1 <= i /\ i <= j /\ j <= n /\ i \in 1 .. n /\ j \in 1 .. n
  BY <1>1
<1>3. cut \in [0 .. n -> Nat] /\ cut[0] = 0 /\ cut[n] = Len(t)
  BY DEF CutAt
<1>4. ASSUME NEW k \in 1 .. n
      PROVE  /\ cut[k - 1] \in Nat /\ cut[k] \in Nat /\ cut[k] <= Len(t)
             /\ u[k] \in DOMAIN m => cut[k - 1] \in seams /\ cut[k] \in seams
             /\ u[k] \notin DOMAIN m => cut[k] = cut[k - 1] + 1 /\ u[k] = t[cut[k]]
  BY <1>4 DEF CutAt, StandsFor
<1> HIDE DEF n, c, d
<1>5. c \in 0 .. Len(t) /\ d \in 0 .. Len(t) /\ c + 1 = cut[i] /\ u[i] = t[c + 1] /\ u[j] = t[d] /\ c + 1 \in 1 .. Len(t) /\ d \in 1 .. Len(t)
  <2>1. c \in Nat /\ cut[i] \in Nat /\ cut[i] <= Len(t) /\ cut[i] = c + 1 /\ u[i] = t[cut[i]]
    BY <1>2, <1>4 DEF c
  <2>2. d \in Nat /\ d <= Len(t) /\ cut[j - 1] \in Nat /\ d = cut[j - 1] + 1 /\ u[j] = t[d]
    BY <1>2, <1>4 DEF d
  <2> QED BY <1>1, <2>1, <2>2
<1>6. CASE \A x \in 0 .. Len(t) : x \in seams
  BY <1>5, <1>6 DEF c, d
<1>7. CASE Edged(m) /\ \A x \in seams : ~InWord(t, x)
  <2>2. (WordAt(u, i) => ~WordAt(u, i - 1)) /\ (WordAt(u, j) => ~WordAt(u, j + 1))
    BY <1>7
  <2>3. (WordAt(u, i) <=> WordAt(t, c + 1)) /\ (WordAt(u, j) <=> WordAt(t, d))
    BY <1>1, <1>2, <1>5, SameWord
  <2>4. ~InWord(t, c)
    <3>1. CASE i = 1
      <4>1. c = 0 /\ 0 \notin DOMAIN t
        BY <1>1, <1>3, <3>1 DEF c
      <4> QED BY <4>1, NoWordBeyond DEF InWord
    <3>2. CASE i # 1
      <4> DEFINE k == i - 1
      <4>1. k \in 1 .. n
        BY <1>1, <1>2, <3>2
      <4> HIDE DEF k
      <4>2. c = cut[k]
        BY DEF c, k
      <4>3. CASE u[k] \in DOMAIN m
        BY <1>4, <1>7, <4>1, <4>2, <4>3
      <4>4. CASE u[k] \notin DOMAIN m
        <5>1. u[k] = t[c] /\ c \in 1 .. Len(t)
          <6>1. c \in Nat /\ c <= Len(t) /\ cut[k - 1] \in Nat /\ c = cut[k - 1] + 1 /\ u[k] = t[c]
            BY <1>4, <4>1, <4>2, <4>4
          <6> QED BY <1>1, <6>1
        <5>2. WordAt(u, k) <=> WordAt(t, c)
          BY <1>1, <4>1, <5>1, SameWord
        <5> QED BY <2>2, <2>3, <5>2 DEF InWord, k
      <4> QED BY <4>3, <4>4
    <3> QED BY <3>1, <3>2
  <2>5. ~InWord(t, d)
    <3>1. CASE j = n
      <4>1. d = Len(t) /\ d + 1 \notin DOMAIN t
        BY <1>1, <1>3, <3>1 DEF d
      <4> QED BY <4>1, NoWordBeyond DEF InWord
    <3>2. CASE j # n
      <4> DEFINE k == j + 1
      <4>1. k \in 1 .. n /\ k - 1 = j
        BY <1>1, <1>2, <3>2
      <4> HIDE DEF k
      <4>2. d = cut[k - 1]
        BY <4>1 DEF d
      <4>3. CASE u[k] \in DOMAIN m
        BY <1>4, <1>7, <4>1, <4>2, <4>3
      <4>4. CASE u[k] \notin DOMAIN m
        <5>1. u[k] = t[d + 1] /\ d + 1 \in 1 .. Len(t)
          <6>1. cut[k] \in Nat /\ cut[k] <= Len(t) /\ d \in Nat /\ cut[k] = d + 1 /\ u[k] = t[d + 1]
            BY <1>4, <4>1, <4>2, <4>4
          <6> QED BY <1>1, <6>1
        <5>2. WordAt(u, k) <=> WordAt(t, d + 1)
          BY <1>1, <4>1, <5>1, SameWord
        <5> QED BY <2>2, <2>3, <5>2 DEF InWord, k
      <4> QED BY <4>3, <4>4
    <3> QED BY <3>1, <3>2
  <2> QED BY <1>5, <2>4, <2>5 DEF Sewn, c, d
<1> QED BY <1>6, <1>7 DEF Sewn

\* Atoms that are no placeholders stand for as many in a row, none of them kept
\* or hidden.
PlainRun(u, m, i, l) == \A k \in 1 .. l : i + k - 1 \in 1 .. Len(u) /\ u[i + k - 1] \notin DOMAIN m
RunCut(t, kept, hid, u, cut, i, l) ==
  /\ cut[i - 1] \in Nat /\ \A k \in 0 .. l : cut[(i - 1) + k] = cut[i - 1] + k
  /\ \A k \in 1 .. l : /\ cut[i - 1] + k \in 1 .. Len(t) /\ u[i + k - 1] = t[cut[i - 1] + k]
                       /\ cut[i - 1] + k \notin kept /\ cut[i - 1] + k \notin hid

LEMMA RunStandsFor ==
  ASSUME NEW m, NEW t, IsText(t), NEW kept, NEW hid, NEW seams, NEW u, NEW n \in Nat, n = Len(u),
         NEW cut, CutAt(u, m, t, kept, hid, seams, cut), NEW i \in 1 .. n, NEW l \in Nat, PlainRun(u, m, i, l)
  PROVE  RunCut(t, kept, hid, u, cut, i, l)
<1> DEFINE c == cut[i - 1]
<1>8. \A k \in 1 .. l : i + k - 1 \in 1 .. n /\ u[i + k - 1] \notin DOMAIN m
  BY DEF PlainRun
<1>1. cut \in [0 .. n -> Nat] /\ Len(t) \in Nat
  BY TextIs DEF CutAt
<1>2. \A j \in 1 .. n : u[j] \notin DOMAIN m =>
         /\ cut[j - 1] \in Nat /\ cut[j] = cut[j - 1] + 1 /\ cut[j] \in Nat /\ cut[j] <= Len(t)
         /\ u[j] = t[cut[j]] /\ cut[j] \notin kept /\ cut[j] \notin hid
  BY DEF CutAt, StandsFor
<1>3. c \in Nat
  <2>1. i - 1 \in 0 .. n
    OBVIOUS
  <2> QED BY <1>1, <2>1
<1> HIDE DEF c
<1> DEFINE G == {k \in Nat : k <= l => cut[(i - 1) + k] = c + k}
<1>4. 0 \in G
  <2>1. (i - 1) + 0 = i - 1
    OBVIOUS
  <2> QED BY <1>3, <2>1 DEF c
<1>5. ASSUME NEW k \in Nat, k \in G PROVE k + 1 \in G
  <2> SUFFICES ASSUME k + 1 <= l PROVE cut[(i - 1) + (k + 1)] = c + (k + 1)
    OBVIOUS
  <2> DEFINE j == i + (k + 1) - 1
  <2>1. k + 1 \in 1 .. l /\ j = (i - 1) + (k + 1) /\ j - 1 = (i - 1) + k /\ k <= l
    OBVIOUS
  <2>2. j \in 1 .. n /\ u[j] \notin DOMAIN m
    BY <1>8, <2>1
  <2> HIDE DEF j
  <2>3. cut[j] = cut[j - 1] + 1 /\ cut[j - 1] = c + k
    BY <1>2, <1>5, <2>1, <2>2
  <2> QED BY <1>3, <2>1, <2>3
<1>6. \A k \in 0 .. l : cut[(i - 1) + k] = c + k
  <2>1. \A k \in Nat : k \in G
    <3> HIDE DEF G
    <3> QED BY <1>4, <1>5, AllNumbers
  <2> QED BY <2>1
<1>7. ASSUME NEW k \in 1 .. l
      PROVE  c + k \in 1 .. Len(t) /\ u[i + k - 1] = t[c + k] /\ c + k \notin kept /\ c + k \notin hid
  <2> DEFINE j == i + k - 1
  <2>1. j = (i - 1) + k /\ k \in 0 .. l
    OBVIOUS
  <2>2. j \in 1 .. n /\ u[j] \notin DOMAIN m
    BY <1>8
  <2> HIDE DEF j
  <2>3. cut[j] = c + k
    BY <1>6, <2>1
  <2>4. cut[j] <= Len(t) /\ u[j] = t[cut[j]] /\ cut[j] \notin kept /\ cut[j] \notin hid
    BY <1>2, <2>2
  <2>5. c + k \in 1 .. Len(t)
    BY <1>1, <1>3, <2>3, <2>4
  <2> QED BY <2>3, <2>4, <2>5 DEF j
<1> QED BY <1>3, <1>6, <1>7 DEF RunCut, c

\* A value that stands somewhere is one the atoms there stand for.
LEMMA HitStandsFor ==
  ASSUME NEW m, NEW t, IsText(t), Maps(m, t), NEW kept, NEW hid, NEW seams, NEW u, IsText(u), NEW cut, CutAt(u, m, t, kept, hid, seams, cut),
         Sewn(seams, t, m), cut[Len(u)] = Len(t),
         NEW i \in 1 .. Len(u), NEW p \in DOMAIN m, NEW exact, StandsAt(u, i, m[p].value, exact)
  PROVE  StandsFor(p, m, t, kept, hid, seams, cut[i - 1], cut[i + Len(m[p].value) - 1])
<1> DEFINE v == m[p].value
           l == Len(v)
           c == cut[i - 1]
           n == Len(u)
<1>1. IsText(v) /\ l \in Nat \ {0} /\ \A k \in 1 .. l : v[k] \in ToSet(t)
  BY DEF Maps
<1>2. n \in Nat /\ i \in 1 .. n /\ cut \in [0 .. n -> Nat]
  BY TextIs DEF CutAt
<1>0. StandsAt(u, i, v, exact) /\ n = Len(u) /\ l = Len(v)
  OBVIOUS
<1> HIDE DEF v, l, n
<1>3. /\ i + l - 1 \in i .. n
      /\ \A k \in 1 .. l : i + k - 1 \in 1 .. n /\ Low(u[i + k - 1]) = Low(v[k])
  <2>1. i \in 1 .. Len(u) /\ IsText(v) /\ Len(v) \in Nat \ {0}
    BY <1>0, <1>1, <1>2
  <2>2. i + Len(v) - 1 \in i .. Len(u) /\ \A k \in 1 .. Len(v) : Low(u[i + k - 1]) = Low(v[k])
    BY <1>0, <2>1, StandsIs
  <2>3. i + l - 1 \in i .. n /\ \A k \in 1 .. l : Low(u[i + k - 1]) = Low(v[k])
    BY <1>0, <2>2
  <2>4. \A k \in 1 .. l : i + k - 1 \in 1 .. n
    BY <1>1, <1>2, <2>3
  <2> QED BY <2>3, <2>4
<1>4. \A k \in 1 .. l : u[i + k - 1] \notin DOMAIN m
  BY <1>0, <1>1, <1>2, NoPlaceholderThere
<1>5. /\ c \in Nat /\ \A k \in 0 .. l : cut[(i - 1) + k] = c + k
      /\ \A k \in 1 .. l : c + k \in 1 .. Len(t) /\ u[i + k - 1] = t[c + k] /\ c + k \notin kept
  <2>1. PlainRun(u, m, i, l)
    BY <1>0, <1>3, <1>4 DEF PlainRun
  <2>2. n = Len(u) /\ n \in Nat /\ i \in 1 .. n /\ l \in Nat
    BY <1>0, <1>1, <1>2
  <2>3. RunCut(t, kept, hid, u, cut, i, l)
    BY <2>1, <2>2, RunStandsFor
  <2> QED BY <2>3 DEF RunCut, c
<1> HIDE DEF c
<1>6. c \in Nat
  BY <1>5
<1>9. \A k \in 0 .. l : cut[(i - 1) + k] = c + k
  BY <1>5
<1>10. \A k \in 1 .. l : c + k <= Len(t) /\ Low(v[k]) = Low(t[c + k]) /\ c + k \notin kept
  <2> TAKE k \in 1 .. l
  <2>1. Low(u[i + k - 1]) = Low(v[k]) /\ c + k \in 1 .. Len(t) /\ u[i + k - 1] = t[c + k] /\ c + k \notin kept
    BY <1>3, <1>5
  <2> QED BY <2>1
<1>11. cut[i + l - 1] = c + l /\ c + l <= Len(t)
  <2>1. l \in 0 .. l /\ l \in 1 .. l /\ (i - 1) + l = i + l - 1
    BY <1>1, <1>2
  <2> QED BY <1>9, <1>10, <2>1
<1>12. c + l \in Nat
  BY <1>1, <1>6
<1> DEFINE d == cut[i + l - 1]
<1>13. d = c + l
  BY <1>11
<1> HIDE DEF d
<1>15. c \in seams /\ d \in seams
  <2>1. Guarded(u, i, i + l - 1)
    BY <1>0, <1>1, <1>2, StandsIs
  <2>2. Len(u) \in Nat \ {0} /\ i \in 1 .. Len(u) /\ i + l - 1 \in i .. Len(u)
    BY <1>2, <1>3 DEF n
  <2>3. u[i] \notin DOMAIN m /\ u[i + l - 1] \notin DOMAIN m /\ Low(u[i]) = Low(v[1]) /\ Low(u[i + l - 1]) = Low(v[l])
    <3>1. 1 \in 1 .. l /\ l \in 1 .. l /\ i + 1 - 1 = i
      BY <1>1, <1>2
    <3> QED BY <1>3, <1>4, <3>1
  <2>4. Edged(m) => v[1] # Joint /\ v[l] # Joint
    BY DEF Edged, v, l
  <2>5. Edged(m) => u[i] # Joint /\ u[i + l - 1] # Joint
    BY <2>3, <2>4, OnlyJoint
  <2>6. Edged(m) => /\ WordAt(u, i) => ~WordAt(u, i - 1)
                    /\ WordAt(u, i + l - 1) => ~WordAt(u, i + l - 1 + 1)
    BY <2>1, <2>5, AlnumIsWord DEF Guarded
  <2>7. PICK j \in i .. Len(u) : j = i + l - 1
    BY <2>2
  <2>8. c = cut[i - 1] /\ d = cut[j]
    BY <2>7 DEF c, d
  <2> QED BY <2>2, <2>3, <2>6, <2>7, <2>8, SeamsThere
<1>14. StandsFor(p, m, t, kept, hid, seams, c, d)
  BY <1>6, <1>10, <1>11, <1>12, <1>13, <1>15 DEF StandsFor, v, l
<1> QED BY <1>14 DEF c, d, l, v

\* A sweep leaves what the atoms stand for.
LEMMA SweepSpells ==
  ASSUME NEW t, IsText(t), Maps(names, t), NEW kept, NEW hid, NEW seams, NEW these \in SUBSET DOMAIN names, NEW exact,
         Sewn(seams, t, names), NEW u, NEW y, y = Len(t), Spells(u, names, t, kept, hid, seams, y)
  PROVE  Spells(Sweep(u, these, exact), names, t, kept, hid, seams, y)
<1> DEFINE z == Sweep(u, these, exact)
           n == Len(u)
           l == Len(z)
<1>1. IsText(u) /\ n \in Nat
  BY TextIs DEF Spells
<1>2. PICK cut : CutAt(u, names, t, kept, hid, seams, cut) /\ cut[n] = y
  BY DEF Spells
<1>3. PICK at : Walk(u, z, at, these, exact) /\ at[1] = 1
  BY <1>1, SweepWalks
<1>4. /\ IsText(z) /\ at \in [1 .. l + 1 -> 1 .. n + 1] /\ at[l + 1] = n + 1
      /\ \A k \in 1 .. l :
           /\ at[k] \in 1 .. n
           /\ \/ z[k] = u[at[k]] /\ at[k + 1] = at[k] + 1
              \/ z[k] \in Hits(u, at[k], these, exact) /\ at[k + 1] = at[k] + Len(names[z[k]].value)
  BY <1>3 DEF Walk
<1> HIDE DEF z
<1>5. l \in Nat
  BY <1>4, TextIs
<1>6. /\ cut \in [0 .. n -> Nat] /\ cut[0] = 0
      /\ \A i \in 1 .. n : StandsFor(u[i], names, t, kept, hid, seams, cut[i - 1], cut[i])
  BY <1>2 DEF CutAt
<1> DEFINE new == [k \in 0 .. l |-> cut[at[k + 1] - 1]]
<1> HIDE DEF n, l
<1>7. \A k \in 0 .. l : k + 1 \in 1 .. l + 1 /\ at[k + 1] - 1 \in 0 .. n
  <2> TAKE k \in 0 .. l
  <2>1. k + 1 \in 1 .. l + 1
    BY <1>5
  <2>2. at[k + 1] \in 1 .. n + 1
    BY <1>4, <2>1
  <2> QED BY <1>1, <2>1, <2>2
<1>8. new \in [0 .. l -> Nat] /\ \A k \in 0 .. l : new[k] = cut[at[k + 1] - 1]
  BY <1>6, <1>7
<1> HIDE DEF new
<1>9. new[0] = 0 /\ new[l] = y
  <2>1. 0 \in 0 .. l /\ l \in 0 .. l /\ 0 + 1 = 1 /\ 1 - 1 = 0 /\ (n + 1) - 1 = n
    BY <1>1, <1>5
  <2> QED BY <1>2, <1>3, <1>4, <1>6, <1>8, <2>1 DEF n
<1>10. ASSUME NEW k \in 1 .. l PROVE StandsFor(z[k], names, t, kept, hid, seams, new[k - 1], new[k])
  <2> DEFINE i == at[k]
  <2>1. k - 1 \in 0 .. l /\ k \in 0 .. l /\ (k - 1) + 1 = k
    BY <1>5
  <2>2. new[k - 1] = cut[i - 1] /\ new[k] = cut[at[k + 1] - 1] /\ i \in 1 .. n /\ i \in Int
    BY <1>4, <1>8, <2>1
  <2>3. CASE z[k] = u[i] /\ at[k + 1] = i + 1
    <3>1. at[k + 1] - 1 = i
      BY <2>2, <2>3
    <3> QED BY <1>6, <2>2, <2>3, <3>1
  <2>4. CASE z[k] \in Hits(u, i, these, exact) /\ at[k + 1] = i + Len(names[z[k]].value)
    <3> DEFINE p == z[k]
    <3>1. p \in DOMAIN names /\ StandsAt(u, i, names[p].value, exact)
      BY <2>4 DEF Hits
    <3> HIDE DEF i, p
    <3>2. StandsFor(p, names, t, kept, hid, seams, cut[i - 1], cut[i + Len(names[p].value) - 1])
      <4>1. CutAt(u, names, t, kept, hid, seams, cut) /\ cut[Len(u)] = Len(t) /\ i \in 1 .. Len(u)
        BY <1>2, <2>2 DEF n
      <4> QED BY <1>1, <3>1, <4>1, HitStandsFor
    <3>3. new[k] = cut[i + Len(names[p].value) - 1]
      BY <2>2, <2>4 DEF p
    <3> QED BY <2>2, <3>2, <3>3 DEF p
  <2> QED BY <1>4, <2>3, <2>4
<1>11. CutAt(z, names, t, kept, hid, seams, new)
  BY <1>8, <1>9, <1>10 DEF CutAt, l
<1>12. Spells(z, names, t, kept, hid, seams, y)
  BY <1>4, <1>9, <1>11 DEF Spells, l
<1> QED BY <1>12 DEF z

\* The places x + 1 .. y of a text, in either case but at the places kept.
Restores(v, t, kept, x, y) ==
  /\ IsText(v) /\ x \in Nat /\ y \in Nat /\ x <= y /\ y <= Len(t) /\ Len(v) = y - x
  /\ \A j \in 1 .. y - x : Low(v[j]) = Low(t[x + j]) /\ (x + j \in kept => v[j] = t[x + j])

LEMMA RestoresGlued ==
  ASSUME NEW t, NEW kept, NEW x, NEW y, NEW z, NEW u, NEW v, Restores(u, t, kept, x, y), Restores(v, t, kept, y, z)
  PROVE  Restores(u \o v, t, kept, x, z)
<1> DEFINE w == u \o v
           m == Len(u)
           n == Len(v)
<1>1. /\ IsText(u) /\ x \in Nat /\ y \in Nat /\ x <= y /\ m = y - x
      /\ \A j \in 1 .. y - x : Low(u[j]) = Low(t[x + j]) /\ (x + j \in kept => u[j] = t[x + j])
  BY DEF Restores
<1>2. /\ IsText(v) /\ z \in Nat /\ y <= z /\ z <= Len(t) /\ n = z - y
      /\ \A j \in 1 .. z - y : Low(v[j]) = Low(t[y + j]) /\ (y + j \in kept => v[j] = t[y + j])
  BY DEF Restores
<1>3. IsText(w) /\ Len(w) = m + n /\ \A i \in 1 .. m : w[i] = u[i]
  BY <1>1, <1>2, TextsJoined
<1>4. \A i \in 1 .. n : w[m + i] = v[i]
  <2> TAKE i \in 1 .. n
  <2> QED BY <1>1, <1>2, TextsJoined
<1> HIDE DEF w, m, n
<1>5. ASSUME NEW j \in 1 .. z - x PROVE Low(w[j]) = Low(t[x + j]) /\ (x + j \in kept => w[j] = t[x + j])
  <2>1. CASE j <= m
    <3>1. j \in 1 .. m /\ j \in 1 .. y - x
      BY <1>1, <2>1
    <3> QED BY <1>1, <1>3, <3>1
  <2>2. CASE ~(j <= m)
    <3> DEFINE i == j - m
    <3>1. i \in 1 .. n /\ i \in 1 .. z - y /\ m + i = j /\ y + i = x + j
      BY <1>1, <1>2, <2>2
    <3> HIDE DEF i
    <3>2. w[m + i] = v[i]
      BY <1>4, <3>1
    <3> QED BY <1>2, <3>1, <3>2
  <2> QED BY <2>1, <2>2
<1>6. Len(w) = z - x /\ x <= z
  BY <1>1, <1>2, <1>3
<1>7. Restores(w, t, kept, x, z)
  BY <1>1, <1>2, <1>3, <1>5, <1>6 DEF Restores
<1> QED BY <1>7 DEF w

\* Atoms that stand for a text are restored to it.
LEMMA SpellsRestored ==
  ASSUME NEW t, IsText(t), NEW m, Maps(m, t), NEW kept, NEW hid, NEW seams, NEW u, Spells(u, m, t, kept, hid, seams, Len(t))
  PROVE  Restores(Rehydrated(u, m), t, kept, 0, Len(t))
<1> DEFINE n == Len(u)
           s == [i \in DOMAIN u |-> IF u[i] \in DOMAIN m THEN m[u[i]].value ELSE <<u[i]>>]
<1>1. IsText(u) /\ n \in Nat /\ DOMAIN u = 1 .. n /\ Len(t) \in Nat
  BY TextIs DEF Spells
<1>2. PICK cut : CutAt(u, m, t, kept, hid, seams, cut) /\ cut[n] = Len(t)
  BY DEF Spells
<1>3. Rehydrated(u, m) = FlattenSeq(s) /\ Len(s) = n
  BY <1>1 DEF Rehydrated
<1>4. ASSUME NEW i \in 1 .. n PROVE Restores(s[i], t, kept, cut[i - 1], cut[i])
  <2> DEFINE a == u[i]
             x == cut[i - 1]
             y == cut[i]
  <2>1. s[i] = (IF a \in DOMAIN m THEN m[a].value ELSE <<a>>) /\ StandsFor(a, m, t, kept, hid, seams, x, y)
    BY <1>1, <1>2 DEF CutAt
  <2> HIDE DEF s, a, x, y
  <2>2. CASE a \in DOMAIN m
    <3> DEFINE v == m[a].value
    <3>1. IsText(v) /\ Len(v) \in Nat \ {0}
      BY <2>2 DEF Maps
    <3>2. /\ x \in Nat /\ y \in Nat /\ y <= Len(t) /\ y = x + Len(v)
          /\ \A k \in 1 .. Len(v) : Low(v[k]) = Low(t[x + k]) /\ (x + k \in kept => v[k] = t[x + k])
      BY <2>1, <2>2 DEF StandsFor
    <3>3. s[i] = v
      BY <2>1, <2>2
    <3> HIDE DEF v
    <3>4. x <= y /\ Len(v) = y - x
      BY <3>1, <3>2
    <3>5. \A k \in 1 .. y - x : Low(v[k]) = Low(t[x + k]) /\ (x + k \in kept => v[k] = t[x + k])
      BY <3>2, <3>4
    <3>6. Restores(v, t, kept, x, y)
      BY <3>1, <3>2, <3>4, <3>5 DEF Restores
    <3> QED BY <3>3, <3>6 DEF x, y
  <2>3. CASE a \notin DOMAIN m
    <3> DEFINE v == <<a>>
    <3>1. x \in Nat /\ y \in Nat /\ y <= Len(t) /\ y = x + 1 /\ a = t[y]
      BY <2>1, <2>3 DEF StandsFor
    <3>2. IsText(v) /\ Len(v) = 1 /\ v[1] = a /\ s[i] = v
      BY <2>1, <2>3, OneIsText
    <3> HIDE DEF v
    <3>3. x <= y /\ y - x = 1 /\ \A k \in 1 .. y - x : k = 1 /\ x + k = y
      BY <3>1
    <3>4. Restores(v, t, kept, x, y)
      BY <3>1, <3>2, <3>3 DEF Restores
    <3> QED BY <3>2, <3>4 DEF x, y
  <2> QED BY <2>2, <2>3
<1>5. cut[0] = 0
  BY <1>2 DEF CutAt
<1> HIDE DEF s
<1>6. CASE n = 0
  <2>1. FlattenSeq(s) = s
    BY <1>3, <1>6 DEF FlattenSeq
  <2>2. Len(t) = 0
    BY <1>2, <1>5, <1>6
  <2>3. s = <<>>
    BY <1>1, <1>6 DEF s
  <2>4. Restores(<<>>, t, kept, 0, 0)
    BY <2>2, NoneIsText DEF Restores
  <2> QED BY <1>3, <2>1, <2>2, <2>3, <2>4
<1>7. CASE n # 0
  <2>1. PICK f : /\ \A i \in 1 .. n : f[i] = IF i = 1 THEN s[i] ELSE f[i - 1] \o s[i]
                 /\ FlattenSeq(s) = f[n]
    BY <1>1, <1>3, <1>7, FlattenExists
  <2> DEFINE G == {k \in Nat : k + 1 <= n => Restores(f[k + 1], t, kept, 0, cut[k + 1])}
  <2> HIDE DEF n
  <2>2. 0 \in G
    <3>1. 1 \in 1 .. n /\ 0 + 1 = 1 /\ 1 - 1 = 0
      BY <1>1, <1>7
    <3>2. Restores(s[1], t, kept, cut[0], cut[1]) /\ f[1] = s[1]
      BY <1>4, <2>1, <3>1
    <3> QED BY <1>5, <3>1, <3>2
  <2>3. ASSUME NEW k \in Nat, k \in G PROVE k + 1 \in G
    <3> SUFFICES ASSUME k + 1 + 1 <= n PROVE Restores(f[k + 1 + 1], t, kept, 0, cut[k + 1 + 1])
      OBVIOUS
    <3> DEFINE i == k + 1 + 1
    <3>1. i \in 1 .. n /\ i # 1 /\ i - 1 = k + 1 /\ k + 1 <= n
      BY <1>1
    <3> HIDE DEF i
    <3>2. Restores(f[k + 1], t, kept, 0, cut[k + 1]) /\ Restores(s[i], t, kept, cut[k + 1], cut[i])
      BY <1>4, <2>3, <3>1
    <3>3. f[i] = f[k + 1] \o s[i]
      BY <2>1, <3>1
    <3>4. Restores(f[k + 1] \o s[i], t, kept, 0, cut[i])
      BY <3>2, RestoresGlued
    <3> QED BY <3>3, <3>4 DEF i
  <2>4. \A k \in Nat : k \in G
    <3> HIDE DEF G
    <3> QED BY <2>2, <2>3, AllNumbers
  <2>5. n - 1 \in Nat /\ (n - 1) + 1 = n
    BY <1>1, <1>7
  <2>6. n - 1 \in G
    BY <2>4, <2>5
  <2>7. Restores(f[n], t, kept, 0, Len(t))
    BY <1>2, <2>5, <2>6
  <2> QED BY <1>3, <2>1, <2>7
<1> QED BY <1>6, <1>7

-----------------------------------------------------------------------------
(* The placeholders of a text *)

\* A text and the spans that were found in it.
Masking ==
  /\ asked.text \in Texts /\ IsText(asked.text)
  /\ spans \in SUBSET SpansOf(Len(asked.text)) /\ Disjoint(spans)

LEMMA MaskedSpan ==
  ASSUME Masking, NEW s \in spans
  PROVE  /\ Len(asked.text) \in Nat /\ s.from \in 1 .. Len(asked.text) /\ s.to \in s.from .. Len(asked.text)
         /\ s.from \in Int /\ s.to \in Int /\ s.from <= s.to /\ s.label \in Labels
         /\ IsText(ValueOf(s)) /\ Len(ValueOf(s)) = s.to + 1 - s.from /\ Len(ValueOf(s)) \in Nat \ {0}
         /\ \A k \in 1 .. s.to + 1 - s.from : ValueOf(s)[k] = asked.text[s.from + k - 1] /\ s.from + k - 1 \in 1 .. Len(asked.text)
         /\ \A k \in 1 .. s.to + 1 - s.from : ValueOf(s)[k] \in ToSet(asked.text)
<1> DEFINE t == asked.text
           n == Len(t)
           a == s.from
           b == s.to
           v == SubSeq(t, a, b)
<1>1. IsText(t) /\ n \in Nat /\ DOMAIN t = 1 .. n
  BY TextIs DEF Masking
<1>2. a \in 1 .. n /\ b \in a .. n /\ s.label \in Labels
  <2>1. s \in SpansOf(n)
    BY DEF Masking
  <2> QED BY <1>1, <2>1, SpansOfIs
<1> HIDE DEF t, a, b
<1>3. IsText(v) /\ Len(v) = b + 1 - a /\ \A k \in 1 .. b + 1 - a : v[k] = t[k + a - 1]
  BY <1>1, <1>2, PartIs DEF n
<1> HIDE DEF n
<1>4. a \in Int /\ b \in Int /\ a <= b /\ b + 1 - a \in Nat \ {0}
      /\ \A k \in 1 .. b + 1 - a : k + a - 1 = a + k - 1 /\ a + k - 1 \in 1 .. n
  BY <1>1, <1>2
<1> HIDE DEF v
<1>5. \A k \in 1 .. b + 1 - a : v[k] = t[a + k - 1] /\ v[k] \in ToSet(t)
  BY <1>1, <1>3, <1>4 DEF ToSet
<1>6. ValueOf(s) = v
  BY DEF ValueOf, v, t, a, b
<1> QED BY <1>1, <1>2, <1>3, <1>4, <1>5, <1>6 DEF n, t, a, b

\* Spans with the same value.
LEMMA SameIs ==
  /\ \A s : SameValue(s, s)
  /\ \A r, s : SameValue(r, s) => SameValue(s, r) /\ r.label = s.label
  /\ \A q, r, s : SameValue(q, r) /\ SameValue(r, s) => SameValue(q, s)
BY DEF SameValue

LEMMA SameMeans ==
  ASSUME Masking, NEW r \in spans, NEW s \in spans, SameValue(r, s)
  PROVE  /\ Len(ValueOf(r)) = Len(ValueOf(s))
         /\ \A k \in 1 .. Len(ValueOf(s)) : /\ Low(ValueOf(r)[k]) = Low(ValueOf(s)[k])
                                            /\ s.label \in CaseSensitive => ValueOf(r)[k] = ValueOf(s)[k]
<1>1. CASE s.label \in CaseSensitive
  <2>1. ValueOf(r) = ValueOf(s)
    BY <1>1 DEF SameValue
  <2> QED BY <2>1
<1>2. CASE s.label \notin CaseSensitive
  <2> DEFINE t == asked.text
             F(q) == Folded(t, q.from, q.to)
  <2>1. F(r) = F(s)
    BY <1>2 DEF SameValue
  <2>2. ASSUME NEW q \in spans
        PROVE  Len(F(q)) = Len(ValueOf(q)) /\ \A k \in 1 .. Len(ValueOf(q)) : F(q)[k] = Low(ValueOf(q)[k])
    <3> DEFINE a == q.from
               b == q.to
    <3>1. /\ IsText(t) /\ Len(t) \in Nat /\ a \in 1 .. Len(t) /\ b \in a .. Len(t) /\ Len(ValueOf(q)) = b + 1 - a
          /\ \A k \in 1 .. b + 1 - a : ValueOf(q)[k] = t[a + k - 1]
      BY MaskedSpan DEF Masking
    <3> HIDE DEF t, a, b
    <3>2. a \in 1 .. Len(t) + 1 /\ b \in a - 1 .. Len(t)
      BY <3>1
    <3>3. Len(Folded(t, a, b)) = b + 1 - a /\ \A k \in 1 .. b + 1 - a : Folded(t, a, b)[k] = Low(t[a + k - 1])
      BY <3>1, <3>2, FoldedLow
    <3> QED BY <3>1, <3>3 DEF a, b
  <2> HIDE DEF F
  <2>3. Len(ValueOf(r)) = Len(ValueOf(s))
    BY <2>1, <2>2
  <2> QED BY <1>2, <2>1, <2>2, <2>3
<1> QED BY <1>1, <1>2

\* Of the spans with a value one comes first.
LEMMA FirstIs ==
  ASSUME Masking, NEW s \in spans
  PROVE  \E r \in Firsts : SameValue(r, s) /\ \A q \in Firsts : SameValue(q, s) => q = r
<1> DEFINE Q == {q \in spans : SameValue(q, s)}
           T == {q.from : q \in Q}
<1>1. \A q \in spans : q.from \in Nat /\ q.to \in Nat /\ q.from <= q.to
  <2> TAKE q \in spans
  <2>1. Len(asked.text) \in Nat /\ q.from \in 1 .. Len(asked.text) /\ q.to \in q.from .. Len(asked.text)
    BY MaskedSpan
  <2> QED BY <2>1
<1>2. T \in SUBSET Nat /\ T # {}
  <2>1. s \in Q
    BY SameIs
  <2> QED BY <1>1, <2>1
<1>3. Min(T) \in T /\ \A y \in T : Min(T) <= y
  <2> HIDE DEF T
  <2> QED BY <1>2, MinIsLeast
<1>4. PICK r \in Q : Min(T) = r.from
  BY <1>3
<1>5. \A q \in spans : SameValue(q, s) => r.from <= q.from
  BY <1>3, <1>4
<1>6. r \in spans /\ SameValue(r, s)
  OBVIOUS
<1> HIDE DEF Q, T
<1>7. r \in Firsts
  <2>1. ASSUME NEW q \in spans, SameValue(q, r) PROVE r.from <= q.from
    BY <1>5, <1>6, <2>1, SameIs
  <2> QED BY <1>6, <2>1 DEF Firsts
<1>8. ASSUME NEW q \in Firsts, SameValue(q, s) PROVE q = r
  <2>1. q \in spans /\ \A p \in spans : SameValue(p, q) => q.from <= p.from
    BY <1>8 DEF Firsts
  <2>2. SameValue(r, q)
    BY <1>6, <1>8, SameIs
  <2>3. q.from <= r.from /\ r.from <= q.from
    BY <1>5, <1>6, <1>8, <2>1, <2>2
  <2>4. q = r \/ q.to < r.from \/ r.to < q.from
    BY <1>6, <2>1 DEF Masking, Disjoint
  <2> QED BY <1>1, <1>6, <2>1, <2>3, <2>4
<1> QED BY <1>6, <1>7, <1>8

\* The firsts of a label, in the order of the text.
Upto(f) == {r \in Firsts : r.label = f.label /\ r.from <= f.from}

LEMMA UptoIs ==
  ASSUME Masking, NEW f \in Firsts
  PROVE  IsFiniteSet(Upto(f)) /\ Cardinality(Upto(f)) \in 1 .. Len(asked.text)
<1> DEFINE U == Upto(f)
           n == Len(asked.text)
           inj == [r \in U |-> r.from]
<1>1. U \in SUBSET spans /\ n \in Nat /\ f \in U
  <2>1. Firsts \subseteq spans
    BY DEF Firsts
  <2>2. f.from <= f.from /\ n \in Nat
    BY <2>1, MaskedSpan
  <2> QED BY <2>1, <2>2 DEF Upto
<1>2. \A r \in spans : r.from \in 1 .. n /\ r.from <= r.to /\ r.from \in Int /\ r.to \in Int
  BY MaskedSpan
<1>3. \A r, s \in spans : r.from = s.from => r = s
  BY <1>2 DEF Masking, Disjoint
<1> HIDE DEF U, n
<1>4. inj \in Injection(U, 1 .. n)
  <2>1. inj \in [U -> 1 .. n] /\ \A r \in U : inj[r] = r.from
    BY <1>1, <1>2
  <2> HIDE DEF inj
  <2>2. \A r, s \in U : inj[r] = inj[s] => r = s
    BY <1>1, <1>3, <2>1
  <2> QED BY <2>1, <2>2 DEF Injection, IsInjective
<1>5. IsFiniteSet(1 .. n) /\ Cardinality(1 .. n) = n
  <2>1. IsFiniteSet(1 .. n) /\ Cardinality(1 .. n) = IF 1 > n THEN 0 ELSE n - 1 + 1
    BY <1>1, FS_Interval
  <2> QED BY <1>1, <2>1
<1> HIDE DEF inj
<1>6. IsFiniteSet(U) /\ Cardinality(U) <= n
  BY <1>4, <1>5, FS_Injection
<1>7. Cardinality(U) \in Nat /\ Cardinality(U) # 0
  BY <1>1, <1>6, FS_CardinalityType, FS_EmptySet
<1> QED BY <1>1, <1>6, <1>7 DEF U, n

LEMMA UptoDiffers ==
  ASSUME Masking, NEW f \in Firsts, NEW g \in Firsts, f.label = g.label, Cardinality(Upto(f)) = Cardinality(Upto(g))
  PROVE  f = g
<1>1. f \in spans /\ g \in spans
  BY DEF Firsts
<1>2. \A r \in spans : r.from \in Int /\ r.to \in Int /\ r.from <= r.to
  BY MaskedSpan
<1>3. \A r, s \in spans : r.from = s.from => r = s
  BY <1>2 DEF Masking, Disjoint
<1>4. ASSUME NEW r \in Firsts, NEW s \in Firsts, r.label = s.label, r.from <= s.from,
             Cardinality(Upto(r)) = Cardinality(Upto(s))
      PROVE  r.from = s.from
  <2>1. r \in spans /\ s \in spans /\ Firsts \subseteq spans
    BY DEF Firsts
  <2>2. Upto(r) \in SUBSET Upto(s)
    BY <1>2, <1>4, <2>1 DEF Upto
  <2>3. Upto(r) = Upto(s)
    BY <1>4, <2>2, UptoIs, FS_Subset
  <2>4. s \in Upto(s)
    BY <1>2, <2>1 DEF Upto
  <2>5. s.from <= r.from
    BY <2>3, <2>4 DEF Upto
  <2> QED BY <1>2, <1>4, <2>1, <2>5
<1>5. f.from <= g.from \/ g.from <= f.from
  BY <1>1, <1>2
<1>6. f.from = g.from
  BY <1>4, <1>5
<1> QED BY <1>1, <1>3, <1>6

LEMMA PlaceholdersDiffer ==
  ASSUME NEW l \in Labels, NEW k \in Labels, NEW i \in DOMAIN Placeholder[l], NEW j \in DOMAIN Placeholder[k],
         Placeholder[l][i] = Placeholder[k][j]
  PROVE  l = k /\ i = j
<1>1. \A l1, k1 \in Labels : \A i1 \in DOMAIN Placeholder[l1], j1 \in DOMAIN Placeholder[k1] :
         Placeholder[l1][i1] = Placeholder[k1][j1] => l1 = k1 /\ i1 = j1
  BY PlaceholderAssumption
<1>2. \A i1 \in DOMAIN Placeholder[l], j1 \in DOMAIN Placeholder[k] :
         Placeholder[l][i1] = Placeholder[k][j1] => l = k /\ i1 = j1
  BY <1>1
<1> QED BY <1>2

LEMMA PlaceholderIs ==
  ASSUME Masking, NEW s \in spans, NEW f \in Firsts, SameValue(f, s)
  PROVE  /\ PlaceholderOf(s) = Placeholder[f.label][Cardinality(Upto(f))]
         /\ f.label \in Labels /\ Cardinality(Upto(f)) \in DOMAIN Placeholder[f.label]
<1>1. s.label = f.label /\ f \in spans
  BY SameIs DEF Firsts
<1>2. (CHOOSE r \in Firsts : SameValue(r, s)) = f
  BY FirstIs
<1>3. PlaceholderOf(s) = Placeholder[f.label][Cardinality(Upto(f))]
  BY <1>1, <1>2 DEF PlaceholderOf, Upto
<1>4. f.label \in Labels
  BY <1>1, MaskedSpan
<1>5. Cardinality(Upto(f)) \in DOMAIN asked.text
  BY UptoIs, TextIs DEF Masking
<1>6. DOMAIN asked.text \subseteq DOMAIN Placeholder[f.label]
  BY <1>4, PlaceholderAssumption DEF Masking
<1> QED BY <1>3, <1>4, <1>5, <1>6

\* What Substitute makes of the spans.
NamesOf ==
  [p \in {PlaceholderOf(s) : s \in Firsts} |->
     LET s == CHOOSE r \in Firsts : PlaceholderOf(r) = p IN [value |-> ValueOf(s), label |-> s.label]]

\* Each value has a placeholder of its own, and each placeholder a value.
LEMMA NamesAre ==
  ASSUME Masking
  PROVE  /\ \A f \in Firsts : /\ f \in spans /\ PlaceholderOf(f) \in DOMAIN NamesOf
                              /\ NamesOf[PlaceholderOf(f)] = [value |-> ValueOf(f), label |-> f.label]
         /\ \A p \in DOMAIN NamesOf : \E f \in Firsts : p = PlaceholderOf(f)
         /\ \A s \in spans : \E f \in Firsts : SameValue(f, s) /\ PlaceholderOf(s) = PlaceholderOf(f)
<1>1. ASSUME NEW f \in Firsts, NEW g \in Firsts, PlaceholderOf(f) = PlaceholderOf(g) PROVE f = g
  <2>1. f \in spans /\ g \in spans /\ SameValue(f, f) /\ SameValue(g, g)
    BY SameIs DEF Firsts
  <2> DEFINE l == f.label
             k == g.label
             i == Cardinality(Upto(f))
             j == Cardinality(Upto(g))
  <2>2. /\ PlaceholderOf(f) = Placeholder[l][i] /\ l \in Labels /\ i \in DOMAIN Placeholder[l]
        /\ PlaceholderOf(g) = Placeholder[k][j] /\ k \in Labels /\ j \in DOMAIN Placeholder[k]
    BY <2>1, PlaceholderIs
  <2> HIDE DEF i, j, l, k
  <2>3. l = k /\ i = j
    BY <1>1, <2>2, PlaceholdersDiffer
  <2> QED BY <2>3, UptoDiffers DEF i, j, l, k
<1>2. ASSUME NEW f \in Firsts
      PROVE  /\ f \in spans /\ PlaceholderOf(f) \in DOMAIN NamesOf
             /\ NamesOf[PlaceholderOf(f)] = [value |-> ValueOf(f), label |-> f.label]
  <2> DEFINE p == PlaceholderOf(f)
             g == CHOOSE r \in Firsts : PlaceholderOf(r) = p
  <2>1. g \in Firsts /\ PlaceholderOf(g) = p
    OBVIOUS
  <2>2. g = f
    BY <1>1, <2>1
  <2>3. p \in {PlaceholderOf(s) : s \in Firsts} /\ f \in spans
    BY DEF Firsts
  <2>4. NamesOf[p] = [value |-> ValueOf(g), label |-> g.label] /\ p \in DOMAIN NamesOf
    BY <2>3 DEF NamesOf
  <2> QED BY <2>2, <2>3, <2>4
<1>3. \A p \in DOMAIN NamesOf : \E f \in Firsts : p = PlaceholderOf(f)
  BY DEF NamesOf
<1>4. ASSUME NEW s \in spans PROVE \E f \in Firsts : SameValue(f, s) /\ PlaceholderOf(s) = PlaceholderOf(f)
  <2>1. PICK f \in Firsts : SameValue(f, s)
    BY FirstIs
  <2>2. f \in spans /\ SameValue(f, f)
    BY SameIs DEF Firsts
  <2> QED BY <2>1, <2>2, PlaceholderIs
<1> QED BY <1>2, <1>3, <1>4

LEMMA NamesMap == ASSUME Masking PROVE Maps(NamesOf, asked.text)
<1> DEFINE t == asked.text
<1>1. ASSUME NEW p \in DOMAIN NamesOf
      PROVE  /\ Foreign(p, t) /\ IsText(NamesOf[p].value) /\ Len(NamesOf[p].value) \in Nat \ {0}
             /\ \A k \in 1 .. Len(NamesOf[p].value) : NamesOf[p].value[k] \in ToSet(t)
  <2>1. PICK f \in Firsts : p = PlaceholderOf(f)
    BY NamesAre
  <2>2. f \in spans /\ NamesOf[p].value = ValueOf(f) /\ SameValue(f, f)
    <3>1. f \in spans /\ NamesOf[p] = [value |-> ValueOf(f), label |-> f.label]
      BY <2>1, NamesAre
    <3> QED BY <3>1, SameIs
  <2> DEFINE l == f.label
             i == Cardinality(Upto(f))
  <2>3. p = Placeholder[l][i] /\ l \in Labels /\ i \in DOMAIN Placeholder[l]
    BY <2>1, <2>2, PlaceholderIs
  <2> HIDE DEF l, i
  <2>4. p \notin DOMAIN Lower /\ (\A a \in DOMAIN Lower : p # Lower[a]) /\ p \notin ToSet(t)
    BY <2>3, PlaceholderAssumption DEF Masking
  <2>5. Foreign(p, t)
    BY <2>4 DEF Foreign, Low
  <2>6. IsText(ValueOf(f)) /\ Len(ValueOf(f)) \in Nat \ {0} /\ \A k \in 1 .. Len(ValueOf(f)) : ValueOf(f)[k] \in ToSet(t)
    BY <2>2, MaskedSpan
  <2> QED BY <2>2, <2>5, <2>6
<1> QED BY <1>1 DEF Maps

\* No span begins or ends in a joint of words; nor, if all are whole, in a word.
Unjoined == \A s \in spans : asked.text[s.from] # Joint /\ asked.text[s.to] # Joint
AllWhole == \A s \in spans : Whole(asked.text, s)

LEMMA NamesEdged == ASSUME Masking, Unjoined PROVE Edged(NamesOf)
<1> SUFFICES ASSUME NEW p \in DOMAIN NamesOf
             PROVE  NamesOf[p].value[1] # Joint /\ NamesOf[p].value[Len(NamesOf[p].value)] # Joint
  BY DEF Edged
<1>1. PICK f \in Firsts : f \in spans /\ NamesOf[p].value = ValueOf(f)
  <2>1. PICK f \in Firsts : p = PlaceholderOf(f)
    BY NamesAre
  <2>2. f \in spans /\ NamesOf[PlaceholderOf(f)] = [value |-> ValueOf(f), label |-> f.label]
    BY NamesAre
  <2> QED BY <2>1, <2>2
<1>2. PICK v : v = ValueOf(f)
  OBVIOUS
<1>3. PICK a \in Int, b \in Int, l \in Nat \ {0} :
        /\ a = f.from /\ b = f.to /\ l = Len(v) /\ l = b + 1 - a
        /\ \A k \in 1 .. l : v[k] = asked.text[a + k - 1]
  <2>1. /\ f.from \in Int /\ f.to \in Int /\ Len(ValueOf(f)) \in Nat \ {0} /\ Len(ValueOf(f)) = f.to + 1 - f.from
        /\ \A k \in 1 .. f.to + 1 - f.from : ValueOf(f)[k] = asked.text[f.from + k - 1]
    BY <1>1, MaskedSpan
  <2> QED BY <1>2, <2>1
<1>4. 1 \in 1 .. l /\ l \in 1 .. l /\ a + 1 - 1 = a /\ a + l - 1 = b
  BY <1>3
<1>5. v[1] = asked.text[a] /\ v[l] = asked.text[b]
  BY <1>3, <1>4
<1>6. asked.text[a] # Joint /\ asked.text[b] # Joint
  BY <1>1, <1>3 DEF Unjoined
<1> QED BY <1>1, <1>2, <1>3, <1>5, <1>6

-----------------------------------------------------------------------------
(* The text with its placeholders *)

LEMMA SpellsNone == \A m, t, kept, hid, seams : Spells(<<>>, m, t, kept, hid, seams, 0)
<1> TAKE m, t, kept, hid, seams
<1> DEFINE cut == [i \in 0 .. 0 |-> 0]
<1>1. cut \in [0 .. 0 -> Nat] /\ cut[0] = 0 /\ \A i \in 1 .. 0 : FALSE
  OBVIOUS
<1> HIDE DEF cut
<1>2. CutAt(<<>>, m, t, kept, hid, seams, cut)
  BY <1>1, NoneIsText DEF CutAt
<1> QED BY <1>1, <1>2, NoneIsText DEF Spells

LEMMA SpellsMore ==
  ASSUME NEW m, NEW t, NEW kept, NEW hid, NEW seams, NEW u, NEW x, NEW y, NEW a, Spells(u, m, t, kept, hid, seams, x), StandsFor(a, m, t, kept, hid, seams, x, y)
  PROVE  Spells(u \o <<a>>, m, t, kept, hid, seams, y)
<1> DEFINE n == Len(u)
           v == <<a>>
           w == u \o v
<1>1. IsText(u) /\ n \in Nat /\ y \in Nat
  BY TextIs DEF Spells, StandsFor
<1>2. PICK cut : CutAt(u, m, t, kept, hid, seams, cut) /\ cut[n] = x
  BY DEF Spells
<1>3. /\ cut \in [0 .. n -> Nat] /\ cut[0] = 0
      /\ \A i \in 1 .. n : StandsFor(u[i], m, t, kept, hid, seams, cut[i - 1], cut[i])
  BY <1>2 DEF CutAt
<1>4. IsText(v) /\ Len(v) = 1 /\ v[1] = a
  BY OneIsText
<1> HIDE DEF v
<1>5. IsText(w) /\ Len(w) = n + 1 /\ (\A i \in 1 .. n : w[i] = u[i]) /\ w[n + 1] = a
  <2>1. IsText(w) /\ Len(w) = Len(u) + Len(v) /\ \A i \in 1 .. Len(u) : w[i] = u[i]
    BY <1>1, <1>4, TextsJoined
  <2>0. IsText(u) /\ IsText(v)
    BY <1>1, <1>4
  <2>2. \A i \in 1 .. Len(v) : w[Len(u) + i] = v[i]
    <3> TAKE i \in 1 .. Len(v)
    <3> QED BY <2>0, TextsJoined
  <2>3. 1 \in 1 .. Len(v)
    BY <1>4
  <2> HIDE DEF w
  <2> QED BY <1>4, <2>1, <2>2, <2>3
<1> DEFINE new == [i \in 0 .. n + 1 |-> IF i = n + 1 THEN y ELSE cut[i]]
<1> HIDE DEF n, w
<1>6. new \in [0 .. n + 1 -> Nat] /\ new[n + 1] = y /\ \A i \in 0 .. n : new[i] = cut[i]
  <2>1. \A i \in 0 .. n + 1 : i # n + 1 => i \in 0 .. n
    BY <1>1
  <2>2. n + 1 \in 0 .. n + 1 /\ \A i \in 0 .. n : i \in 0 .. n + 1 /\ i # n + 1
    BY <1>1
  <2> QED BY <1>1, <1>3, <2>1, <2>2
<1> HIDE DEF new
<1>7. ASSUME NEW i \in 1 .. n + 1 PROVE StandsFor(w[i], m, t, kept, hid, seams, new[i - 1], new[i])
  <2>1. CASE i = n + 1
    <3>1. i - 1 = n /\ n \in 0 .. n
      BY <1>1, <2>1
    <3> QED BY <1>2, <1>5, <1>6, <2>1, <3>1 DEF n
  <2>2. CASE i # n + 1
    <3>1. i \in 1 .. n /\ i - 1 \in 0 .. n /\ i \in 0 .. n
      BY <1>1, <2>2
    <3> QED BY <1>3, <1>5, <1>6, <3>1
  <2> QED BY <2>1, <2>2
<1>8. 0 \in 0 .. n
  BY <1>1
<1>9. CutAt(w, m, t, kept, hid, seams, new)
  BY <1>3, <1>5, <1>6, <1>7, <1>8 DEF CutAt
<1>10. Spells(w, m, t, kept, hid, seams, y)
  BY <1>5, <1>6, <1>9 DEF Spells
<1> QED BY <1>10 DEF w, v

\* What stands for an atom of the text, where what it belongs to ends, and the
\* places of the values whose case is told.
MaskedAt(i) ==
  IF \A s \in spans : i \notin s.from .. s.to THEN <<asked.text[i]>>
  ELSE LET s == CHOOSE r \in spans : i \in r.from .. r.to
       IN IF i = s.from THEN <<PlaceholderOf(s)>> ELSE <<>>
EndAt(i) ==
  IF \A s \in spans : i \notin s.from .. s.to THEN i
  ELSE (CHOOSE r \in spans : i \in r.from .. r.to).to
Kept == {i \in 1 .. Len(asked.text) : \E s \in spans : s.label \in CaseSensitive /\ i \in s.from .. s.to}

\* The places that are masked, and where a text that is may be cut.
Hidden == {i \in 1 .. Len(asked.text) : \E s \in spans : i \in s.from .. s.to}
Seams == {x \in 0 .. Len(asked.text) : AllWhole => ~InWord(asked.text, x)}

LEMMA SeamsAre == ASSUME Masking PROVE Sewn(Seams, asked.text, NamesOf)
<1>1. CASE AllWhole
  <2>1. Unjoined
    BY <1>1 DEF AllWhole, Unjoined, Whole, Joint
  <2>2. Edged(NamesOf)
    BY <2>1, NamesEdged
  <2> QED BY <1>1, <2>2 DEF Sewn, Seams
<1>2. CASE ~AllWhole
  BY <1>2 DEF Sewn, Seams
<1> QED BY <1>1, <1>2

LEMMA OneSpan ==
  ASSUME Masking, NEW s \in spans, NEW i \in s.from .. s.to
  PROVE  /\ \A r \in spans : i \in r.from .. r.to => r = s
         /\ MaskedAt(i) = (IF i = s.from THEN <<PlaceholderOf(s)>> ELSE <<>>) /\ EndAt(i) = s.to
<1>1. \A r \in spans : r.from \in Int /\ r.to \in Int
  BY MaskedSpan
<1>2. \A r \in spans : i \in r.from .. r.to => r = s
  BY <1>1 DEF Masking, Disjoint
<1>3. (CHOOSE r \in spans : i \in r.from .. r.to) = s
  BY <1>2
<1> QED BY <1>2, <1>3 DEF MaskedAt, EndAt

LEMMA NoSpan ==
  ASSUME NEW i, \A s \in spans : i \notin s.from .. s.to
  PROVE  MaskedAt(i) = <<asked.text[i]>> /\ EndAt(i) = i
BY DEF MaskedAt, EndAt

\* A placeholder stands for every span of its value.
LEMMA PlaceholderStandsFor ==
  ASSUME Masking, NEW s \in spans
  PROVE  StandsFor(PlaceholderOf(s), NamesOf, asked.text, Kept, Hidden, Seams, s.from - 1, s.to)
<1> DEFINE t == asked.text
           a == s.from
           b == s.to
           p == PlaceholderOf(s)
           v == NamesOf[p].value
<1>1. PICK f \in Firsts : SameValue(f, s) /\ p = PlaceholderOf(f)
  BY NamesAre
<1>2. f \in spans /\ p \in DOMAIN NamesOf /\ v = ValueOf(f)
  <2>1. f \in spans /\ p \in DOMAIN NamesOf /\ NamesOf[p] = [value |-> ValueOf(f), label |-> f.label]
    BY <1>1, NamesAre
  <2> QED BY <2>1
<1>3. /\ Len(v) = Len(ValueOf(s))
      /\ \A k \in 1 .. Len(ValueOf(s)) : /\ Low(v[k]) = Low(ValueOf(s)[k])
                                         /\ s.label \in CaseSensitive => v[k] = ValueOf(s)[k]
  BY <1>1, <1>2, SameMeans
<1>4. /\ Len(t) \in Nat /\ a \in 1 .. Len(t) /\ b \in a .. Len(t) /\ Len(ValueOf(s)) = b + 1 - a
      /\ \A k \in 1 .. b + 1 - a : ValueOf(s)[k] = t[a + k - 1]
  BY MaskedSpan
<1>5. \A i \in a .. b : i \in Kept => s.label \in CaseSensitive
  BY OneSpan DEF Kept
<1>10. a - 1 \in Seams /\ b \in Seams
  <2>1. a - 1 \in 0 .. Len(t) /\ b \in 0 .. Len(t) /\ (a - 1) + 1 = a
    BY <1>4
  <2>2. AllWhole => ~InWord(t, a - 1) /\ ~InWord(t, b)
    BY <2>1 DEF AllWhole, Whole, InWord
  <2> QED BY <2>1, <2>2 DEF Seams
<1> HIDE DEF t, a, b, p, v
<1>6. a - 1 \in Nat /\ b \in Nat /\ b <= Len(t) /\ b = (a - 1) + (b + 1 - a)
      /\ \A k \in 1 .. b + 1 - a : (a - 1) + k = a + k - 1 /\ a + k - 1 \in a .. b
  BY <1>4
<1>7. Len(v) = b + 1 - a
  BY <1>3, <1>4
<1>8. \A k \in 1 .. b + 1 - a : /\ Low(v[k]) = Low(t[(a - 1) + k])
                                /\ (a - 1) + k \in Kept => v[k] = t[(a - 1) + k]
  BY <1>3, <1>4, <1>5, <1>6
<1>9. StandsFor(p, NamesOf, t, Kept, Hidden, Seams, a - 1, b)
  BY <1>2, <1>6, <1>7, <1>8, <1>10 DEF StandsFor, v
<1> QED BY <1>9 DEF t, a, b, p

LEMMA MaskStep ==
  ASSUME Masking, NEW k \in 1 .. Len(asked.text), NEW u, Spells(u, NamesOf, asked.text, Kept, Hidden, Seams, EndAt(k - 1))
  PROVE  Spells(u \o MaskedAt(k), NamesOf, asked.text, Kept, Hidden, Seams, EndAt(k))
<1> DEFINE t == asked.text
           n == Len(t)
<1>1. IsText(t) /\ n \in Nat /\ DOMAIN t = 1 .. n /\ k \in 1 .. n /\ k \in Int /\ k - 1 \in Nat
  BY TextIs DEF Masking
<1>2. \A s \in spans : s.from \in 1 .. n /\ s.from \in Int /\ s.to \in Int
  BY MaskedSpan
<1>3. ASSUME \A s \in spans : ~(k - 1 \in s.from .. s.to /\ k \in s.from .. s.to) PROVE EndAt(k - 1) = k - 1
  <2>1. CASE \A s \in spans : k - 1 \notin s.from .. s.to
    BY <2>1, NoSpan
  <2>2. ASSUME NEW s \in spans, k - 1 \in s.from .. s.to PROVE EndAt(k - 1) = k - 1
    <3>1. s.to = k - 1
      BY <1>1, <1>2, <1>3, <2>2
    <3> QED BY <2>2, <3>1, OneSpan
  <2> QED BY <2>1, <2>2
<1>4. CASE \A s \in spans : k \notin s.from .. s.to
  <2>1. EndAt(k - 1) = k - 1 /\ EndAt(k) = k /\ MaskedAt(k) = <<t[k]>>
    BY <1>3, <1>4, NoSpan
  <2>2. t[k] \notin DOMAIN NamesOf
    <3>1. t[k] \in ToSet(t)
      BY <1>1 DEF ToSet
    <3>2. \A p \in DOMAIN NamesOf : Foreign(p, t)
      BY NamesMap DEF Maps
    <3> QED BY <3>1, <3>2 DEF Foreign
  <2>3. k \notin Kept /\ k \notin Hidden
    BY <1>4 DEF Kept, Hidden
  <2> DEFINE a == t[k]
             x == k - 1
  <2>4. x \in Nat /\ k \in Nat /\ k <= Len(t) /\ k = x + 1
    BY <1>1
  <2>5. StandsFor(a, NamesOf, t, Kept, Hidden, Seams, x, k)
    BY <2>2, <2>3, <2>4 DEF StandsFor
  <2> HIDE DEF a, x
  <2>6. Spells(u \o <<a>>, NamesOf, t, Kept, Hidden, Seams, k)
    BY <2>1, <2>5, SpellsMore DEF x
  <2> QED BY <2>1, <2>6 DEF a
<1>5. ASSUME NEW s \in spans, k \in s.from .. s.to PROVE Spells(u \o MaskedAt(k), NamesOf, t, Kept, Hidden, Seams, EndAt(k))
  <2>1. /\ \A r \in spans : k \in r.from .. r.to => r = s
        /\ MaskedAt(k) = (IF k = s.from THEN <<PlaceholderOf(s)>> ELSE <<>>) /\ EndAt(k) = s.to
    BY <1>5, OneSpan
  <2>2. CASE k = s.from
    <3>1. EndAt(k - 1) = k - 1
      <4>1. k - 1 \notin s.from .. s.to
        BY <1>1, <1>2, <2>2
      <4> QED BY <1>3, <2>1, <4>1
    <3> DEFINE p == PlaceholderOf(s)
    <3>2. StandsFor(p, NamesOf, t, Kept, Hidden, Seams, k - 1, s.to)
      BY <2>2, PlaceholderStandsFor
    <3> HIDE DEF p
    <3>3. Spells(u \o <<p>>, NamesOf, t, Kept, Hidden, Seams, s.to)
      BY <3>1, <3>2, SpellsMore
    <3> QED BY <2>1, <2>2, <3>3 DEF p
  <2>3. CASE k # s.from
    <3>1. k - 1 \in s.from .. s.to
      BY <1>1, <1>2, <1>5, <2>3
    <3>2. EndAt(k - 1) = s.to
      BY <3>1, OneSpan
    <3>3. u \o <<>> = u
      <4>1. u \in Seq(ToSet(u))
        BY DEF Spells, IsText
      <4> QED BY <4>1, ConcatEmptySeq
    <3> QED BY <2>1, <2>3, <3>2, <3>3
  <2> QED BY <2>2, <2>3
<1> QED BY <1>4, <1>5

\* The redacted text stands for the text.
LEMMA MaskedSpells ==
  ASSUME Masking, NEW s, s = [i \in DOMAIN asked.text |-> MaskedAt(i)]
  PROVE  Spells(FlattenSeq(s), NamesOf, asked.text, Kept, Hidden, Seams, Len(asked.text))
<1> DEFINE t == asked.text
           n == Len(t)
           Good(u, k) == Spells(u, NamesOf, t, Kept, Hidden, Seams, EndAt(k))
<1>1. n \in Nat /\ DOMAIN t = 1 .. n /\ Len(s) = n /\ \A i \in 1 .. n : s[i] = MaskedAt(i)
  BY TextIs DEF Masking
<1>2. \A r \in spans : r.from \in 1 .. n /\ r.to \in r.from .. n /\ r.from \in Int /\ r.to \in Int
  BY MaskedSpan
<1>3. Good(<<>>, 0)
  <2>1. \A r \in spans : 0 \notin r.from .. r.to
    BY <1>2
  <2>2. EndAt(0) = 0
    BY <2>1, NoSpan
  <2> QED BY <2>2, SpellsNone
<1>4. EndAt(n) = n
  <2>1. CASE \A r \in spans : n \notin r.from .. r.to
    BY <2>1, NoSpan
  <2>2. ASSUME NEW r \in spans, n \in r.from .. r.to PROVE EndAt(n) = n
    <3>1. r.to = n
      BY <1>1, <1>2, <2>2
    <3> QED BY <2>2, <3>1, OneSpan
  <2> QED BY <2>1, <2>2
<1>5. ASSUME NEW k \in 1 .. n, NEW u, Good(u, k - 1) PROVE Good(u \o s[k], k)
  BY <1>1, <1>5, MaskStep
<1> HIDE DEF Good
<1>6. CASE n = 0
  <2>1. s = <<>> /\ FlattenSeq(s) = s
    BY <1>1, <1>6 DEF FlattenSeq
  <2> QED BY <1>3, <1>4, <1>6, <2>1 DEF Good
<1>7. CASE n # 0
  <2>1. PICK f : /\ \A i \in 1 .. n : f[i] = IF i = 1 THEN s[i] ELSE f[i - 1] \o s[i]
                 /\ FlattenSeq(s) = f[n]
    <3> HIDE DEF n
    <3>1. Len(s) \in Nat \ {0} /\ Len(s) = n
      BY <1>1, <1>7
    <3>2. \E f : /\ \A i \in 1 .. Len(s) : f[i] = IF i = 1 THEN s[i] ELSE f[i - 1] \o s[i]
                 /\ FlattenSeq(s) = f[Len(s)]
      BY <3>1, FlattenExists
    <3> QED BY <3>1, <3>2
  <2> DEFINE G == {k \in Nat : k + 1 <= n => Good(f[k + 1], k + 1)}
  <2>2. 0 \in G
    <3>1. 1 \in 1 .. n /\ 1 - 1 = 0 /\ 0 + 1 = 1
      BY <1>1, <1>7
    <3>2. Good(<<>> \o s[1], 1)
      BY <1>3, <1>5, <3>1
    <3>3. <<>> \o s[1] = s[1]
      <4>1. IsText(MaskedAt(1))
        BY OneIsText, NoneIsText DEF MaskedAt
      <4>2. s[1] \in Seq(ToSet(s[1]))
        BY <1>1, <3>1, <4>1 DEF IsText
      <4> QED BY <4>2, ConcatEmptySeq
    <3>4. f[1] = s[1]
      BY <2>1, <3>1
    <3> QED BY <3>1, <3>2, <3>3, <3>4
  <2>3. ASSUME NEW k \in Nat, k \in G PROVE k + 1 \in G
    <3> SUFFICES ASSUME k + 1 + 1 <= n PROVE Good(f[k + 1 + 1], k + 1 + 1)
      OBVIOUS
    <3> DEFINE i == k + 1 + 1
    <3>1. i \in 1 .. n /\ i # 1 /\ i - 1 = k + 1 /\ k + 1 <= n
      BY <1>1
    <3> HIDE DEF i, n
    <3>2. Good(f[i - 1], i - 1)
      BY <2>3, <3>1
    <3>3. f[i] = f[i - 1] \o s[i]
      BY <2>1, <3>1
    <3>4. Good(f[i - 1] \o s[i], i)
      BY <1>5, <3>1, <3>2
    <3> QED BY <3>3, <3>4 DEF i
  <2>4. \A k \in Nat : k \in G
    <3> HIDE DEF G
    <3> QED BY <2>2, <2>3, AllNumbers
  <2>5. n - 1 \in Nat /\ (n - 1) + 1 = n
    BY <1>1, <1>7
  <2>6. n - 1 \in G
    BY <2>4, <2>5
  <2>7. Good(f[n], n)
    BY <2>5, <2>6
  <2> QED BY <1>4, <2>1, <2>7 DEF Good
<1> QED BY <1>6, <1>7

-----------------------------------------------------------------------------
(* The answer to a /redact *)

Redacting == phase \in {"masked", "swept"} \/ Served

\* What is redacted stands for the text that was asked about, under the names
\* that its spans have.
RedactedInv == Redacting => names = NamesOf /\ Spells(out, NamesOf, asked.text, Kept, Hidden, Seams, Len(asked.text))

LEMMA MaskingThere == ASSUME ServedInv, phase \in Sought PROVE Masking
<1>1. phase \in Busy
  BY DEF Sought, Busy
<1> QED BY <1>1, AskedIs DEF ServedInv, Masking

LEMMA SameNames == ASSUME asked' = asked, spans' = spans 
               PROVE NamesOf' = NamesOf /\ Kept' = Kept /\ Hidden' = Hidden /\ Seams' = Seams /\ (Masking => Masking')
<1>1. Kept' = Kept /\ Hidden' = Hidden /\ Seams' = Seams /\ (Masking => Masking')
  BY DEF Kept, Hidden, Seams, AllWhole, Masking
<1>2. NamesOf' = NamesOf
  BY DEF NamesOf, PlaceholderOf, Firsts, SameValue, ValueOf
<1> QED BY <1>1, <1>2

LEMMA SubstituteRedacts == ASSUME ServedInv, Substitute PROVE RedactedInv'
<1>1. phase = "sought" /\ asked' = asked /\ spans' = spans
  BY DEF Substitute
<1>2. Masking
  BY <1>1, MaskingThere DEF Sought
<1>3. names' = NamesOf
  BY DEF Substitute, NamesOf
<1> DEFINE s == [i \in DOMAIN asked.text |-> MaskedAt(i)]
<1>4. out' = FlattenSeq(s)
  BY DEF Substitute, MaskedAt
<1>5. Spells(FlattenSeq(s), NamesOf, asked.text, Kept, Hidden, Seams, Len(asked.text))
  BY <1>2, MaskedSpells
<1> HIDE DEF s
<1>6. NamesOf' = NamesOf /\ Kept' = Kept /\ Hidden' = Hidden /\ Seams' = Seams
  BY <1>1, SameNames
<1> QED BY <1>1, <1>3, <1>4, <1>5, <1>6 DEF RedactedInv

LEMMA SweepRedacts ==
  ASSUME ServedInv, RedactedInv, SweepExact \/ SweepFolded
  PROVE  RedactedInv'
<1>1. phase \in {"masked", "swept"} /\ asked' = asked /\ spans' = spans /\ names' = names
  BY DEF SweepExact, SweepFolded
<1>2. PICK exact : out' = Sweep(out, Swept(exact), exact)
  BY DEF SweepExact, SweepFolded
<1>3. Masking /\ IsText(asked.text)
  BY <1>1, MaskingThere DEF Sought, Masking
<1>4. names = NamesOf /\ Spells(out, NamesOf, asked.text, Kept, Hidden, Seams, Len(asked.text))
  BY <1>1 DEF RedactedInv, Redacting
<1>5. Maps(names, asked.text) /\ Spells(out, names, asked.text, Kept, Hidden, Seams, Len(asked.text))
  <2>1. Maps(NamesOf, asked.text)
    BY <1>3, NamesMap
  <2> QED BY <1>4, <2>1
<1>6. Swept(exact) \in SUBSET DOMAIN names
  BY DEF Swept
<1> DEFINE these == Swept(exact)
           t == asked.text
           kept == Kept
           hid == Hidden
           seams == Seams
           y == Len(t)
<1>10. Sewn(seams, t, names)
  BY <1>3, <1>4, SeamsAre
<1>11. y = Len(t)
  OBVIOUS
<1> HIDE DEF these, t, kept, hid, seams, y
<1>7. Spells(Sweep(out, these, exact), names, t, kept, hid, seams, y)
  BY <1>3, <1>5, <1>6, <1>10, <1>11, SweepSpells DEF these, t, kept, hid, seams, y
<1>8. NamesOf' = NamesOf /\ Kept' = Kept /\ Hidden' = Hidden /\ Seams' = Seams
  BY <1>1, SameNames
<1>9. Spells(out', NamesOf', asked'.text, Kept', Hidden', Seams', Len(asked'.text))
  BY <1>1, <1>2, <1>4, <1>7, <1>8 DEF these, t, kept, hid, seams, y
<1> QED BY <1>1, <1>4, <1>8, <1>9 DEF RedactedInv

LEMMA Redacts == Spec => []RedactedInv
<1>1. Init => RedactedInv
  BY DEF Init, GateInit, RedactedInv, Redacting, Served
<1>2. ServedInv /\ RedactedInv /\ [Next]_vars => RedactedInv'
  <2> SUFFICES ASSUME ServedInv, RedactedInv, [Next]_vars PROVE RedactedInv'
    OBVIOUS
  <2>1. CASE UNCHANGED gateVars
    <3>1. /\ asked' = asked /\ spans' = spans /\ phase' = phase /\ names' = names /\ out' = out
      BY <2>1 DEF gateVars
    <3>2. NamesOf' = NamesOf /\ Kept' = Kept /\ Hidden' = Hidden /\ Seams' = Seams
      BY <3>1, SameNames
    <3>3. Redacting' <=> Redacting
      BY <3>1 DEF Redacting, Served
    <3> QED BY <3>1, <3>2, <3>3 DEF RedactedInv
  <2>2. ASSUME NEW host, NEW token, Start(host, token) PROVE RedactedInv'
    <3>1. /\ asked' = asked /\ spans' = spans /\ phase' = phase /\ names' = names /\ out' = out
      BY <2>2 DEF Start
    <3>2. NamesOf' = NamesOf /\ Kept' = Kept /\ Hidden' = Hidden /\ Seams' = Seams
      BY <3>1, SameNames
    <3>3. Redacting' <=> Redacting
      BY <3>1 DEF Redacting, Served
    <3> QED BY <3>1, <3>2, <3>3 DEF RedactedInv
  <2>3. ASSUME NEW header, NEW request, Refuse(header, request) \/ Receive(header, request) PROVE RedactedInv'
    BY <2>3 DEF Refuse, Receive, RedactedInv, Redacting, Served
  <2>4. CASE ScanFloor \/ AskModel \/ Respond
    BY <2>4 DEF ScanFloor, AskModel, Respond, RedactedInv, Redacting, Served
  <2>5. CASE Assemble
    BY <2>5 DEF Assemble, RedactedInv, Redacting, Served
  <2>6. CASE Substitute
    BY <2>6, SubstituteRedacts
  <2>7. CASE SweepExact \/ SweepFolded
    BY <2>7, SweepRedacts
  <2>8. (\E t \in LocalTexts : Open(t)) \/ BrowserScan \/ ApplianceScan \/ Close => UNCHANGED gateVars
    BY DEF Open, BrowserScan, ApplianceScan, Close
  <2>9. CASE GateNext
    BY <2>2, <2>3, <2>4, <2>5, <2>6, <2>7, <2>9 DEF GateNext
  <2> QED BY <2>1, <2>8, <2>9 DEF Next, vars
<1> QED BY <1>1, <1>2, Serving, PTL DEF Spec

\* Whoever holds the mapping gets the text back (RoundTrips): however often a
\* value occurs and whatever is swept into placeholders, each placeholder of the
\* answer stands for what was there, in its own case where the label tells cases
\* apart (gate/privacy_gate.py: PrivacyGate.redact, _sweep_known, rehydrate).
THEOREM Restored == Spec => []RoundTrips
<1>1. ServedInv /\ RedactedInv => RoundTrips
  <2> SUFFICES ASSUME ServedInv, RedactedInv, Served
               PROVE  LET back == Rehydrated(out, names)
                      IN /\ Folded(back, 1, Len(back)) = Folded(asked.text, 1, Len(asked.text))
                         /\ \A s \in spans : s.label \in CaseSensitive => SubSeq(back, s.from, s.to) = ValueOf(s)
    BY DEF RoundTrips
  <2> DEFINE t == asked.text
             b == Rehydrated(out, names)
             n == Len(t)
  <2>1. Masking /\ IsText(t) /\ n \in Nat
    <3>1. Masking
      BY MaskingThere DEF Served, Sought
    <3> QED BY <3>1, TextIs DEF Masking
  <2>2. Restores(b, t, Kept, 0, n)
    <3>1. names = NamesOf /\ Spells(out, NamesOf, t, Kept, Hidden, Seams, n)
      BY DEF RedactedInv, Redacting
    <3>2. Maps(NamesOf, t)
      BY <2>1, NamesMap
    <3> DEFINE kept == Kept
               hid == Hidden
               seams == Seams
    <3> HIDE DEF kept, hid, seams
    <3>3. Restores(Rehydrated(out, NamesOf), t, kept, 0, n)
      BY <2>1, <3>1, <3>2, SpellsRestored DEF kept, hid, seams
    <3> QED BY <3>1, <3>3 DEF kept
  <2> HIDE DEF b
  <2>3. IsText(b) /\ Len(b) = n /\ \A j \in 1 .. n : Low(b[j]) = Low(t[j]) /\ (j \in Kept => b[j] = t[j])
    <3>1. /\ IsText(b) /\ Len(b) = n - 0
          /\ \A j \in 1 .. n - 0 : Low(b[j]) = Low(t[0 + j]) /\ (0 + j \in Kept => b[j] = t[0 + j])
      BY <2>2 DEF Restores
    <3>2. n - 0 = n /\ \A j \in 1 .. n : 0 + j = j
      BY <2>1
    <3> QED BY <3>1, <3>2
  <2>4. Folded(b, 1, Len(b)) = Folded(t, 1, Len(t))
    <3> HIDE DEF t
    <3>1. 1 \in 1 .. n + 1 /\ n \in 1 - 1 .. n /\ n + 1 - 1 = n /\ \A k \in 1 .. n : 1 + k - 1 = k
      BY <2>1
    <3> HIDE DEF n
    <3>4. IsText(b) /\ 1 \in 1 .. Len(b) + 1 /\ n \in 1 - 1 .. Len(b)
      BY <2>3, <3>1
    <3>5. IsText(t) /\ 1 \in 1 .. Len(t) + 1 /\ n \in 1 - 1 .. Len(t)
      BY <2>1, <3>1 DEF n
    <3>2. Folded(b, 1, n) = [k \in 1 .. n + 1 - 1 |-> Low(b[1 + k - 1])]
      BY <3>4, FoldedLow
    <3>3. Folded(t, 1, n) = [k \in 1 .. n + 1 - 1 |-> Low(t[1 + k - 1])]
      BY <3>5, FoldedLow
    <3> QED BY <2>3, <3>1, <3>2, <3>3 DEF n
  <2>5. ASSUME NEW s \in spans, s.label \in CaseSensitive PROVE SubSeq(b, s.from, s.to) = ValueOf(s)
    <3> DEFINE i == s.from
               j == s.to
               w == SubSeq(b, i, j)
               v == ValueOf(s)
               l == j + 1 - i
    <3>1. /\ i \in 1 .. n /\ j \in i .. n /\ IsText(v) /\ Len(v) = l
          /\ \A k \in 1 .. l : v[k] = t[i + k - 1]
      BY <2>1, MaskedSpan
    <3>2. \A k \in i .. j : k \in Kept
      BY <2>1, <2>5, <3>1 DEF Kept
    <3> HIDE DEF i, j, v, t, n
    <3>3. IsText(w) /\ Len(w) = l /\ \A k \in 1 .. l : w[k] = b[k + i - 1]
      BY <2>3, <3>1, PartIs
    <3>4. \A k \in 1 .. l : k + i - 1 = i + k - 1 /\ i + k - 1 \in i .. j /\ i + k - 1 \in 1 .. n
      BY <2>1, <3>1
    <3> HIDE DEF w
    <3>5. \A k \in 1 .. l : w[k] = v[k]
      BY <2>3, <3>1, <3>2, <3>3, <3>4
    <3>6. w = [k \in 1 .. l |-> w[k]] /\ v = [k \in 1 .. l |-> v[k]]
      <4> HIDE DEF l
      <4> QED BY <3>1, <3>3, TextIs
    <3>7. w = v
      <4> HIDE DEF l
      <4> QED BY <3>5, <3>6
    <3> QED BY <3>7 DEF w, i, j, v
  <2> QED BY <2>4, <2>5 DEF b, t
<1> QED BY <1>1, Serving, Redacts, PTL

-----------------------------------------------------------------------------
(* What a sweep leaves *)

\* A run of atoms that a sweep let stand.
LetStand(t, z, at, k, l) ==
  /\ at[k] \in 1 .. Len(t) /\ at[k + l] = at[k] + l /\ k + l \in 1 .. Len(z) + 1
  /\ \A j \in 1 .. l : /\ k + j - 1 \in 1 .. Len(z) /\ at[k] + j - 1 \in 1 .. Len(t)
                       /\ z[k + j - 1] = t[at[k] + j - 1]

\* What stands in a text that was swept stood there before, word for word, where
\* nothing was swept.
LEMMA UnsweptRun ==
  ASSUME NEW t, IsText(t), NEW text, Maps(names, text),
         NEW these \in SUBSET DOMAIN names, NEW exact, NEW z, NEW at, Walk(t, z, at, these, exact),
         NEW k \in 1 .. Len(z), NEW v, IsText(v), Len(v) \in Nat \ {0}, \A j \in 1 .. Len(v) : v[j] \in ToSet(text),
         NEW how, StandsAt(z, k, v, how)
  PROVE  Hits(t, at[k], these, exact) = {} /\ LetStand(t, z, at, k, Len(v))
<1>a. /\ k + Len(v) - 1 \in k .. Len(z)
      /\ \A j \in 1 .. Len(v) : k + j - 1 \in 1 .. Len(z) /\ z[k + j - 1] \notin DOMAIN names
  <2>1. IsText(z)
    BY DEF Walk
  <2>2. k + Len(v) - 1 \in k .. Len(z)
    BY <2>1, StandsIs
  <2>3. \A j \in 1 .. Len(v) : k + j - 1 \in 1 .. Len(z) /\ z[k + j - 1] \notin DOMAIN names
    BY <2>1, NoPlaceholderThere
  <2> QED BY <2>2, <2>3
<1>b. Len(z) \in Nat /\ Len(t) \in Nat
  BY TextIs DEF Walk
<1>c. PICK l \in Nat \ {0}, n \in Nat, m \in Nat : l = Len(v) /\ n = Len(t) /\ m = Len(z)
  BY <1>b
<1>d. k \in 1 .. m
  BY <1>c
<1>1. /\ IsText(z) /\ at \in [1 .. m + 1 -> 1 .. n + 1] /\ at[m + 1] = n + 1
      /\ \A j \in 1 .. m :
           /\ at[j] \in 1 .. n
           /\ \/ Hits(t, at[j], these, exact) = {} /\ z[j] = t[at[j]] /\ at[j + 1] = at[j] + 1
              \/ z[j] \in Hits(t, at[j], these, exact) /\ at[j + 1] = at[j] + Len(names[z[j]].value)
  BY <1>c DEF Walk
<1>2. /\ k + l - 1 \in k .. m
      /\ \A j \in 1 .. l : k + j - 1 \in 1 .. m /\ z[k + j - 1] \notin DOMAIN names
  BY <1>a, <1>c
<1>3. \A j \in 1 .. m : z[j] \notin DOMAIN names =>
         Hits(t, at[j], these, exact) = {} /\ z[j] = t[at[j]] /\ at[j + 1] = at[j] + 1
  BY <1>1 DEF Hits
<1>4. PICK i \in 1 .. n : i = at[k]
  BY <1>d, <1>1
<1> DEFINE G == {j \in Nat : j <= l => at[k + j] = i + j}
<1>5. 0 \in G
  BY <1>d, <1>4
<1>6. ASSUME NEW j \in Nat, j \in G PROVE j + 1 \in G
  <2> SUFFICES ASSUME j + 1 <= l PROVE at[k + (j + 1)] = i + (j + 1)
    OBVIOUS
  <2>1. j + 1 \in 1 .. l /\ k + (j + 1) - 1 = k + j /\ (k + j) + 1 = k + (j + 1) /\ j <= l
    BY <1>d
  <2>2. k + j \in 1 .. m /\ z[k + j] \notin DOMAIN names
    BY <1>2, <2>1
  <2>3. at[(k + j) + 1] = at[k + j] + 1
    BY <1>3, <2>2
  <2>4. at[k + j] = i + j
    BY <1>6, <2>1
  <2> QED BY <2>1, <2>3, <2>4
<1>7. \A j \in Nat : j \in G
  <2> HIDE DEF G
  <2> QED BY <1>5, <1>6, AllNumbers
<1>8. \A j \in 0 .. l : at[k + j] = i + j
  BY <1>7
<1> HIDE DEF G
<1>9. \A j \in 1 .. l : k + j - 1 \in 1 .. m /\ i + j - 1 \in 1 .. n /\ z[k + j - 1] = t[i + j - 1]
  <2> TAKE j \in 1 .. l
  <2>1. j - 1 \in 0 .. l /\ k + (j - 1) = k + j - 1 /\ i + (j - 1) = i + j - 1
    BY <1>d
  <2>2. at[k + j - 1] = i + j - 1
    BY <1>8, <2>1
  <2> QED BY <1>1, <1>2, <1>3, <2>2
<1>10. Hits(t, at[k], these, exact) = {}
  <2>1. 1 \in 1 .. l /\ k + 1 - 1 = k
    BY <1>d
  <2>2. z[k] \notin DOMAIN names
    BY <1>2, <2>1
  <2> QED BY <1>d, <1>3, <2>2
<1>11. l \in 0 .. l /\ k + l \in 1 .. m + 1
  BY <1>d, <1>2
<1>12. /\ at[k] \in 1 .. n /\ at[k + l] = at[k] + l
       /\ \A j \in 1 .. l : k + j - 1 \in 1 .. m /\ at[k] + j - 1 \in 1 .. n /\ z[k + j - 1] = t[at[k] + j - 1]
  BY <1>4, <1>8, <1>9, <1>11
<1> QED BY <1>c, <1>10, <1>11, <1>12 DEF LetStand

LEMMA UnsweptBefore ==
  ASSUME NEW t, IsText(t), NEW text, Maps(names, text), Edged(names),
         NEW these \in SUBSET DOMAIN names, NEW exact, NEW z, NEW at, Walk(t, z, at, these, exact), at[1] = 1,
         NEW k \in 1 .. Len(z), NEW i \in 1 .. Len(t), i = at[k], ~WordAt(z, k - 1), AlnumAt(t, i)
  PROVE  ~WordAt(t, i - 1)
<1>1. Len(z) \in Nat /\ DOMAIN z = 1 .. Len(z) /\ Len(t) \in Nat /\ DOMAIN t = 1 .. Len(t)
  BY TextIs DEF Walk
<1>2. CASE k = 1
  <2>1. i - 1 \notin DOMAIN t
    BY <1>1, <1>2
  <2> QED BY <2>1, NoWordBeyond
<1>3. CASE k # 1
  <2>1. PICK j \in 1 .. Len(z) : j = k - 1 /\ j + 1 = k
    BY <1>1, <1>3
  <2>2. PICK b \in 1 .. Len(t) :
          /\ b = at[j]
          /\ \/ z[j] = t[b] /\ i = b + 1
             \/ z[j] \in Hits(t, b, these, exact) /\ i = b + Len(names[z[j]].value)
    BY <2>1 DEF Walk
  <2>3. CASE z[j] = t[b] /\ i = b + 1
    <3>1. b = i - 1 /\ ~WordAt(z, j)
      BY <2>1, <2>3
    <3> QED BY <1>1, <2>3, <3>1, SameWord
  <2>4. CASE z[j] \in Hits(t, b, these, exact) /\ i = b + Len(names[z[j]].value)
    <3>1. PICK p \in DOMAIN names : StandsAt(t, b, names[p].value, exact) /\ i = b + Len(names[p].value)
      BY <2>4 DEF Hits
    <3>2. PICK v : v = names[p].value
      OBVIOUS
    <3>3. IsText(v) /\ Len(v) \in Nat \ {0} /\ v[1] # Joint /\ v[Len(v)] # Joint /\ StandsAt(t, b, v, exact) /\ i = b + Len(v) /\ i \in Int
      <4>1. v[1] # Joint /\ v[Len(v)] # Joint
        BY <3>2 DEF Edged
      <4>2. IsText(v) /\ Len(v) \in Nat \ {0}
        BY <3>2 DEF Maps
      <4>3. i \in Int
        BY <1>1
      <4> QED BY <3>1, <3>2, <4>1, <4>2, <4>3
    <3>4. AlnumAt(t, i) => ~WordAt(t, i - 1)
      BY <3>3, NothingBeside
    <3> QED BY <3>4
  <2> QED BY <2>2, <2>3, <2>4
<1> QED BY <1>2, <1>3

LEMMA UnsweptAfter ==
  ASSUME NEW t, IsText(t), NEW text, Maps(names, text), Edged(names),
         NEW these \in SUBSET DOMAIN names, NEW exact, NEW z, NEW at, Walk(t, z, at, these, exact),
         NEW j \in 1 .. Len(z) + 1, NEW e \in 1 .. Len(t), at[j] = e + 1, ~WordAt(z, j), AlnumAt(t, e)
  PROVE  ~WordAt(t, e + 1)
<1>1. Len(z) \in Nat /\ DOMAIN z = 1 .. Len(z) /\ Len(t) \in Nat /\ DOMAIN t = 1 .. Len(t)
  BY TextIs DEF Walk
<1>2. CASE j = Len(z) + 1
  <2>1. e + 1 \notin DOMAIN t
    BY <1>1, <1>2 DEF Walk
  <2> QED BY <2>1, NoWordBeyond
<1>3. CASE j \in 1 .. Len(z)
  <2>1. PICK b \in 1 .. Len(t) :
          /\ b = at[j]
          /\ z[j] = t[b] \/ z[j] \in Hits(t, b, these, exact)
    BY <1>3 DEF Walk
  <2>2. b = e + 1 /\ b - 1 = e
    BY <2>1
  <2>3. CASE z[j] = t[b]
    BY <1>1, <1>3, <2>2, <2>3, SameWord
  <2>4. CASE z[j] \in Hits(t, b, these, exact)
    <3>1. PICK p \in DOMAIN names : StandsAt(t, b, names[p].value, exact)
      BY <2>4 DEF Hits
    <3>2. PICK v : v = names[p].value
      OBVIOUS
    <3>3. IsText(v) /\ Len(v) \in Nat \ {0} /\ v[1] # Joint /\ v[Len(v)] # Joint /\ StandsAt(t, b, v, exact) /\ b + Len(v) \in Int
      <4>1. v[1] # Joint /\ v[Len(v)] # Joint
        BY <3>2 DEF Edged
      <4>2. IsText(v) /\ Len(v) \in Nat \ {0}
        BY <3>2 DEF Maps
      <4>3. b + Len(v) \in Int
        BY <1>1, <4>2
      <4> QED BY <3>1, <3>2, <4>1, <4>2, <4>3
    <3>4. AlnumAt(t, b - 1) => ~WordAt(t, b)
      BY <3>3, NothingBeside
    <3> QED BY <2>2, <3>4
  <2> QED BY <2>1, <2>3, <2>4
<1>4. j = Len(z) + 1 \/ j \in 1 .. Len(z)
  BY <1>1
<1> QED BY <1>2, <1>3, <1>4

LEMMA Unswept ==
  ASSUME NEW t, IsText(t), NEW text, Maps(names, text), Edged(names),
         NEW these \in SUBSET DOMAIN names, NEW exact, NEW z, NEW at, Walk(t, z, at, these, exact), at[1] = 1,
         NEW k \in 1 .. Len(z), NEW v, IsText(v), Len(v) \in Nat \ {0}, \A j \in 1 .. Len(v) : v[j] \in ToSet(text),
         NEW how, StandsAt(z, k, v, how)
  PROVE  at[k] \in 1 .. Len(t) /\ StandsAt(t, at[k], v, how) /\ Hits(t, at[k], these, exact) = {}
<1>1. PICK l \in Nat \ {0}, n \in Nat, m \in Nat : l = Len(v) /\ n = Len(t) /\ m = Len(z)
  BY TextIs DEF Walk
<1>2. IsText(z) /\ DOMAIN z = 1 .. m /\ DOMAIN t = 1 .. n
  BY <1>1, TextIs DEF Walk
<1>3. k \in 1 .. m /\ \A j \in 1 .. l : v[j] \in ToSet(text)
  BY <1>1
<1>4. /\ at[k] \in 1 .. n /\ Hits(t, at[k], these, exact) = {} /\ at[k + l] = at[k] + l /\ k + l \in 1 .. m + 1
      /\ \A j \in 1 .. l : /\ k + j - 1 \in 1 .. m /\ at[k] + j - 1 \in 1 .. n
                           /\ z[k + j - 1] = t[at[k] + j - 1]
  <2>1. Hits(t, at[k], these, exact) = {} /\ LetStand(t, z, at, k, Len(v))
    <3>1. /\ IsText(t) /\ Maps(names, text) /\ these \in SUBSET DOMAIN names /\ Walk(t, z, at, these, exact)
          /\ k \in 1 .. Len(z) /\ IsText(v) /\ Len(v) \in Nat \ {0} /\ StandsAt(z, k, v, how)
      OBVIOUS
    <3>2. \A j \in 1 .. Len(v) : v[j] \in ToSet(text)
      OBVIOUS
    <3> QED BY <3>1, <3>2, UnsweptRun
  <2> QED BY <1>1, <2>1 DEF LetStand
<1>5. PICK i \in 1 .. n : i = at[k]
  BY <1>4
<1>6. /\ k + l - 1 \in k .. m /\ Guarded(z, k, k + l - 1)
      /\ \A j \in 1 .. l : Low(z[k + j - 1]) = Low(v[j]) /\ (how => z[k + j - 1] = v[j])
  <2>1. Len(v) \in Nat \ {0} /\ k \in 1 .. Len(z)
    BY <1>1
  <2>2. /\ k + Len(v) - 1 \in k .. Len(z) /\ Guarded(z, k, k + Len(v) - 1)
        /\ \A j \in 1 .. Len(v) : Low(z[k + j - 1]) = Low(v[j]) /\ (how => z[k + j - 1] = v[j])
    BY <1>2, <2>1, StandsIs
  <2> QED BY <1>1, <2>2
<1>7. PICK e \in 1 .. n, c \in 1 .. m + 1 : e = i + l - 1 /\ c = k + l /\ c - 1 \in 1 .. m /\ t[e] = z[c - 1] /\ t[i] = z[k] /\ at[c] = e + 1
  <2>1. 1 \in 1 .. l /\ l \in 1 .. l /\ i + 1 - 1 = i /\ k + 1 - 1 = k /\ (k + l) - 1 = k + l - 1 /\ i + l = (i + l - 1) + 1
    OBVIOUS
  <2>2. z[k] = t[i] /\ z[k + l - 1] = t[i + l - 1] /\ i + l - 1 \in 1 .. n /\ k + l - 1 \in 1 .. m
    BY <1>4, <1>5, <2>1
  <2> QED BY <1>4, <1>5, <2>1, <2>2
<1>8. (AlnumAt(z, k) => ~WordAt(z, k - 1)) /\ (AlnumAt(z, c - 1) => ~WordAt(z, c))
  <2>1. c - 1 = k + l - 1 /\ (k + l - 1) + 1 = c
    BY <1>7
  <2> QED BY <1>6, <2>1 DEF Guarded
<1>9. (AlnumAt(t, i) <=> AlnumAt(z, k)) /\ (AlnumAt(t, e) <=> AlnumAt(z, c - 1))
  BY <1>2, <1>7, SameWord
<1>10. AlnumAt(t, i) => ~WordAt(t, i - 1)
  BY <1>1, <1>5, <1>8, <1>9, UnsweptBefore
<1>11. AlnumAt(t, e) => ~WordAt(t, e + 1)
  <2>1. c \in 1 .. Len(z) + 1 /\ e \in 1 .. Len(t) /\ at[c] = e + 1
    BY <1>1, <1>7
  <2> QED BY <1>8, <1>9, <2>1, UnsweptAfter
<1>12. i + Len(v) - 1 <= Len(t) /\ Guarded(t, i, i + Len(v) - 1) /\ i \in 1 .. Len(t)
  BY <1>1, <1>7, <1>10, <1>11 DEF Guarded
<1>13. \A j \in 1 .. Len(v) : Low(t[i + j - 1]) = Low(v[j]) /\ (how => t[i + j - 1] = v[j])
  BY <1>1, <1>4, <1>5, <1>6
<1>14. StandsAt(t, i, v, how)
  BY <1>12, <1>13, StandsThere
<1> QED BY <1>1, <1>4, <1>5, <1>14

LEMMA SweepLeaves ==
  ASSUME NEW t, IsText(t), NEW text, Maps(names, text), Edged(names), NEW these \in SUBSET DOMAIN names, NEW exact
  PROVE  /\ \A p \in these : \A k \in 1 .. Len(Sweep(t, these, exact)) :
              ~StandsAt(Sweep(t, these, exact), k, names[p].value, exact)
         /\ \A p \in DOMAIN names : \A how :
              (\A i \in 1 .. Len(t) : ~StandsAt(t, i, names[p].value, how)) =>
                \A k \in 1 .. Len(Sweep(t, these, exact)) : ~StandsAt(Sweep(t, these, exact), k, names[p].value, how)
<1>1. PICK z : z = Sweep(t, these, exact)
  OBVIOUS
<1>2. PICK at : Walk(t, z, at, these, exact) /\ at[1] = 1
  <2>1. \E at : Walk(t, Sweep(t, these, exact), at, these, exact) /\ at[1] = 1
    BY SweepWalks
  <2> QED BY <1>1, <2>1
<1>3. ASSUME NEW p \in DOMAIN names, NEW k \in 1 .. Len(z), NEW how, StandsAt(z, k, names[p].value, how)
      PROVE  at[k] \in 1 .. Len(t) /\ StandsAt(t, at[k], names[p].value, how) /\ Hits(t, at[k], these, exact) = {}
  <2>1. PICK v : v = names[p].value
    OBVIOUS
  <2>2. IsText(v) /\ Len(v) \in Nat \ {0} /\ \A j \in 1 .. Len(v) : v[j] \in ToSet(text)
    BY <2>1 DEF Maps
  <2>3. StandsAt(z, k, v, how)
    BY <1>3, <2>1
  <2>4. at[k] \in 1 .. Len(t) /\ StandsAt(t, at[k], v, how) /\ Hits(t, at[k], these, exact) = {}
    BY <1>2, <2>2, <2>3, Unswept
  <2> QED BY <2>1, <2>4
<1>4. ASSUME NEW p \in these, NEW k \in 1 .. Len(z), StandsAt(z, k, names[p].value, exact) PROVE FALSE
  <2>1. StandsAt(t, at[k], names[p].value, exact) /\ Hits(t, at[k], these, exact) = {}
    BY <1>3, <1>4
  <2> QED BY <2>1 DEF Hits
<1>5. ASSUME NEW p \in DOMAIN names, NEW how, \A i \in 1 .. Len(t) : ~StandsAt(t, i, names[p].value, how),
             NEW k \in 1 .. Len(z), StandsAt(z, k, names[p].value, how)
      PROVE  FALSE
  BY <1>3, <1>5
<1> QED BY <1>1, <1>4, <1>5

\* What is swept is gone, and does not come back.
Gone(exact) == \A p \in Swept(exact) : \A i \in 1 .. Len(out) : ~StandsAt(out, i, names[p].value, exact)

GoneInv ==
  Unjoined => (phase = "swept" \/ Served => Gone(TRUE)) /\ (Served => Gone(FALSE))

LEMMA SweepClears ==
  ASSUME ServedInv, RedactedInv, GoneInv, SweepExact \/ SweepFolded
  PROVE  GoneInv'
<1>1. /\ phase \in {"masked", "swept"} /\ asked' = asked /\ spans' = spans /\ names' = names
      /\ \A exact : Swept(exact)' = Swept(exact)
      /\ Unjoined' <=> Unjoined
  BY DEF SweepExact, SweepFolded, Swept, Unjoined
<1> SUFFICES ASSUME Unjoined PROVE (phase' = "swept" \/ Served' => Gone(TRUE)') /\ (Served' => Gone(FALSE)')
  BY <1>1 DEF GoneInv
<1>2. Masking
  BY <1>1, MaskingThere DEF Sought
<1>3. names = NamesOf /\ IsText(out)
  BY <1>1 DEF RedactedInv, Redacting, Spells
<1>4. Maps(names, asked.text) /\ Edged(names)
  <2>1. Maps(NamesOf, asked.text) /\ Edged(NamesOf)
    BY <1>2, NamesMap, NamesEdged
  <2> QED BY <1>3, <2>1
<1>5. ASSUME NEW exact, out' = Sweep(out, Swept(exact), exact)
      PROVE  /\ \A p \in Swept(exact) : \A k \in 1 .. Len(out') : ~StandsAt(out', k, names[p].value, exact)
             /\ \A p \in DOMAIN names : \A how :
                  (\A i \in 1 .. Len(out) : ~StandsAt(out, i, names[p].value, how)) =>
                    \A k \in 1 .. Len(out') : ~StandsAt(out', k, names[p].value, how)
  <2>1. PICK these \in SUBSET DOMAIN names : these = Swept(exact)
    BY DEF Swept
  <2>2. /\ \A p \in these : \A k \in 1 .. Len(Sweep(out, these, exact)) :
              ~StandsAt(Sweep(out, these, exact), k, names[p].value, exact)
        /\ \A p \in DOMAIN names : \A how :
              (\A i \in 1 .. Len(out) : ~StandsAt(out, i, names[p].value, how)) =>
                \A k \in 1 .. Len(Sweep(out, these, exact)) : ~StandsAt(Sweep(out, these, exact), k, names[p].value, how)
    BY <1>3, <1>4, SweepLeaves
  <2> QED BY <1>5, <2>1, <2>2
<1>6. CASE SweepExact
  <2>1. out' = Sweep(out, Swept(TRUE), TRUE) /\ phase' = "swept"
    BY <1>6 DEF SweepExact
  <2>2. Gone(TRUE)'
    BY <1>1, <1>5, <2>1 DEF Gone
  <2> QED BY <2>1, <2>2 DEF Served
<1>7. CASE SweepFolded
  <2>1. out' = Sweep(out, Swept(FALSE), FALSE) /\ phase = "swept"
    BY <1>7 DEF SweepFolded
  <2>2. Gone(FALSE)'
    BY <1>1, <1>5, <2>1 DEF Gone
  <2>3. Gone(TRUE)
    BY <2>1 DEF GoneInv
  <2>4. Swept(TRUE) \subseteq DOMAIN names
    BY DEF Swept
  <2>5. Gone(TRUE)'
    BY <1>1, <1>5, <2>1, <2>3, <2>4 DEF Gone
  <2> QED BY <2>2, <2>5
<1> QED BY <1>6, <1>7

LEMMA Clears == Spec => []GoneInv
<1>1. Init => GoneInv
  BY DEF Init, GateInit, GoneInv, Served
<1>2. ServedInv /\ RedactedInv /\ GoneInv /\ [Next]_vars => GoneInv'
  <2> SUFFICES ASSUME ServedInv, RedactedInv, GoneInv, [Next]_vars PROVE GoneInv'
    OBVIOUS
  <2>1. ASSUME UNCHANGED <<asked, phase, spans, out, names>> PROVE GoneInv'
    <3>1. Unjoined' <=> Unjoined
      BY <2>1 DEF Unjoined
    <3>2. \A exact : Gone(exact)' <=> Gone(exact)
      BY <2>1 DEF Gone, Swept
    <3> QED BY <2>1, <3>1, <3>2 DEF GoneInv, Served
  <2>2. CASE UNCHANGED gateVars \/ \E host, token : Start(host, token)
    BY <2>1, <2>2 DEF gateVars, Start
  <2>3. ASSUME phase' # "swept", ~Served' PROVE GoneInv'
    BY <2>3 DEF GoneInv
  <2>4. ASSUME NEW header, NEW request, Refuse(header, request) \/ Receive(header, request) PROVE GoneInv'
    BY <2>3, <2>4 DEF Refuse, Receive, Served
  <2>5. CASE ScanFloor \/ AskModel \/ Assemble \/ Substitute \/ Respond
    BY <2>3, <2>5 DEF ScanFloor, AskModel, Assemble, Substitute, Respond, Served
  <2>6. CASE SweepExact \/ SweepFolded
    BY <2>6, SweepClears
  <2>7. (\E t \in LocalTexts : Open(t)) \/ BrowserScan \/ ApplianceScan \/ Close => UNCHANGED gateVars
    BY DEF Open, BrowserScan, ApplianceScan, Close
  <2>8. CASE GateNext
    BY <2>2, <2>4, <2>5, <2>6, <2>8 DEF GateNext
  <2> QED BY <2>2, <2>7, <2>8 DEF Next, vars
<1> QED BY <1>1, <1>2, Serving, Redacts, PTL DEF Spec

\* Where one value stands, another of the same meaning does.
LEMMA StandsToo ==
  ASSUME NEW u, IsText(u), NEW i \in 1 .. Len(u), NEW v, IsText(v), Len(v) \in Nat \ {0},
         NEW w, IsText(w), Len(w) = Len(v), NEW exact,
         \A k \in 1 .. Len(v) : Low(w[k]) = Low(v[k]) /\ (exact => w[k] = v[k]), StandsAt(u, i, v, exact)
  PROVE  StandsAt(u, i, w, exact)
<1>1. /\ i + Len(v) - 1 \in i .. Len(u) /\ Guarded(u, i, i + Len(v) - 1)
      /\ \A k \in 1 .. Len(v) : Low(u[i + k - 1]) = Low(v[k]) /\ (exact => u[i + k - 1] = v[k])
  BY StandsIs
<1>2. Len(u) \in Nat
  BY TextIs
<1>3. i + Len(w) - 1 <= Len(u) /\ Guarded(u, i, i + Len(w) - 1) /\ Len(w) \in Nat \ {0}
  BY <1>1, <1>2
<1>4. \A k \in 1 .. Len(w) : Low(u[i + k - 1]) = Low(w[k]) /\ (exact => u[i + k - 1] = w[k])
  BY <1>1
<1> QED BY <1>3, <1>4, StandsThere

\* Spans with the same value are short together.
LEMMA ShortTogether ==
  ASSUME Masking, NEW f \in spans, NEW s \in spans, SameValue(f, s), ~TooShort(asked.text, s.from, s.to)
  PROVE  ~TooShort(ValueOf(f), 1, Len(ValueOf(f)))
<1> SUFFICES ASSUME TooShort(ValueOf(f), 1, Len(ValueOf(f))) PROVE FALSE
  OBVIOUS
<1>1. PICK t \in Texts : t = asked.text /\ IsText(t)
  BY DEF Masking
<1>2. Len(ValueOf(f)) = 1 /\ ValueOf(f)[1] \in Short /\ Len(ValueOf(s)) = 1
  BY SameMeans DEF TooShort
<1>3. ASSUME NEW r \in spans, Len(ValueOf(r)) = 1
      PROVE  r.from \in DOMAIN t /\ r.to = r.from /\ ValueOf(r)[1] = t[r.from]
  <2>1. PICK a \in Int, b \in Int :
          /\ a = r.from /\ b = r.to /\ 1 = b + 1 - a /\ a \in 1 .. Len(t)
          /\ \A k \in 1 .. b + 1 - a : ValueOf(r)[k] = t[a + k - 1]
    <3>1. /\ r.from \in 1 .. Len(asked.text) /\ r.from \in Int /\ r.to \in Int /\ Len(ValueOf(r)) = r.to + 1 - r.from
          /\ \A k \in 1 .. r.to + 1 - r.from : ValueOf(r)[k] = asked.text[r.from + k - 1]
      BY MaskedSpan
    <3>2. 1 = r.to + 1 - r.from /\ r.from \in 1 .. Len(t)
      BY <1>1, <1>3, <3>1
    <3> QED BY <1>1, <3>1, <3>2
  <2>2. a = b /\ 1 \in 1 .. b + 1 - a /\ a + 1 - 1 = a
    <3>1. 1 = b + 1 - a
      BY <2>1
    <3> HIDE <2>1
    <3> QED BY <3>1
  <2>3. ValueOf(r)[1] = t[a] /\ a \in DOMAIN t
    BY <1>1, <2>1, <2>2, TextIs
  <2> QED BY <2>1, <2>2, <2>3
<1>4. PICK i \in DOMAIN t, j \in DOMAIN t :
        i = f.from /\ i = f.to /\ j = s.from /\ j = s.to /\ ValueOf(f)[1] = t[i] /\ ValueOf(s)[1] = t[j]
  BY <1>2, <1>3
<1>5. TooShort(t, i, i) /\ ~TooShort(t, j, j)
  BY <1>1, <1>2, <1>4 DEF TooShort
<1>6. CASE f.label \in CaseSensitive
  <2>1. t[i] = t[j]
    BY <1>4, <1>6 DEF SameValue
  <2> QED BY <1>5, <2>1 DEF TooShort
<1>7. CASE f.label \notin CaseSensitive
  <2>1. Folded(t, i, i) = Folded(t, j, j)
    BY <1>1, <1>4, <1>7 DEF SameValue
  <2> QED BY <1>5, <2>1, ShortAssumption
<1> QED BY <1>6, <1>7

\* No value that was found can be read in what is answered.
LEMMA NoValueIsLeft == Spec => []NoValueLeft
<1>1. ServedInv /\ RedactedInv /\ GoneInv => NoValueLeft
  <2> SUFFICES ASSUME ServedInv, RedactedInv, GoneInv, Served, Unjoined, NEW s \in spans,
                      ~TooShort(asked.text, s.from, s.to), NEW i \in DOMAIN out,
                      NEW exact, exact = (s.label \in CaseSensitive), StandsAt(out, i, ValueOf(s), exact)
               PROVE  FALSE
    BY Zenon DEF NoValueLeft, Unjoined, Joint
  <2>1. Masking
    BY MaskingThere DEF Sought, Served
  <2>2. names = NamesOf /\ IsText(out) /\ i \in 1 .. Len(out)
    <3>1. names = NamesOf /\ IsText(out)
      BY DEF RedactedInv, Redacting, Spells
    <3> QED BY <3>1, TextIs
  <2>3. PICK f \in Firsts : SameValue(f, s) /\ f \in spans
    BY <2>1, NamesAre
  <2>4. PICK p \in DOMAIN names : names[p].value = ValueOf(f) /\ names[p].label = f.label
    <3>1. PlaceholderOf(f) \in DOMAIN NamesOf /\ NamesOf[PlaceholderOf(f)] = [value |-> ValueOf(f), label |-> f.label]
      BY <2>1, NamesAre
    <3> QED BY <2>2, <3>1
  <2>5. f.label = s.label
    BY <2>3 DEF SameValue
  <2>6. p \in Swept(exact)
    <3>1. ~TooShort(ValueOf(f), 1, Len(ValueOf(f)))
      BY <2>1, <2>3, ShortTogether
    <3> QED BY <2>4, <2>5, <3>1 DEF Swept
  <2>7. exact \in BOOLEAN
    OBVIOUS
  <2>8. Gone(exact)
    BY <2>7 DEF GoneInv
  <2>9. ~StandsAt(out, i, ValueOf(f), exact)
    BY <2>2, <2>4, <2>6, <2>8 DEF Gone
  <2>10. StandsAt(out, i, ValueOf(f), exact)
    <3>1. PICK v, w : v = ValueOf(s) /\ w = ValueOf(f)
      OBVIOUS
    <3>2. /\ IsText(v) /\ Len(v) \in Nat \ {0} /\ IsText(w) /\ StandsAt(out, i, v, exact)
      BY <2>1, <2>3, <3>1, MaskedSpan
    <3>3. Len(w) = Len(v) /\ \A k \in 1 .. Len(v) : Low(w[k]) = Low(v[k]) /\ (exact => w[k] = v[k])
      BY <2>1, <2>3, <3>1, SameMeans
    <3>4. StandsAt(out, i, w, exact)
      BY <2>2, <3>2, <3>3, StandsToo
    <3> QED BY <3>1, <3>4
  <2> QED BY <2>9, <2>10
<1> QED BY <1>1, Serving, Redacts, Clears, PTL

-----------------------------------------------------------------------------
(* What repeats were sought of *)

\* Every place where what repeats were sought of stands as a word of its own
\* is found: in the span it was sought of, or as a repeat; and the merge keeps
\* what it is given.
LEMMA RepeatsFound ==
  ASSUME NEW t, IsText(t), NEW grown \in SUBSET SpansOf(Len(t)), NEW S, S = Merged(WithRepeats(t, grown, Sources(t, grown))),
         NEW q \in Sources(t, grown), NEW k \in 1 .. Len(t), Occurs(t, k, Folded(t, q[1][1], q[1][2]))
  PROVE  \E r \in S : k \in r.from .. r.to
<1> DEFINE sources == Sources(t, grown)
           all == WithRepeats(t, grown, sources)
           same == {r \in sources : Folded(t, r[1][1], r[1][2]) = Folded(t, q[1][1], q[1][2])}
           froms == {r[2].from : r \in same}
<1>1. Len(t) \in Nat /\ DOMAIN t = 1 .. Len(t)
  BY TextIs
<1>2. \A r \in sources : /\ r[2] \in grown /\ r[2].from \in 1 .. Len(t) /\ r[2].to \in 1 .. Len(t)
                          /\ r[1][1] \in 1 .. Len(t) /\ r[1][2] \in 1 .. Len(t) /\ r[1][1] <= r[1][2]
  BY <1>1, SourcesTyped
<1>3. PICK f \in same : \A r \in same : f[2].from <= r[2].from
  <2>1. froms \in SUBSET Nat /\ froms # {}
    <3>1. q \in same
      OBVIOUS
    <3>2. \A r \in same : r[2].from \in Nat
      BY <1>1, <1>2
    <3> HIDE DEF same
    <3> QED BY <3>1, <3>2
  <2>2. Min(froms) \in froms /\ \A y \in froms : Min(froms) <= y
    <3> HIDE DEF froms
    <3> QED BY <2>1, MinIsLeast
  <2> HIDE DEF same
  <2> QED BY <2>2
<1>4. f \in FirstOf(t, sources) /\ f \in sources /\ Folded(t, f[1][1], f[1][2]) = Folded(t, q[1][1], q[1][2])
  <2>1. f \in sources /\ Folded(t, f[1][1], f[1][2]) = Folded(t, q[1][1], q[1][2])
    OBVIOUS
  <2>2. \A r \in sources : Folded(t, r[1][1], r[1][2]) = Folded(t, f[1][1], f[1][2]) => f[2].from <= r[2].from
    BY <1>3, <2>1
  <2> QED BY <2>1, <2>2 DEF FirstOf
<1> HIDE DEF same, froms
<1>5. all \in SUBSET SpansOf(Len(t)) /\ grown \subseteq all
  BY RepeatsTyped
<1>6. PICK s \in all : k \in s.from .. s.to
  <2>1. CASE k \in f[2].from .. f[2].to
    BY <1>2, <1>4, <1>5, <2>1
  <2>2. CASE k \notin f[2].from .. f[2].to
    <3> DEFINE e == k + f[1][2] - f[1][1]
               x == Span(k, e, f[2].label, f[2].conf)
    <3>1. x \in all
      <4>1. k \in {i \in DOMAIN t : Occurs(t, i, Folded(t, f[1][1], f[1][2])) /\ i \notin f[2].from .. f[2].to}
        BY <1>1, <1>4, <2>2
      <4> QED BY <1>4, <4>1 DEF WithRepeats
    <3>2. k \in k .. e
      BY <1>1, <1>2, <1>4
    <3>3. x.from = k /\ x.to = e
      BY DEF Span
    <3> HIDE DEF x, e, all
    <3> QED BY <3>1, <3>2, <3>3
  <2> QED BY <2>1, <2>2
<1> HIDE DEF all
<1>7. S = Merged(all)
  BY DEF all, sources
<1>8. PICK r \in S : Holds(r, s)
  BY <1>1, <1>5, <1>7, MergedHolds
<1>9. s.from \in Int /\ s.to \in Int /\ r.from \in Int /\ r.to \in Int
  <2>1. S \in SUBSET SpansOf(Len(t))
    BY <1>1, <1>5, <1>7, MergedTyped
  <2>2. s.from \in 1 .. Len(t) /\ s.to \in 1 .. Len(t) /\ r.from \in 1 .. Len(t) /\ r.to \in 1 .. Len(t)
    BY <1>1, <1>5, <2>1, SpansOfIs
  <2> QED BY <1>1, <2>2
<1>10. r.from <= s.from /\ s.to <= r.to
  BY <1>8 DEF Holds
<1> QED BY <1>1, <1>6, <1>9, <1>10

\* What repeats were sought of is masked wherever it stands as a word.
SearchedInv ==
  phase \in Sought => \A p \in searched :
    /\ p[1] \in 1 .. Len(asked.text) /\ p[2] \in 1 .. Len(asked.text) /\ p[1] <= p[2]
    /\ \A k \in 1 .. Len(asked.text) : Occurs(asked.text, k, Folded(asked.text, p[1], p[2])) => k \in Hidden

LEMMA AssembleSearched == ASSUME ServedInv, Assemble PROVE SearchedInv'
<1> DEFINE t == asked.text
<1>1. phase = "floor" /\ asked' = asked /\ spans \in SUBSET SpansOf(Len(t))
  BY DEF Assemble, ServedInv, Busy
<1>2. IsText(t) /\ Len(t) \in Nat /\ DOMAIN t = 1 .. Len(t)
  BY <1>1, AskedIs, TextIs DEF Busy
<1>3. PICK toks, grown : /\ toks = Tokens(t, 1, Len(t)) /\ grown = GrownNames(t, toks, spans)
                         /\ spans' = Merged(WithRepeats(t, grown, Sources(t, grown)))
                         /\ searched' = {q[1] : q \in Sources(t, grown)}
  BY DEF Assemble
<1> HIDE DEF t
<1>4. grown \in SUBSET SpansOf(Len(t))
  BY <1>1, <1>2, <1>3, AssembledHolds
<1>5. ASSUME NEW p \in searched'
      PROVE  /\ p[1] \in 1 .. Len(t) /\ p[2] \in 1 .. Len(t) /\ p[1] <= p[2]
             /\ \A k \in 1 .. Len(t) : Occurs(t, k, Folded(t, p[1], p[2])) => k \in Hidden'
  <2>1. PICK q \in Sources(t, grown) : p = q[1]
    BY <1>3
  <2>2. p[1] \in 1 .. Len(t) /\ p[2] \in 1 .. Len(t) /\ p[1] <= p[2]
    BY <1>2, <1>4, <2>1, SourcesTyped
  <2>3. ASSUME NEW k \in 1 .. Len(t), Occurs(t, k, Folded(t, p[1], p[2])) PROVE k \in Hidden'
    <3>1. \E r \in spans' : k \in r.from .. r.to
      BY <1>2, <1>3, <1>4, <2>1, <2>3, RepeatsFound
    <3> QED BY <1>1, <3>1 DEF Hidden, t
  <2> QED BY <2>2, <2>3
<1> QED BY <1>1, <1>5 DEF SearchedInv, t

LEMMA Searches == Spec => []SearchedInv
<1>1. Init => SearchedInv
  BY DEF Init, GateInit, SearchedInv, Sought
<1>2. ServedInv /\ SearchedInv /\ [Next]_vars => SearchedInv'
  <2> SUFFICES ASSUME ServedInv, SearchedInv, [Next]_vars PROVE SearchedInv'
    OBVIOUS
  <2>1. ASSUME asked' = asked, spans' = spans, searched' = searched, phase' \in Sought => phase \in Sought PROVE SearchedInv'
    <3>1. Hidden' = Hidden
      BY <2>1, SameNames
    <3> QED BY <2>1, <3>1 DEF SearchedInv
  <2>2. CASE UNCHANGED gateVars \/ \E host, token : Start(host, token)
    BY <2>1, <2>2 DEF gateVars, Start
  <2>3. ASSUME NEW header, NEW request, Refuse(header, request) \/ Receive(header, request) PROVE SearchedInv'
    BY <2>3 DEF Refuse, Receive, SearchedInv, Sought
  <2>4. CASE ScanFloor \/ AskModel \/ Respond
    BY <2>4 DEF ScanFloor, AskModel, Respond, SearchedInv, Sought
  <2>5. CASE Assemble
    BY <2>5, AssembleSearched
  <2>6. CASE Substitute \/ SweepExact \/ SweepFolded
    BY <2>1, <2>6 DEF Substitute, SweepExact, SweepFolded, Sought
  <2>7. (\E t \in LocalTexts : Open(t)) \/ BrowserScan \/ ApplianceScan \/ Close => UNCHANGED gateVars
    BY DEF Open, BrowserScan, ApplianceScan, Close
  <2>8. CASE GateNext
    BY <2>2, <2>3, <2>4, <2>5, <2>6, <2>8 DEF GateNext
  <2> QED BY <2>2, <2>7, <2>8 DEF Next, vars
<1> QED BY <1>1, <1>2, Serving, PTL DEF Spec

\* A word is one in either case.
LEMMA FoldedWord ==
  ASSUME NEW u, NEW w, NEW i \in DOMAIN u, NEW j \in DOMAIN w, Low(u[i]) = Low(w[j]), WordAt(w, j)
  PROVE  WordAt(u, i)
<1>1. CASE u[i] \in DOMAIN Lower
  BY <1>1 DEF WordAt, LetterAt
<1>2. CASE u[i] \notin DOMAIN Lower /\ w[j] \in DOMAIN Lower
  BY <1>2, LowerAssumption DEF Low
<1>3. CASE u[i] \notin DOMAIN Lower /\ w[j] \notin DOMAIN Lower
  <2>1. u[i] = w[j]
    BY <1>3 DEF Low
  <2> QED BY <2>1, SameWord
<1> QED BY <1>1, <1>2, <1>3

\* A word that can be read in the answer stood there in the text, as a word, and
\* nothing of it was masked.
LEMMA ReadBefore ==
  ASSUME NEW m, NEW t, IsText(t), Maps(m, t), NEW kept, NEW hid, NEW seams, Sewn(seams, t, m),
         \A x \in seams : ~InWord(t, x),
         NEW u, Spells(u, m, t, kept, hid, seams, Len(t)),
         NEW a \in 1 .. Len(t), NEW b \in a .. Len(t), WordAt(t, a), WordAt(t, b),
         NEW i \in DOMAIN u, Occurs(u, i, Folded(t, a, b))
  PROVE  \E c \in 1 .. Len(t) : Occurs(t, c, Folded(t, a, b)) /\ c \notin hid
<1> DEFINE f == Folded(t, a, b)
           l == b + 1 - a
           n == Len(u)
           j == i + l - 1
<1>1. IsText(u) /\ n \in Nat /\ DOMAIN u = 1 .. n /\ Len(t) \in Nat /\ DOMAIN t = 1 .. Len(t)
  BY TextIs DEF Spells
<1>2. a \in Int /\ b \in Int /\ l \in Nat \ {0} /\ a \in 1 .. Len(t) + 1 /\ b \in a - 1 .. Len(t) /\ i \in 1 .. n /\ a + l - 1 = b
  BY <1>1
<1>3. PICK cut : CutAt(u, m, t, kept, hid, seams, cut) /\ cut[n] = Len(t)
  BY DEF Spells
<1>4. Len(f) = l /\ DOMAIN f = 1 .. l /\ f = [k \in 1 .. l |-> Low(t[a + k - 1])]
  BY <1>2, FoldedLow
<1>5. i + Len(f) - 1 <= Len(u) /\ Folded(u, i, i + Len(f) - 1) = f /\ Apart(u, i, i + Len(f) - 1)
  BY DEF Occurs
<1> HIDE DEF f, l, n
<1>6. j \in i .. n /\ j \in 1 .. n /\ i \in 1 .. n + 1 /\ j \in i - 1 .. n /\ j + 1 - i = l /\ Folded(u, i, j) = f /\ Apart(u, i, j)
  BY <1>1, <1>2, <1>4, <1>5 DEF n
<1>7. \A k \in 1 .. l : i + k - 1 \in 1 .. n /\ a + k - 1 \in 1 .. Len(t) /\ Low(u[i + k - 1]) = Low(t[a + k - 1])
  <2>1. f = [k \in 1 .. j + 1 - i |-> Low(u[i + k - 1])]
    BY <1>1, <1>6, FoldedLow DEF n
  <2>2. \A k \in 1 .. l : f[k] = Low(u[i + k - 1]) /\ f[k] = Low(t[a + k - 1])
    BY <1>4, <1>6, <2>1
  <2>3. \A k \in 1 .. l : i + k - 1 \in 1 .. n /\ a + k - 1 \in 1 .. Len(t)
    BY <1>1, <1>2, <1>6
  <2> QED BY <2>2, <2>3
<1>8. ASSUME NEW k \in 1 .. l PROVE u[i + k - 1] \notin DOMAIN m
  <2>1. t[a + k - 1] \in ToSet(t)
    BY <1>1, <1>7 DEF ToSet
  <2>2. ASSUME u[i + k - 1] \in DOMAIN m PROVE FALSE
    <3> DEFINE q == u[i + k - 1]
    <3>1. Foreign(q, t)
      BY <2>2 DEF Maps
    <3>2. Low(q) = q
      BY <3>1 DEF Foreign, Low
    <3> QED BY <1>7, <2>1, <3>1, <3>2 DEF Foreign
  <2> QED BY <2>2
<1> HIDE DEF j
<1> DEFINE c == cut[i - 1]
<1>9. /\ c \in Nat /\ \A k \in 0 .. l : cut[(i - 1) + k] = c + k
      /\ \A k \in 1 .. l : c + k \in 1 .. Len(t) /\ u[i + k - 1] = t[c + k] /\ c + k \notin hid
  <2>1. n = Len(u) /\ n \in Nat /\ l \in Nat
    BY <1>1, <1>2 DEF n
  <2>2. PlainRun(u, m, i, l)
    BY <1>7, <1>8, <2>1 DEF PlainRun
  <2>3. CutAt(u, m, t, kept, hid, seams, cut) /\ i \in 1 .. n
    BY <1>2, <1>3
  <2>4. RunCut(t, kept, hid, u, cut, i, l)
    BY <2>1, <2>2, <2>3, RunStandsFor
  <2> QED BY <2>4 DEF RunCut, c
<1>10. 1 \in 1 .. l /\ l \in 1 .. l /\ l \in 0 .. l /\ i + 1 - 1 = i /\ i + l - 1 = j /\ (i - 1) + l = j /\ a + 1 - 1 = a
  BY <1>2 DEF j
<1>11. u[i] = t[c + 1] /\ u[j] = t[c + l] /\ u[i] \notin DOMAIN m /\ u[j] \notin DOMAIN m /\ cut[j] = c + l
  BY <1>8, <1>9, <1>10
<1>12. c \in seams /\ cut[j] \in seams
  <2>1. (WordAt(u, i) => ~WordAt(u, i - 1)) /\ (WordAt(u, j) => ~WordAt(u, j + 1))
    BY <1>6 DEF Apart
  <2>2. Len(u) \in Nat /\ cut[Len(u)] = Len(t) /\ i \in 1 .. Len(u) /\ j \in i .. Len(u)
    BY <1>1, <1>2, <1>3, <1>6 DEF n
  <2> QED BY <1>1, <1>3, <1>11, <2>1, <2>2, SeamsThere
<1> HIDE DEF c
<1>13. c + 1 \in 1 .. Len(t) /\ c + l \in 1 .. Len(t) /\ c + 1 \notin hid
  BY <1>9, <1>10
<1>14. WordAt(t, c + 1) /\ WordAt(t, c + l)
  <2>1. Low(t[c + 1]) = Low(t[a]) /\ Low(t[c + l]) = Low(t[b])
    BY <1>2, <1>7, <1>10, <1>11
  <2> QED BY <1>1, <1>13, <2>1, FoldedWord
<1>15. ~WordAt(t, c) /\ ~WordAt(t, c + l + 1)
  BY <1>11, <1>12, <1>14 DEF InWord
<1>16. Folded(t, c + 1, c + l) = f
  <2>1. c + 1 \in 1 .. Len(t) + 1 /\ c + l \in (c + 1) - 1 .. Len(t) /\ c + l + 1 - (c + 1) = l
    BY <1>1, <1>2, <1>9, <1>13
  <2>2. PICK x \in 1 .. Len(t) + 1, y \in Int : x = c + 1 /\ y = c + l /\ y + 1 - x = l /\ y \in x - 1 .. Len(t)
    BY <2>1
  <2>3. Folded(t, x, y) = [k \in 1 .. y + 1 - x |-> Low(t[x + k - 1])]
    BY <2>2, FoldedLow
  <2>4. c \in Nat /\ \A k \in 1 .. l : u[i + k - 1] = t[c + k] /\ Low(u[i + k - 1]) = Low(t[a + k - 1])
    BY <1>7, <1>9
  <2>5. \A k \in 1 .. l : x + k - 1 = c + k
    BY <2>2, <2>4
  <2>6. \A k \in 1 .. l : Low(t[x + k - 1]) = Low(t[a + k - 1])
    BY <2>4, <2>5
  <2>7. [k \in 1 .. l |-> Low(t[x + k - 1])] = [k \in 1 .. l |-> Low(t[a + k - 1])]
    BY <2>6
  <2> QED BY <1>4, <2>2, <2>3, <2>7
<1>17. c + 1 + Len(f) - 1 = c + l /\ (c + 1) - 1 = c
  BY <1>2, <1>4, <1>9
<1>18. Occurs(t, c + 1, f)
  <2>1. c + l <= Len(t)
    BY <1>1, <1>13
  <2>2. Apart(t, c + 1, c + l)
    BY <1>15, <1>17 DEF Apart
  <2> QED BY <1>16, <1>17, <2>1, <2>2 DEF Occurs
<1> QED BY <1>13, <1>18 DEF f

\* Nothing that repeats were sought of is left, as a word, in what is answered.
LEMMA NoNameIsLeft == Spec => []NoNameLeft
<1>1. ServedInv /\ RedactedInv /\ SearchedInv => NoNameLeft
  <2> DEFINE t == asked.text
  <2> SUFFICES ASSUME ServedInv, RedactedInv, SearchedInv, Served, AllWhole, NEW p \in searched,
                      WordAt(t, p[1]), WordAt(t, p[2]), NEW i \in DOMAIN out, Occurs(out, i, Folded(t, p[1], p[2]))
               PROVE  FALSE
    BY DEF NoNameLeft, AllWhole
  <2>1. phase \in Sought /\ Masking
    BY MaskingThere DEF Sought, Served
  <2>2. IsText(t) /\ Len(t) \in Nat /\ Maps(NamesOf, t) /\ Sewn(Seams, t, NamesOf)
    BY <2>1, NamesMap, SeamsAre, TextIs DEF Masking
  <2>3. Spells(out, NamesOf, t, Kept, Hidden, Seams, Len(t))
    BY DEF RedactedInv, Redacting
  <2>4. \A x \in Seams : ~InWord(t, x)
    BY DEF Seams
  <2> DEFINE a == p[1]
             b == p[2]
  <2>5. a \in 1 .. Len(t) /\ b \in a .. Len(t) /\ \A k \in 1 .. Len(t) : Occurs(t, k, Folded(t, a, b)) => k \in Hidden
    <3>1. /\ a \in 1 .. Len(t) /\ b \in 1 .. Len(t) /\ a <= b
          /\ \A k \in 1 .. Len(t) : Occurs(t, k, Folded(t, a, b)) => k \in Hidden
      BY <2>1 DEF SearchedInv
    <3>2. b \in a .. Len(t)
      BY <2>2, <3>1
    <3> QED BY <3>1, <3>2
  <2>6. WordAt(t, a) /\ WordAt(t, b) /\ Occurs(out, i, Folded(t, a, b))
    OBVIOUS
  <2> DEFINE kept == Kept
             hid == Hidden
             seams == Seams
             m == NamesOf
  <2>7. /\ IsText(t) /\ Maps(m, t) /\ Sewn(seams, t, m) /\ \A x \in seams : ~InWord(t, x)
        /\ Spells(out, m, t, kept, hid, seams, Len(t))
    BY <2>2, <2>3, <2>4
  <2> HIDE DEF kept, hid, seams, m, t, a, b
  <2>8. \E c \in 1 .. Len(t) : Occurs(t, c, Folded(t, a, b)) /\ c \notin hid
    BY <2>5, <2>6, <2>7, ReadBefore
  <2> QED BY <2>5, <2>8 DEF hid
<1> QED BY <1>1, Serving, Redacts, Searches, PTL

\* One hit is enough (NoRepeatLeft): whatever the texts and the tags of the model
\* are, neither a value that was found nor a word of a name, or what else repeats
\* were sought of, can be read anywhere in what is answered, beside a placeholder
\* or elsewhere (gate/privacy_gate.py: propagate_repeats, _sweep_known).
THEOREM NoneLeft == Spec => []NoRepeatLeft
BY NoValueIsLeft, NoNameIsLeft, PTL DEF NoRepeatLeft

-----------------------------------------------------------------------------
(* The port of the floor to the browser *)

\* A number that the port does not leave out.
KeptByPort(t, i, j) ==
  /\ Apart(t, i, j) /\ ~AtomIn(t, i - 1, {"."}) /\ ~AtomIn(t, j + 1, {"."})
  /\ Grouped(t, i, j, {" ", "-"}) /\ ~NumberBeside(t, i, j)

\* Where the browser's run may end.
BrowserEnds(t, i) == {j \in i .. Len(t) : Grouped(t, i, j, {" ", "-"}) /\ Apart(t, i, j) /\ Undotted(t, i, j)}

\* The browser takes it for a run of its own.
LEMMA PortRuns ==
  ASSUME NEW t, IsText(t), NEW i \in 1 .. Len(t), NEW j \in i .. Len(t), KeptByPort(t, i, j)
  PROVE  <<i, j>> \in Matches([k \in DOMAIN t |-> BrowserRunEnd(t, k)])
<1> DEFINE end == [k \in DOMAIN t |-> BrowserRunEnd(t, k)]
<1>1. Len(t) \in Nat /\ DOMAIN t = 1 .. Len(t) /\ i \in Int /\ j \in Int
  BY TextIs
<1>2. /\ DOMAIN end = DOMAIN t
      /\ \A k \in 1 .. Len(t) : end[k] = Longest(BrowserEnds(t, k))
  BY <1>1 DEF BrowserRunEnd, BrowserEnds
<1> HIDE DEF end
<1>3. \A k \in 1 .. Len(t) : BrowserEnds(t, k) \in SUBSET (k .. Len(t)) /\ BrowserEnds(t, k) \in SUBSET (1 .. Len(t))
  <2> TAKE k \in 1 .. Len(t)
  <2>1. BrowserEnds(t, k) \subseteq k .. Len(t)
    BY DEF BrowserEnds
  <2>2. k .. Len(t) \subseteq 1 .. Len(t)
    BY <1>1
  <2> QED BY <2>1, <2>2
<1>4. AreEnds(end, Len(t))
  BY <1>1, <1>2, <1>3, EndsAre
<1>5. ASSUME NEW k \in 1 .. Len(t)
      PROVE  \/ end[k] = 0 /\ BrowserEnds(t, k) = {}
             \/ end[k] \in BrowserEnds(t, k) /\ \A y \in BrowserEnds(t, k) : y <= end[k]
  BY <1>1, <1>2, <1>3, LongestIs
<1>6. ~DigitAt(t, i - 1) /\ ~DigitAt(t, j + 1) /\ j \in BrowserEnds(t, i)
  <2>1. ~DigitAt(t, i - 1) /\ ~DigitAt(t, j + 1)
    BY DEF KeptByPort, Apart, WordAt
  <2> QED BY <2>1 DEF KeptByPort, BrowserEnds, Undotted, NoDigitBeside
<1>7. ASSUME NEW e \in BrowserEnds(t, i), e > j PROVE FALSE
  <2>1. e \in i .. Len(t) /\ Grouped(t, i, e, {" ", "-"})
    BY <1>7 DEF BrowserEnds
  <2>2. j + 1 \in i .. e /\ j + 1 \in DOMAIN t
    <3>0. Len(t) \in Nat /\ i \in Int /\ j \in Int /\ i <= j
      BY <1>1
    <3>1. e \in Int /\ e <= Len(t) /\ i <= j
      <4>1. e \in i .. Len(t)
        BY <2>1
      <4> HIDE <1>1, <2>1
      <4> QED BY <3>0, <4>1
    <3>2. j + 1 \in i .. e /\ j + 1 \in 1 .. Len(t)
      BY <1>1, <1>7, <3>1
    <3> QED BY <1>1, <3>2
  <2>3. t[j + 1] \in {" ", "-"} /\ DigitAt(t, (j + 1) + 1)
    BY <1>6, <2>1, <2>2 DEF Grouped
  <2>4. (j + 1) + 1 = j + 2
    BY <1>1
  <2> QED BY <2>2, <2>3, <2>4 DEF KeptByPort, NumberBeside, AtomIn
<1>8. end[i] = j
  <2>1. end[i] \in BrowserEnds(t, i) /\ j <= end[i]
    BY <1>5, <1>6
  <2>2. end[i] \in Int
    BY <1>1, <1>3, <2>1
  <2> QED BY <1>1, <1>7, <2>1, <2>2
<1>9. ASSUME NEW a \in 1 .. i - 1 PROVE end[a] < i
  <2>1. a \in 1 .. Len(t) /\ a \in Int
    BY <1>1
  <2>2. end[a] \in Int
    BY <1>1, <1>4, <2>1 DEF AreEnds
  <2>3. ASSUME end[a] >= i PROVE FALSE
    <3>1. end[a] \in BrowserEnds(t, a)
      BY <1>1, <1>5, <2>1, <2>3
    <3>2. Grouped(t, a, end[a], {" ", "-"})
      BY <3>1 DEF BrowserEnds
    <3>3. i - 1 \in a .. end[a] /\ i - 1 \in DOMAIN t
      BY <1>1, <2>1, <2>2, <2>3
    <3>4. t[i - 1] \in {" ", "-"} /\ DigitAt(t, (i - 1) - 1)
      BY <1>6, <3>2, <3>3 DEF Grouped
    <3>5. (i - 1) - 1 = i - 2
      BY <1>1
    <3> QED BY <3>3, <3>4, <3>5 DEF KeptByPort, NumberBeside, AtomIn
  <2> QED BY <1>1, <2>2, <2>3
<1>10. <<i, end[i]>> \in Matches(end)
  <2>1. end[i] # 0
    BY <1>1, <1>8
  <2> QED BY <1>1, <1>4, <1>9, <2>1, MatchFound
<1> QED BY <1>8, <1>10 DEF end

LEMMA PortTakes ==
  ASSUME NEW t, IsText(t), NEW i \in 1 .. Len(t), NEW j \in i .. Len(t), KeptByPort(t, i, j),
         ~DateShaped(t, i, j), Count(t, i, j) \in {9, 15, 16}, Count(t, i, j) = 9 => ~Business(t, i, j)
  PROVE  \E s \in BrowserDigitRuns(t) : s = Span(i, j, s.label, s.conf) /\ s.label \in Numbers
<1> DEFINE runs == Matches([k \in DOMAIN t |-> BrowserRunEnd(t, k)])
           dates == {m \in runs : DateShaped(t, m[1], m[2])}
           free == {n \in runs \ dates : Len(DigitsOf(t, n[1], n[2])) \in 7 .. 19 /\ ~BrowserOwned(t, n[1], n[2])}
<1>1. ~BrowserOwned(t, i, j) /\ Len(DigitsOf(t, i, j)) \in 7 .. 19
  BY DEF BrowserOwned, Count
<1>2. <<i, j>> \in free
  <2>1. <<i, j>> \in runs
    BY PortRuns
  <2> HIDE DEF runs
  <2> QED BY <1>1, <2>1
<1>3. Numbered(t, i, j) \in {Numbered(t, m[1], m[2]) : m \in free}
  <2> HIDE DEF free
  <2> QED BY <1>2
<1>4. Numbered(t, i, j) \in BrowserDigitRuns(t)
  BY <1>3 DEF BrowserDigitRuns
<1>5. /\ Numbered(t, i, j) = Span(i, j, Numbered(t, i, j).label, Numbered(t, i, j).conf)
      /\ Numbered(t, i, j).label \in Numbers
  <2>1. CASE Len(DigitsOf(t, i, j)) = 9
    BY <2>1 DEF Numbered, Span, Numbers
  <2>2. CASE Len(DigitsOf(t, i, j)) \in {15, 16}
    BY <2>2 DEF Numbered, Span, Numbers
  <2> QED BY <2>1, <2>2 DEF Count
<1> QED BY <1>4, <1>5

\* A date has fewer digits than a card.
LEMMA DashedIsShort ==
  ASSUME NEW t, NEW i \in Int, NEW j \in Int, i <= j, DashedDate(t, i, j)
  PROVE  Count(t, i, j) <= 8
<1> DEFINE cuts == Cuts(t, i, j)
           n == Count(t, i, j)
           a == Min(cuts)
           b == Max(cuts)
<1>1. Cardinality(cuts) = 2
  BY DEF DashedDate
<1>2. \/ a = 4 /\ b - a \in {1, 2} /\ n - b \in {1, 2}
      \/ a - 0 \in {1, 2} /\ b - a \in {1, 2} /\ n = b + 4
  BY DEF DashedDate, Count
<1>3. n \in Nat
  <2>1. i <= j + 1 /\ j <= j
    OBVIOUS
  <2> QED BY <2>1, CountSplit
<1>4. cuts \in SUBSET (0 .. n)
  <2>1. ASSUME NEW l \in i .. j PROVE Count(t, i, l) \in 0 .. n
    <3>1. l \in Int /\ i <= l + 1 /\ l <= j
      OBVIOUS
    <3>2. Count(t, i, l) \in Nat /\ Count(t, l + 1, j) \in Nat /\ n = Count(t, i, l) + Count(t, l + 1, j)
      BY <3>1, CountSplit
    <3> HIDE DEF n
    <3> QED BY <3>2
  <2> HIDE DEF n
  <2> QED BY <2>1 DEF Cuts, Count
<1> HIDE DEF n, cuts
<1>5. cuts # {}
  <2>1. Cardinality({}) = 0
    BY FS_EmptySet
  <2> QED BY <1>1, <2>1
<1>6. a \in cuts /\ b \in cuts
  <2>1. cuts \in SUBSET Nat
    BY <1>3, <1>4
  <2> QED BY <1>3, <1>4, <1>5, <2>1, MinIsLeast, MaxIsLargest
<1>7. a \in Int /\ b \in Int
  <2> HIDE DEF a, b
  <2>1. 0 .. n \subseteq Int
    OBVIOUS
  <2> QED BY <1>4, <1>6, <2>1
<1> HIDE DEF a, b
<1> QED BY <1>2, <1>3, <1>7 DEF n

LEMMA DateIsShort ==
  ASSUME NEW t, NEW i \in Int, NEW j \in Int, i <= j, DateShaped(t, i, j)
  PROVE  Count(t, i, j) <= 10
<1>1. CASE DashedDate(t, i, j)
  <2>1. Count(t, i, j) \in Nat
    <3>1. i <= j + 1 /\ j <= j
      OBVIOUS
    <3> QED BY <3>1, CountSplit
  <2> QED BY <1>1, <2>1, DashedIsShort
<1>2. ASSUME NEW k \in i + 1 .. j - 1, t[k] = " ", DashedDate(t, i, k - 1), Len(DigitsOf(t, k + 1, j)) \in {1, 2}
      PROVE  Count(t, i, j) <= 10
  <2>1. k \in Int /\ k - 1 \in Int /\ i <= k - 1 /\ i <= (k - 1) + 1 /\ k - 1 <= j /\ (k - 1) + 1 = k /\ k <= k + 1 /\ k <= j
    OBVIOUS
  <2>2. Count(t, i, k - 1) \in Nat /\ Count(t, i, j) = Count(t, i, k - 1) + Count(t, k, j)
    BY <2>1, CountSplit
  <2>3. Count(t, k, j) = Count(t, k, k) + Count(t, k + 1, j)
    BY <2>1, CountSplit
  <2>4. Count(t, k, k) = 0
    <3>1. DigitsOf(t, k, k - 1) = <<>> /\ DigitsOf(t, k, (k - 1) + 1) = DigitsOf(t, k, k - 1) \o Piece(t, (k - 1) + 1)
      <4> DEFINE h == k - 1
      <4>1. h \in Int /\ k \in Int /\ k <= h + 1
        BY <2>1
      <4> HIDE DEF h
      <4>2. DigitsOf(t, k, k - 1) = <<>> /\ DigitsOf(t, k, h + 1) = DigitsOf(t, k, h) \o Piece(t, h + 1)
        BY <4>1, DigitsGrow
      <4> QED BY <4>2 DEF h
    <3>2. Piece(t, k) = <<>>
      BY <1>2, SpaceAssumption DEF Piece, DigitAt
    <3>3. DigitsOf(t, k, k) = <<>>
      BY <2>1, <3>1, <3>2
    <3> QED BY <3>3 DEF Count
  <2>5. Count(t, k + 1, j) \in {1, 2}
    BY <1>2 DEF Count
  <2>6. Count(t, i, k - 1) <= 8
    BY <1>2, <2>1, DashedIsShort
  <2> QED BY <2>2, <2>3, <2>4, <2>5, <2>6
<1>3. CASE Len(DigitsOf(t, i, j)) = 8
  BY <1>3 DEF Count
<1>4. \/ DashedDate(t, i, j)
      \/ \E k \in i + 1 .. j - 1 : t[k] = " " /\ DashedDate(t, i, k - 1) /\ Len(DigitsOf(t, k + 1, j)) \in {1, 2}
      \/ Len(DigitsOf(t, i, j)) = 8
  <2> DEFINE A == Number(SubSeq(DigitsOf(t, i, j), 1, 4)) \in 1900 .. 2099
             B == Number(SubSeq(DigitsOf(t, i, j), 5, 6)) \in 1 .. 12
             C == Number(SubSeq(DigitsOf(t, i, j), 7, 8)) \in 1 .. 31
             D(k) == Len(DigitsOf(t, k + 1, j)) \in {1, 2}
             I == i + 1 .. j - 1
  <2>1. \/ DashedDate(t, i, j)
        \/ \E k \in I : /\ t[k] = " " /\ DashedDate(t, i, k - 1) /\ Min(Cuts(t, i, j)) = 4
                        /\ Grouped(t, k + 1, j, {}) /\ D(k)
        \/ /\ Grouped(t, i, j, {}) /\ Len(DigitsOf(t, i, j)) = 8 /\ A
           /\ B /\ C
    BY DEF DateShaped
  <2> HIDE DEF A, B, C, D, I
  <2>2. \/ DashedDate(t, i, j)
        \/ \E k \in I : t[k] = " " /\ DashedDate(t, i, k - 1) /\ D(k)
        \/ Len(DigitsOf(t, i, j)) = 8
    BY <2>1, Zenon
  <2> QED BY <2>2 DEF D, I
<1> QED BY <1>1, <1>2, <1>3, <1>4

\* The numbers of the floor that are runs of digits, or cards glued to a word.
LEMMA RunIs ==
  ASSUME NEW t, IsText(t), NEW s \in DigitRuns(t), s.label \in Numbers
  PROVE  /\ s.from \in 1 .. Len(t) /\ s.to \in s.from .. Len(t) /\ Count(t, s.from, s.to) \in {9, 15, 16}
         /\ ~DateShaped(t, s.from, s.to) /\ ~Owned(t, s.from, s.to)
<1> DEFINE end == [k \in DOMAIN t |-> DigitRunEnd(t, k)]
<1>1. \A k \in DOMAIN t : \E C \in SUBSET (k .. Len(t)) : end[k] = Longest(C)
  BY DEF DigitRunEnd
<1>2. DOMAIN end = DOMAIN t
  OBVIOUS
<1>3. ASSUME NEW m, s = Dated(t, m[1], m[2]) PROVE FALSE
  BY <1>3 DEF Dated, Span, Numbers
<1>4. \E m \in Matches(end) : /\ s = Numbered(t, m[1], m[2]) /\ ~DateShaped(t, m[1], m[2]) /\ ~Owned(t, m[1], m[2])
  BY <1>3 DEF DigitRuns
<1> HIDE DEF end
<1>5. PICK m \in Matches(end) : /\ s = Numbered(t, m[1], m[2]) /\ ~DateShaped(t, m[1], m[2]) /\ ~Owned(t, m[1], m[2])
  BY <1>4
<1>6. s.from = m[1] /\ s.to = m[2] /\ Count(t, m[1], m[2]) \in {9, 15, 16}
  BY <1>5 DEF Numbered, Span, Numbers, Count
<1>7. m[1] \in 1 .. Len(t) /\ m[2] \in m[1] .. Len(t)
  <2>1. AreEnds(end, Len(t)) /\ Len(t) \in Nat
    BY <1>1, <1>2, EndsAre
  <2> QED BY <2>1, MatchesAre
<1> QED BY <1>5, <1>6, <1>7

LEMMA GluedIs ==
  ASSUME NEW t, IsText(t), NEW s \in GluedChecksums(t), s.label \in Numbers
  PROVE  s.from \in 1 .. Len(t) /\ s.to \in s.from .. Len(t) /\ Count(t, s.from, s.to) \in {15, 16}
<1> DEFINE end == [k \in DOMAIN t |-> GluedCardEnd(t, k)]
<1>1. \A k \in DOMAIN t : \E C \in SUBSET (k .. Len(t)) : end[k] = Longest(C)
  BY DEF GluedCardEnd
<1>2. DOMAIN end = DOMAIN t
  OBVIOUS
<1>3. ASSUME NEW i, s = Span(i, i, "iban", 99) PROVE FALSE
  BY <1>3 DEF Span, Numbers
<1>4. \E m \in Matches(end) : s = Span(m[1], m[2], "payment_card", 95) /\ Len(DigitsOf(t, m[1], m[2])) \in {15, 16}
  BY <1>3 DEF GluedChecksums
<1> HIDE DEF end
<1>5. PICK m \in Matches(end) : s = Span(m[1], m[2], "payment_card", 95) /\ Len(DigitsOf(t, m[1], m[2])) \in {15, 16}
  BY <1>4
<1>6. s.from = m[1] /\ s.to = m[2]
  BY <1>5 DEF Span
<1>7. m[1] \in 1 .. Len(t) /\ m[2] \in m[1] .. Len(t)
  <2>1. AreEnds(end, Len(t)) /\ Len(t) \in Nat
    BY <1>1, <1>2, EndsAre
  <2> QED BY <2>1, MatchesAre
<1> QED BY <1>5, <1>6, <1>7 DEF Count

LEMMA KeptIs ==
  ASSUME NEW t, NEW s \in DigitRuns(t) \cup GluedChecksums(t), ~LeftOutByPort(t, s)
  PROVE  KeptByPort(t, s.from, s.to)
BY Zenon DEF LeftOutByPort, KeptByPort

\* The other rules are the port's as well.
LEMMA RulesShared ==
  ASSUME NEW u, NormSeps(u) = u, NEW s \in ScanOnce(u), s.label \in Numbers
  PROVE  s \in DigitRuns(u) \cup GluedChecksums(u) \cup GluedDigits(u) \cup SeparatedCards(u)
               \cup CardAuxSpans(u) \cup CueDigitSpans(u)
<1> DEFINE plain == {"email", "ip_address", "postal_code", "uuid", "iban"}
<1>1. ASSUME s \in Shaped(u, plain) PROVE FALSE
  BY <1>1 DEF Shaped, Span, Numbers
<1>2. ASSUME NEW i, NEW j, NEW c, NEW l \in {"phone_number", "sensitive_account_id", "postal_code", "person"}, s = Span(i, j, l, c)
      PROVE  FALSE
  BY <1>2 DEF Span, Numbers
<1>3. ASSUME s \in {Span(p[1], p[2], "phone_number", 85) : p \in Phones(u)} PROVE FALSE
  BY <1>2, <1>3
<1>4. ASSUME s \in Dates(u) PROVE FALSE
  BY <1>4 DEF Dates, Dated, Span, Numbers
<1>5. ASSUME s \in ContextCued(u) PROVE FALSE
  BY <1>2, <1>5 DEF ContextCued
<1>6. ASSUME s \in UsZipSpans(u) PROVE FALSE
  BY <1>6 DEF UsZipSpans, Span, Numbers
<1>7. ASSUME s \in CueNameSpans(u) PROVE FALSE
  BY <1>2, <1>7 DEF CueNameSpans
<1> QED BY <1>1, <1>3, <1>4, <1>5, <1>6, <1>7 DEF ScanOnce

LEMMA PortFinds ==
  ASSUME NEW u, IsText(u), NormSeps(u) = u, NEW s \in ScanOnce(u), s.label \in Numbers, ~LeftOutByPort(u, s),
         NEW x, BrowserNormSeps(x) = u
  PROVE  /\ s.from \in 1 .. Len(u) /\ s.to \in s.from .. Len(u)
         /\ \E r \in BrowserScanOnce(x) : r = Span(s.from, s.to, r.label, r.conf) /\ r.label \in Numbers
<1>1. CASE s \in GluedDigits(u) \cup SeparatedCards(u) \cup CardAuxSpans(u) \cup CueDigitSpans(u)
  <2>1. s \in SpansOf(Len(u)) /\ Len(u) \in Nat
    BY <1>1, GluedTyped, CardAuxTyped, CueDigitsTyped, TextIs
  <2>2. s \in BrowserScanOnce(x)
    BY <1>1 DEF BrowserScanOnce, BrowserGluedDigits, BrowserSeparatedCards, BrowserCardAux, BrowserCueDigits
  <2> QED BY <2>1, <2>2, SpansOfIs
<1>2. CASE s \in DigitRuns(u) \cup GluedChecksums(u)
  <2>1. /\ s.from \in 1 .. Len(u) /\ s.to \in s.from .. Len(u) /\ Count(u, s.from, s.to) \in {9, 15, 16}
        /\ ~DateShaped(u, s.from, s.to)
        /\ Count(u, s.from, s.to) = 9 => ~Business(u, s.from, s.to)
    <3>1. CASE s \in DigitRuns(u)
      BY <3>1, RunIs DEF Owned, Count
    <3>2. CASE s \in GluedChecksums(u)
      <4>1. s.from \in 1 .. Len(u) /\ s.to \in s.from .. Len(u) /\ Count(u, s.from, s.to) \in {15, 16}
        BY <3>2, GluedIs
      <4>2. Len(u) \in Nat
        BY TextIs
      <4>3. s.from \in Int /\ s.to \in Int /\ s.from <= s.to
        BY <4>1, <4>2
      <4>4. ~DateShaped(u, s.from, s.to)
        BY <4>1, <4>3, DateIsShort
      <4> QED BY <4>1, <4>4
    <3> QED BY <1>2, <3>1, <3>2
  <2>2. KeptByPort(u, s.from, s.to)
    BY <1>2, KeptIs
  <2>3. PICK r \in BrowserDigitRuns(u) : r = Span(s.from, s.to, r.label, r.conf) /\ r.label \in Numbers
    BY <2>1, <2>2, PortTakes
  <2>4. r \in BrowserScanOnce(x)
    BY <2>3 DEF BrowserScanOnce
  <2> QED BY <2>1, <2>3, <2>4
<1> QED BY <1>1, <1>2, RulesShared

\* Atoms that both know are the same to both.
LEMMA SameNorm ==
  ASSUME NEW x, IsText(x), \A k \in 1 .. Len(x) : KnownToBoth(x[k])
  PROVE  /\ BrowserNormSeps(x) = NormSeps(x) /\ NormSeps(NormSeps(x)) = NormSeps(x)
         /\ IsText(NormSeps(x)) /\ Len(NormSeps(x)) = Len(x)
<1> DEFINE form(a) == IF a \in DOMAIN AsciiForm THEN AsciiForm[a] ELSE a
           theirs(a) == IF a \in DOMAIN BrowserForm THEN BrowserForm[a] ELSE a
           y == NormSeps(x)
<1>1. Len(x) \in Nat /\ DOMAIN x = 1 .. Len(x)
  BY TextIs
<1>2. [i \in DOMAIN x |-> form(x[i])] = [i \in DOMAIN x |-> theirs(x[i])]
  <2>1. \A i \in DOMAIN x : form(x[i]) = theirs(x[i])
    BY <1>1 DEF KnownToBoth
  <2> HIDE DEF form, theirs
  <2> QED BY <2>1
<1>3. BrowserNormSeps(x) = NormSeps(x)
  <2>1. NormSeps(x) = Evaluated([i \in DOMAIN x |-> form(x[i])])
    BY DEF NormSeps
  <2>2. BrowserNormSeps(x) = Evaluated([i \in DOMAIN x |-> theirs(x[i])])
    BY DEF BrowserNormSeps
  <2> HIDE DEF form, theirs
  <2> QED BY <1>2, <2>1, <2>2
<1>4. IsText(y) /\ Len(y) = Len(x) /\ DOMAIN y = 1 .. Len(x) /\ \A i \in 1 .. Len(x) : y[i] = form(x[i])
  BY NormSepsIs
<1> HIDE DEF y
<1>5. /\ IsText(NormSeps(y)) /\ Len(NormSeps(y)) = Len(x) /\ DOMAIN NormSeps(y) = 1 .. Len(x)
      /\ \A i \in 1 .. Len(x) : NormSeps(y)[i] = form(y[i])
  <2>1. /\ IsText(NormSeps(y)) /\ Len(NormSeps(y)) = Len(y) /\ DOMAIN NormSeps(y) = 1 .. Len(y)
        /\ \A i \in 1 .. Len(y) : NormSeps(y)[i] = form(y[i])
    BY <1>4, NormSepsIs
  <2> HIDE DEF form
  <2> QED BY <1>4, <2>1
<1>6. \A a : form(form(a)) = form(a)
  BY FormAssumption
<1>7. NormSeps(y) = y
  <2> HIDE DEF form
  <2>1. \A i \in 1 .. Len(x) : NormSeps(y)[i] = y[i]
    BY <1>4, <1>5, <1>6
  <2>2. NormSeps(y) = [i \in 1 .. Len(x) |-> NormSeps(y)[i]] /\ y = [i \in 1 .. Len(x) |-> y[i]]
    BY <1>4, <1>5, TextIs
  <2> QED BY <2>1, <2>2
<1> QED BY <1>3, <1>4, <1>7 DEF y

\* Where invisible characters are left out, what the browser finds begins where
\* it did and ends no earlier.
LEMMA VisibleCovers ==
  ASSUME NEW t, IsText(t), NEW i \in 1 .. Len(Clean(t)), NEW j \in i .. Len(Clean(t)), NEW l, NEW c
  PROVE  /\ IdxMap(t)[i] \in Int /\ IdxMap(t)[j] \in Int
         /\ ToNextVisible(Span(i, j, l, c), t).from = IdxMap(t)[i]
         /\ IdxMap(t)[j] <= ToNextVisible(Span(i, j, l, c), t).to
         /\ ToNextVisible(Span(i, j, l, c), t).label = l
<1> DEFINE idx == IdxMap(t)
           n == Len(Clean(t))
           more == Append(idx, Len(t) + 1)
<1>1. /\ Lists(idx, Visible(t)) /\ n = Len(idx) /\ n \in Nat /\ DOMAIN idx = 1 .. n
      /\ Len(t) \in Nat /\ \A k \in 1 .. n : idx[k] \in 1 .. Len(t)
  BY CleanIs, TextIs
<1>2. LET r == ToNextVisible(Span(i, j, l, c), t) IN r.from = more[i] /\ r.to = more[j + 1] - 1 /\ r.label = l
  <2> DEFINE s == Span(i, j, l, c)
  <2>1. ToNextVisible(s, t) = [s EXCEPT !.from = more[s.from], !.to = more[s.to + 1] - 1]
    BY DEF ToNextVisible
  <2>2. s.from = i /\ s.to = j
    BY DEF Span
  <2>3. \A a, b : LET r == [s EXCEPT !.from = a, !.to = b] IN r.from = a /\ r.to = b /\ r.label = l
    BY DEF Span
  <2> HIDE DEF s, more
  <2> QED BY <2>1, <2>2, <2>3 DEF s
<1>3. idx \in Seq(Visible(t)) /\ \A a, b \in 1 .. n : a < b => idx[a] < idx[b]
  BY <1>1 DEF Lists
<1> HIDE DEF idx, n
<1>4. (\A k \in 1 .. n : more[k] = idx[k]) /\ more[n + 1] = Len(t) + 1
  <2>1. idx \in Seq(Visible(t) \cup {Len(t) + 1}) /\ Len(t) + 1 \in Visible(t) \cup {Len(t) + 1}
    BY <1>3
  <2> QED BY <1>1, <2>1, AppendProperties
<1> HIDE DEF more
<1>5. i \in 1 .. n /\ j \in 1 .. n /\ i \in Int /\ j \in Int
  BY <1>1 DEF n
<1>6. idx[i] \in Int /\ idx[j] \in Int /\ idx[j] <= Len(t)
  BY <1>1, <1>5
<1>7. more[i] = idx[i]
  BY <1>4, <1>5
<1>8. idx[j] <= more[j + 1] - 1
  <2>1. CASE j = n
    <3>1. more[j + 1] = Len(t) + 1
      BY <1>4, <2>1
    <3> QED BY <1>1, <1>6, <3>1
  <2>2. CASE j # n
    <3>1. j + 1 \in 1 .. n /\ j < j + 1
      BY <1>1, <1>5, <2>2
    <3>2. more[j + 1] = idx[j + 1] /\ idx[j + 1] \in Int
      BY <1>1, <1>4, <3>1
    <3>3. idx[j] < idx[j + 1]
      BY <1>3, <1>5, <3>1
    <3> QED BY <1>6, <3>2, <3>3
  <2> QED BY <2>1, <2>2
<1> QED BY <1>2, <1>6, <1>7, <1>8 DEF idx

LEMMA PortCovers ==
  ASSUME NEW t, IsText(t), NEW v \in Views(t), \A k \in DOMAIN v.at : KnownToBoth(t[v.at[k]]),
         NEW s \in ScanOnce(v.text), s.label \in Numbers, ~LeftOutByPort(v.text, s)
  PROVE  Covered(<<v.at[s.from], v.at[s.to]>>, BrowserSpans(t), Numbers)
<1>1. CASE v.text = NormSeps(t) /\ v.at = [i \in 1 .. Len(t) |-> i]
  <2>1. \A k \in 1 .. Len(t) : v.at[k] = k /\ KnownToBoth(t[k])
    BY <1>1
  <2>2. /\ BrowserNormSeps(t) = v.text /\ NormSeps(v.text) = v.text /\ IsText(v.text) /\ Len(v.text) = Len(t)
    BY <1>1, <2>1, SameNorm
  <2>3. /\ s.from \in 1 .. Len(v.text) /\ s.to \in s.from .. Len(v.text)
        /\ \E r \in BrowserScanOnce(t) : r = Span(s.from, s.to, r.label, r.conf) /\ r.label \in Numbers
    BY <2>2, PortFinds
  <2>4. PICK r \in BrowserScanOnce(t) : r = Span(s.from, s.to, r.label, r.conf) /\ r.label \in Numbers
    BY <2>3
  <2>5. r.from = s.from /\ r.to = s.to
    BY <2>4 DEF Span
  <2>6. Len(t) \in Nat
    BY TextIs
  <2>7. s.from \in 1 .. Len(t) /\ s.to \in 1 .. Len(t)
    BY <2>2, <2>3, <2>6
  <2>8. r \in BrowserSpans(t) /\ r.from <= v.at[s.from] /\ v.at[s.to] <= r.to
    BY <2>1, <2>4, <2>5, <2>6, <2>7 DEF BrowserSpans
  <2> QED BY <2>4, <2>8 DEF Covered
<1>2. CASE v.text = NormSeps(Clean(t)) /\ v.at = IdxMap(t) /\ HasFormatChars(t)
  <2>1. /\ IsText(Clean(t)) /\ Len(Clean(t)) \in Nat /\ DOMAIN IdxMap(t) = 1 .. Len(Clean(t))
        /\ \A k \in 1 .. Len(Clean(t)) : Clean(t)[k] = t[IdxMap(t)[k]]
    BY CleanIs
  <2>2. \A k \in 1 .. Len(Clean(t)) : KnownToBoth(Clean(t)[k])
    BY <1>2, <2>1
  <2>3. /\ BrowserNormSeps(Clean(t)) = v.text /\ NormSeps(v.text) = v.text /\ IsText(v.text)
        /\ Len(v.text) = Len(Clean(t))
    BY <1>2, <2>1, <2>2, SameNorm
  <2>4. /\ s.from \in 1 .. Len(v.text) /\ s.to \in s.from .. Len(v.text)
        /\ \E r \in BrowserScanOnce(Clean(t)) : r = Span(s.from, s.to, r.label, r.conf) /\ r.label \in Numbers
    BY <2>3, PortFinds
  <2>5. PICK r \in BrowserScanOnce(Clean(t)) : r = Span(s.from, s.to, r.label, r.conf) /\ r.label \in Numbers
    BY <2>4
  <2>6. s.from \in 1 .. Len(Clean(t)) /\ s.to \in s.from .. Len(Clean(t))
    BY <2>3, <2>4
  <2> DEFINE w == ToNextVisible(r, t)
  <2>7. /\ IdxMap(t)[s.from] \in Int /\ w.from = IdxMap(t)[s.from] /\ IdxMap(t)[s.to] <= w.to /\ w.label = r.label
    BY <2>5, <2>6, VisibleCovers
  <2>8. Clean(t) # <<>>
    <3>1. Len(Clean(t)) # 0
      BY <2>1, <2>6
    <3> QED BY <3>1
  <2>9. w \in BrowserSpans(t)
    BY <1>2, <2>5, <2>8 DEF BrowserSpans
  <2> HIDE DEF w
  <2>10. w.from <= v.at[s.from] /\ v.at[s.to] <= w.to /\ w.label \in Numbers
    BY <1>2, <2>5, <2>7
  <2> QED BY <2>9, <2>10 DEF Covered
<1> QED BY <1>1, <1>2, ViewIs

\* The port of the floor to the browser is in step: what PortInStep says, for
\* every text and whatever atoms each of them knows.
THEOREM PortKeepsStep == Spec => []PortInStep
<1>1. ScanInv => PortInStep
  BY LocalTextAssumption, PortCovers DEF ScanInv, PortInStep
<1> QED BY <1>1, Scans, PTL
==============================================================================
