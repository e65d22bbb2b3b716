------------------------ MODULE ResponseStreamProofs ------------------------
(***************************************************************************)
(* Streaming gives what restoring the whole text gives, for any texts, any *)
(* cuts, any number of channels and any interleaving of them.              *)
(***************************************************************************)
EXTENDS ResponseStream, SequenceTheorems, WellFoundedInduction, TLAPS

-----------------------------------------------------------------------------
(* Restoring a text *)

\* A set that has i whenever it has all that follows has all.
LEMMA FromTheEnd ==
  ASSUME NEW n \in Nat, NEW S,
         \A i \in 1..n : (\A j \in i + 1..n : j \in S) => i \in S
  PROVE  \A i \in 1..n : i \in S
<1> DEFINE R == OpToRel(<, Nat)
           T == {k \in 0..n - 1 : n - k \notin S}
<1>1. IsWellFoundedOn(R, Nat)
  BY NatLessThanWellFounded
<1>2. \A y \in Nat, z \in Nat : y < z => <<y, z>> \in R
  BY DEF OpToRel
<1>3. T \subseteq Nat
  OBVIOUS
<1>4. SUFFICES ASSUME T # {} PROVE FALSE
  <2>1. ASSUME NEW i \in 1..n, i \notin S PROVE n - i \in T
    BY <2>1
  <2> QED BY <1>4, <2>1
<1> HIDE DEF R
<1>5. PICK k \in T : \A y \in T : ~ (<<y, k>> \in R)
  <2> HIDE DEF T
  <2> QED BY <1>1, <1>3, <1>4, WFMin
<1>8. k \in 0..n - 1 /\ n - k \notin S
  BY <1>5
<1>6. ASSUME NEW j \in n - k + 1..n PROVE j \in S
  <2>1. n - j \in Nat /\ n - j < k /\ n - j \in 0..n - 1 /\ n - (n - j) = j
    BY <1>8
  <2>2. n - j \notin T
    BY <1>2, <1>3, <1>5, <2>1
  <2> QED BY <2>1, <2>2
<1>7. n - k \in 1..n /\ n - k \notin S
  BY <1>8
<1> QED BY <1>6, <1>7

\* The step from what follows.
Body(s, known, render, f, i) ==
  IF i > Len(s) THEN <<>>
  ELSE IF TokenAt(s, i, known) THEN <<render[s[i + 1]]>> \o f[i + 3]
       ELSE <<s[i]>> \o f[i + 1]

LEMMA TokenThere ==
  ASSUME NEW s \in Seq(Atoms), NEW i \in 1..Len(s), NEW known
  PROVE  TokenAt(s, i, known) <=>
           i + 2 <= Len(s) /\ s[i] = "<" /\ s[i + 1] \in DOMAIN known /\ s[i + 2] = ">"
<1>1. ASSUME i + 2 <= Len(s), NEW l
      PROVE  SubSeq(s, i, i + 2) = Token(l) <=> s[i] = "<" /\ s[i + 1] = l /\ s[i + 2] = ">"
  <2> DEFINE t == SubSeq(s, i, i + 2)
  <2>1. /\ Len(t) = 3 /\ DOMAIN t = 1..3 /\ t[1] = s[i] /\ t[2] = s[i + 1] /\ t[3] = s[i + 2]
        /\ t \in Seq(Atoms)
    BY <1>1, SMTT(30)
  <2>2. t = <<t[1], t[2], t[3]>>
    <3> HIDE DEF t
    <3> QED BY <2>1
  <2> HIDE DEF t
  <2>3. t = <<"<", l, ">">> <=> t[1] = "<" /\ t[2] = l /\ t[3] = ">"
    BY <2>2
  <2> QED BY <2>1, <2>3 DEF Token, t
<1> QED BY <1>1 DEF TokenAt

LEMMA SuffixesExist ==
  ASSUME NEW s \in Seq(Atoms), NEW known, NEW render
  PROVE  LET from == Suffixes(s, known, render)
         IN  from = [i \in 1..Len(s) + 1 |-> Body(s, known, render, from, i)]
<1> DEFINE n == Len(s) + 1
           Solves(f, m) == f = [i \in m..n |-> Body(s, known, render, f, i)]
           S == {m \in 1..n : \E f : Solves(f, m)}
<1>1. n \in Nat /\ Len(s) \in Nat
  OBVIOUS
<1>2. ASSUME NEW m \in 1..n, \A j \in m + 1..n : j \in S PROVE m \in S
  <2>1. CASE m = n
    <3> DEFINE f == [i \in m..n |-> <<>>]
    <3>1. \A i \in m..n : Body(s, known, render, f, i) = <<>>
      BY <1>1, <2>1 DEF Body
    <3>2. Solves(f, m)
      BY <3>1
    <3> QED BY <3>2
  <2>2. CASE m < n
    <3>1. m + 1 \in S
      <4>1. m + 1 \in m + 1..n
        BY <1>1, <2>2
      <4> HIDE DEF S, n
      <4> QED BY <1>2, <4>1
    <3>2. PICK g : Solves(g, m + 1)
      BY <3>1
    <3> DEFINE f == [i \in m..n |-> IF i = m THEN Body(s, known, render, g, m) ELSE g[i]]
    <3>3. \A i \in m + 1..n : f[i] = g[i] /\ g[i] = Body(s, known, render, g, i)
      BY <3>2
    <3>4. ASSUME NEW i \in m..n PROVE Body(s, known, render, f, i) = Body(s, known, render, g, i)
      <4>1. CASE i > Len(s)
        BY <4>1 DEF Body
      <4>2. CASE ~(i > Len(s))
        <5>1. i + 1 \in m + 1..n
          BY <1>1, <4>2
        <5>2. TokenAt(s, i, known) => i + 3 \in m + 1..n
          BY <1>1, <4>2 DEF TokenAt
        <5>3. f[i + 1] = g[i + 1] /\ (TokenAt(s, i, known) => f[i + 3] = g[i + 3])
          BY <3>3, <5>1, <5>2
        <5> HIDE DEF f, n
        <5> QED BY <5>3 DEF Body
      <4> QED BY <4>1, <4>2
    <3>5. \A i \in m..n : f[i] = Body(s, known, render, f, i)
      <4>1. f[m] = Body(s, known, render, g, m)
        BY <1>1
      <4>2. \A i \in m..n : i = m \/ i \in m + 1..n
        BY <1>1
      <4> QED BY <3>3, <3>4, <4>1, <4>2
    <3>6. Solves(f, m)
      <4>1. f = [i \in m..n |-> f[i]]
        OBVIOUS
      <4> HIDE DEF f
      <4> QED BY <3>5, <4>1
    <3> QED BY <3>6
  <2> QED BY <1>1, <2>1, <2>2
<1>3. 1 \in S
  <2>1. 1 \in 1..n
    BY <1>1
  <2> HIDE DEF S, n
  <2>2. \A i \in 1..n : i \in S
    BY <1>1, <1>2, FromTheEnd
  <2> QED BY <2>1, <2>2
<1>4. PICK f : Solves(f, 1)
  BY <1>3
<1>5. Suffixes(s, known, render) = CHOOSE from : from = [i \in 1..n |-> Body(s, known, render, from, i)]
  BY DEF Suffixes, Body
<1> QED BY <1>4, <1>5


LEMMA SuffixEquations ==
  ASSUME NEW s \in Seq(Atoms), NEW known, DOMAIN known \subseteq Labels, NEW render \in [Labels -> Atoms]
  PROVE  LET F == Suffixes(s, known, render) IN
         /\ F[Len(s) + 1] = <<>>
         /\ \A i \in 1..Len(s) : TokenAt(s, i, known) => F[i] = <<render[s[i + 1]]>> \o F[i + 3]
         /\ \A i \in 1..Len(s) : ~TokenAt(s, i, known) => F[i] = <<s[i]>> \o F[i + 1]
         /\ \A i \in 1..Len(s) + 1 : F[i] \in Seq(Atoms)
<1> DEFINE F == Suffixes(s, known, render)
           n == Len(s) + 1
<1>1. n \in Nat /\ Len(s) \in Nat
  OBVIOUS
<1>2. F = [i \in 1..n |-> Body(s, known, render, F, i)]
  BY SuffixesExist
<1> HIDE DEF F
<1>3. \A i \in 1..n : F[i] = Body(s, known, render, F, i)
  BY <1>2
<1>4. F[Len(s) + 1] = <<>>
  <2>1. Len(s) + 1 \in 1..n /\ Len(s) + 1 > Len(s)
    BY <1>1
  <2>2. F[Len(s) + 1] = Body(s, known, render, F, Len(s) + 1)
    BY <1>3, <2>1
  <2> QED BY <2>1, <2>2 DEF Body
<1>5. ASSUME NEW i \in 1..Len(s)
      PROVE  /\ TokenAt(s, i, known) => F[i] = <<render[s[i + 1]]>> \o F[i + 3]
             /\ ~TokenAt(s, i, known) => F[i] = <<s[i]>> \o F[i + 1]
  <2>1. i \in 1..n /\ ~(i > Len(s))
    BY <1>1
  <2>2. F[i] = Body(s, known, render, F, i)
    BY <1>3, <2>1
  <2> HIDE DEF n
  <2> QED BY <2>1, <2>2 DEF Body
<1> DEFINE S == {i \in 1..n : F[i] \in Seq(Atoms)}
<1>6. ASSUME NEW i \in 1..n, \A j \in i + 1..n : j \in S PROVE i \in S
  <2>1. CASE i = n
    <3>1. F[i] = <<>>
      BY <1>4, <2>1
    <3>2. <<>> \in Seq(Atoms)
      OBVIOUS
    <3> QED BY <3>1, <3>2
  <2>2. CASE i \in 1..Len(s) /\ TokenAt(s, i, known)
    <3>1. i + 2 <= Len(s) /\ s[i + 1] \in Labels
      BY <2>2, TokenThere
    <3>2. i + 3 \in i + 1..n
      BY <1>1, <2>2, <3>1
    <3>3. F[i + 3] \in Seq(Atoms) /\ render[s[i + 1]] \in Atoms
      BY <1>6, <3>1, <3>2
    <3>4. F[i] = <<render[s[i + 1]]>> \o F[i + 3]
      BY <1>5, <2>2
    <3>5. <<render[s[i + 1]]>> \in Seq(Atoms)
      BY <3>3
    <3>6. F[i] \in Seq(Atoms)
      BY <3>3, <3>4, <3>5
    <3> QED BY <3>6
  <2>3. CASE i \in 1..Len(s) /\ ~TokenAt(s, i, known)
    <3>1. i + 1 \in i + 1..n /\ s[i] \in Atoms
      BY <1>1, <2>3
    <3>2. F[i + 1] \in Seq(Atoms)
      BY <1>6, <3>1
    <3>3. F[i] = <<s[i]>> \o F[i + 1]
      BY <1>5, <2>3
    <3>4. <<s[i]>> \in Seq(Atoms)
      BY <3>1
    <3>5. F[i] \in Seq(Atoms)
      BY <3>2, <3>3, <3>4
    <3> QED BY <3>5
  <2> QED BY <1>1, <2>1, <2>2, <2>3
<1>7. \A i \in 1..n : i \in S
  <2> HIDE DEF S, n
  <2> QED BY <1>1, <1>6, FromTheEnd
<1> QED BY <1>4, <1>5, <1>7 DEF F

LEMMA OneBefore ==
  ASSUME NEW x \in Atoms, NEW t \in Seq(Atoms), NEW u \in Seq(Atoms)
  PROVE  (<<x>> \o t) \o u = <<x>> \o (t \o u)
<1>1. <<x>> \in Seq(Atoms)
  OBVIOUS
<1> DEFINE v == <<x>>
<1> HIDE DEF v
<1>2. v \in Seq(Atoms)
  BY <1>1 DEF v
<1>3. (v \o t) \o u = v \o (t \o u)
  BY <1>2, ConcatAssociative
<1> QED BY <1>3 DEF v

LEMMA SubstitutedTyped ==
  ASSUME NEW s \in Seq(Atoms), NEW known, DOMAIN known \subseteq Labels, NEW render \in [Labels -> Atoms]
  PROVE  Substituted(s, known, render) \in Seq(Atoms)
<1>1. 1 \in 1..Len(s) + 1
  OBVIOUS
<1> QED BY <1>1, SuffixEquations DEF Substituted

\* No placeholder that is known begins in a and ends in b.
Apart(a, b, known) ==
  \A i \in 1..Len(a) : i + 2 > Len(a) => ~TokenAt(a \o b, i, known)

\* A text is restored part by part where no placeholder is cut.
LEMMA RestoredByParts ==
  ASSUME NEW a \in Seq(Atoms), NEW b \in Seq(Atoms), NEW known, DOMAIN known \subseteq Labels,
         NEW render \in [Labels -> Atoms], Apart(a, b, known)
  PROVE  Substituted(a \o b, known, render) = Substituted(a, known, render) \o Substituted(b, known, render)
<1> DEFINE s == a \o b
           A == Suffixes(a, known, render)
           B == Suffixes(b, known, render)
           C == Suffixes(s, known, render)
           m == Len(a)
<1>1. s \in Seq(Atoms) /\ Len(s) = m + Len(b) /\ m \in Nat /\ Len(b) \in Nat
  OBVIOUS
<1>2. /\ \A i \in 1..m : s[i] = a[i]
      /\ \A i \in 1..Len(b) : s[m + i] = b[i]
  OBVIOUS
<1>3. /\ A[m + 1] = <<>>
      /\ \A i \in 1..m : TokenAt(a, i, known) => A[i] = <<render[a[i + 1]]>> \o A[i + 3]
      /\ \A i \in 1..m : ~TokenAt(a, i, known) => A[i] = <<a[i]>> \o A[i + 1]
      /\ \A i \in 1..m + 1 : A[i] \in Seq(Atoms)
  BY SuffixEquations
<1>4. /\ B[Len(b) + 1] = <<>>
      /\ \A i \in 1..Len(b) : TokenAt(b, i, known) => B[i] = <<render[b[i + 1]]>> \o B[i + 3]
      /\ \A i \in 1..Len(b) : ~TokenAt(b, i, known) => B[i] = <<b[i]>> \o B[i + 1]
      /\ \A i \in 1..Len(b) + 1 : B[i] \in Seq(Atoms)
  BY SuffixEquations
<1>5. /\ C[Len(s) + 1] = <<>>
      /\ \A i \in 1..Len(s) : TokenAt(s, i, known) => C[i] = <<render[s[i + 1]]>> \o C[i + 3]
      /\ \A i \in 1..Len(s) : ~TokenAt(s, i, known) => C[i] = <<s[i]>> \o C[i + 1]
      /\ \A i \in 1..Len(s) + 1 : C[i] \in Seq(Atoms)
  BY <1>1, SuffixEquations
<1>6. \A i \in 1..Len(b) : TokenAt(s, m + i, known) <=> TokenAt(b, i, known)
  <2> SUFFICES ASSUME NEW i \in 1..Len(b) PROVE TokenAt(s, m + i, known) <=> TokenAt(b, i, known)
    OBVIOUS
  <2>1. m + i \in 1..Len(s)
    BY <1>1
  <2>2. TokenAt(s, m + i, known) <=>
          /\ m + i + 2 <= Len(s) /\ s[m + i] = "<" /\ s[m + i + 1] \in DOMAIN known /\ s[m + i + 2] = ">"
    BY <1>1, <2>1, TokenThere
  <2>3. TokenAt(b, i, known) <=> i + 2 <= Len(b) /\ b[i] = "<" /\ b[i + 1] \in DOMAIN known /\ b[i + 2] = ">"
    BY TokenThere
  <2>4. i + 2 <= Len(b) => s[m + i + 1] = b[i + 1] /\ s[m + i + 2] = b[i + 2]
    BY <1>1, <1>2
  <2> HIDE DEF s, m
  <2> QED BY <1>1, <1>2, <2>2, <2>3, <2>4
<1>7. \A i \in 1..m : TokenAt(s, i, known) <=> TokenAt(a, i, known)
  <2> SUFFICES ASSUME NEW i \in 1..m PROVE TokenAt(s, i, known) <=> TokenAt(a, i, known)
    OBVIOUS
  <2>1. i \in 1..Len(s)
    BY <1>1
  <2>2. TokenAt(s, i, known) <=>
          /\ i + 2 <= Len(s) /\ s[i] = "<" /\ s[i + 1] \in DOMAIN known /\ s[i + 2] = ">"
    BY <1>1, <2>1, TokenThere
  <2>3. TokenAt(a, i, known) <=> i + 2 <= m /\ a[i] = "<" /\ a[i + 1] \in DOMAIN known /\ a[i + 2] = ">"
    BY TokenThere
  <2>4. i + 2 > m => ~TokenAt(s, i, known)
    BY DEF Apart
  <2> HIDE DEF s, m
  <2> QED BY <1>1, <1>2, <2>2, <2>3, <2>4
<1>8. \A i \in 1..m : TokenAt(a, i, known) => i + 2 <= m
  BY DEF TokenAt
<1>9. \A i \in 1..Len(b) : TokenAt(b, i, known) => i + 2 <= Len(b)
  BY DEF TokenAt
<1> HIDE DEF s, A, B, C, m
<1>10. \A i \in 1..Len(b) + 1 : C[m + i] = B[i]
  <2> DEFINE n == Len(b) + 1
             S == {i \in 1..n : C[m + i] = B[i]}
  <2>1. n \in Nat
    BY <1>1
  <2>2. ASSUME NEW i \in 1..n, \A j \in i + 1..n : j \in S PROVE i \in S
    <3>1. CASE i = n
      BY <1>1, <1>4, <1>5, <3>1
    <3>2. CASE i \in 1..Len(b) /\ TokenAt(b, i, known)
      <4>1. i + 2 <= Len(b) /\ i + 3 \in i + 1..n /\ m + i \in 1..Len(s)
        BY <1>1, <1>9, <3>2
      <4>2. C[m + (i + 3)] = B[i + 3] /\ m + (i + 3) = (m + i) + 3 /\ s[(m + i) + 1] = b[i + 1]
        BY <1>1, <1>2, <2>2, <4>1
      <4>3. TokenAt(s, m + i, known)
        BY <1>6, <3>2
      <4>4. C[m + i] = <<render[s[(m + i) + 1]]>> \o C[(m + i) + 3]
        BY <1>5, <4>1, <4>3
      <4> QED BY <1>4, <3>2, <4>2, <4>4
    <3>3. CASE i \in 1..Len(b) /\ ~TokenAt(b, i, known)
      <4>1. i + 1 \in i + 1..n /\ m + i \in 1..Len(s)
        BY <1>1, <3>3
      <4>2. C[m + (i + 1)] = B[i + 1] /\ m + (i + 1) = (m + i) + 1 /\ s[m + i] = b[i]
        BY <1>1, <1>2, <2>2, <3>3, <4>1
      <4>3. ~TokenAt(s, m + i, known)
        BY <1>6, <3>3
      <4>4. C[m + i] = <<s[m + i]>> \o C[(m + i) + 1]
        BY <1>5, <4>1, <4>3
      <4> QED BY <1>4, <3>3, <4>2, <4>4
    <3> QED BY <1>1, <3>1, <3>2, <3>3
  <2> HIDE DEF S, n
  <2>3. \A i \in 1..n : i \in S
    BY <2>1, <2>2, FromTheEnd
  <2> QED BY <2>3 DEF S, n
<1>11. \A i \in 1..m + 1 : C[i] = A[i] \o B[1]
  <2> DEFINE n == m + 1
             S == {i \in 1..n : C[i] = A[i] \o B[1]}
  <2>1. n \in Nat /\ B[1] \in Seq(Atoms)
    BY <1>1, <1>4
  <2>2. ASSUME NEW i \in 1..n, \A j \in i + 1..n : j \in S PROVE i \in S
    <3>1. CASE i = n
      <4>1. C[m + 1] = B[1]
        BY <1>1, <1>10
      <4>2. <<>> \o B[1] = B[1]
        BY <2>1, ConcatEmptySeq
      <4> QED BY <1>3, <3>1, <4>1, <4>2
    <3>2. CASE i \in 1..m /\ TokenAt(a, i, known)
      <4>1. i + 2 <= m /\ i + 3 \in i + 1..n /\ i \in 1..Len(s) /\ i + 3 \in 1..m + 1
        BY <1>1, <1>8, <3>2
      <4>2. C[i + 3] = A[i + 3] \o B[1] /\ s[i + 1] = a[i + 1] /\ a[i + 1] \in Labels
        <5>1. C[i + 3] = A[i + 3] \o B[1]
          BY <2>2, <4>1
        <5>2. i + 1 \in 1..m
          BY <1>1, <4>1
        <5>3. a[i + 1] \in DOMAIN known
          BY <3>2, TokenThere DEF m
        <5> QED BY <1>2, <5>1, <5>2, <5>3
      <4>3. C[i] = <<render[s[i + 1]]>> \o C[i + 3]
        BY <1>5, <1>7, <3>2, <4>1
      <4>4. A[i] = <<render[a[i + 1]]>> \o A[i + 3]
        BY <1>3, <3>2
      <4>5. render[a[i + 1]] \in Atoms /\ A[i + 3] \in Seq(Atoms)
        BY <1>3, <4>1, <4>2
      <4>6. (<<render[a[i + 1]]>> \o A[i + 3]) \o B[1] = <<render[a[i + 1]]>> \o (A[i + 3] \o B[1])
        BY <2>1, <4>5, OneBefore
      <4>7. C[i] = A[i] \o B[1]
        BY <4>2, <4>3, <4>4, <4>6
      <4> QED BY <4>7
    <3>3. CASE i \in 1..m /\ ~TokenAt(a, i, known)
      <4>1. i + 1 \in i + 1..n /\ i \in 1..Len(s) /\ i + 1 \in 1..m + 1
        BY <1>1, <3>3
      <4>2. C[i + 1] = A[i + 1] \o B[1] /\ s[i] = a[i] /\ a[i] \in Atoms
        <5>1. C[i + 1] = A[i + 1] \o B[1]
          BY <2>2, <4>1
        <5>2. a[i] \in Atoms
          BY <3>3 DEF m
        <5> QED BY <1>2, <3>3, <5>1, <5>2
      <4>3. C[i] = <<s[i]>> \o C[i + 1]
        BY <1>5, <1>7, <3>3, <4>1
      <4>4. A[i] = <<a[i]>> \o A[i + 1]
        BY <1>3, <3>3
      <4>5. a[i] \in Atoms /\ A[i + 1] \in Seq(Atoms)
        BY <1>3, <4>1, <4>2
      <4>6. (<<a[i]>> \o A[i + 1]) \o B[1] = <<a[i]>> \o (A[i + 1] \o B[1])
        BY <2>1, <4>5, OneBefore
      <4>7. C[i] = A[i] \o B[1]
        BY <4>2, <4>3, <4>4, <4>6
      <4> QED BY <4>7
    <3>4. i = n \/ i \in 1..m
      BY <1>1
    <3> HIDE DEF S, n
    <3> QED BY <3>1, <3>2, <3>3, <3>4
  <2> HIDE DEF S, n
  <2>3. \A i \in 1..n : i \in S
    BY <2>1, <2>2, FromTheEnd
  <2> QED BY <2>3 DEF S, n
<1>12. C[1] = A[1] \o B[1]
  <2>1. 1 \in 1..m + 1
    BY <1>1
  <2> QED BY <1>11, <2>1
<1> QED BY <1>12 DEF Substituted, A, B, C, s

-----------------------------------------------------------------------------
(* Splitting a text *)

\* The last "<" of s, when it may begin a placeholder.
Begins(s, i) ==
  i \in 1..Len(s) /\ s[i] = "<" /\ \A j \in i + 1..Len(s) : s[j] \in Labels

LEMMA NothingHeld ==
  ASSUME NEW s \in Seq(Atoms), \A i \in 1..Len(s) : ~Begins(s, i)
  PROVE  HeldTail(s) = <<>> /\ SafePrefix(s) = s
<1> DEFINE from == {i \in DOMAIN s : s[i] = "<" /\ \A j \in i + 1..Len(s) : s[j] \in Labels}
<1>1. DOMAIN s = 1..Len(s) /\ Len(s) \in Nat
  OBVIOUS
<1>2. from = {}
  BY <1>1 DEF Begins
<1>3. HeldTail(s) = <<>>
  BY <1>2 DEF HeldTail
<1>4. Len(<<>>) = 0
  OBVIOUS
<1>5. SafePrefix(s) = SubSeq(s, 1, Len(s))
  BY <1>1, <1>3, <1>4 DEF SafePrefix
<1>6. SubSeq(s, 1, Len(s)) = s
  OBVIOUS
<1> QED BY <1>3, <1>5, <1>6

LEMMA TailHeld ==
  ASSUME NEW a \in Seq(Atoms), NEW h \in Seq(Atoms), h # <<>>, h[1] = "<",
         \A i \in 2..Len(h) : h[i] \in Labels
  PROVE  HeldTail(a \o h) = h /\ SafePrefix(a \o h) = a
<1> DEFINE s == a \o h
           m == Len(a)
           from == {i \in DOMAIN s : s[i] = "<" /\ \A j \in i + 1..Len(s) : s[j] \in Labels}
<1>1. /\ m \in Nat /\ Len(h) \in Nat \ {0}
      /\ s \in Seq(Atoms) /\ Len(s) = m + Len(h) /\ DOMAIN s = 1..Len(s)
  OBVIOUS
<1>2. /\ \A i \in 1..m : s[i] = a[i]
      /\ \A i \in 1..Len(h) : s[m + i] = h[i]
  OBVIOUS
<1> HIDE DEF s, m
<1>3. "<" \notin Labels
  BY AtomAssumption
<1>4. m + 1 \in from
  <2>1. m + 1 \in DOMAIN s /\ s[m + 1] = "<"
    BY <1>1, <1>2
  <2>2. ASSUME NEW j \in m + 1 + 1..Len(s) PROVE s[j] \in Labels
    <3>1. j - m \in 2..Len(h) /\ j - m \in 1..Len(h) /\ m + (j - m) = j
      BY <1>1
    <3> QED BY <1>2, <3>1
  <2> QED BY <2>1, <2>2
<1>5. ASSUME NEW i \in from PROVE i = m + 1
  <2>1. i \in 1..Len(s) /\ s[i] = "<" /\ \A j \in i + 1..Len(s) : s[j] \in Labels
    BY <1>1
  <2>2. CASE i < m + 1
    <3>1. m + 1 \in i + 1..Len(s) /\ s[m + 1] = "<"
      BY <1>1, <1>4, <2>1, <2>2
    <3> QED BY <1>3, <2>1, <3>1
  <2>3. CASE i > m + 1
    <3>1. i \in m + 1 + 1..Len(s)
      BY <1>1, <2>1, <2>3
    <3> QED BY <1>3, <1>4, <2>1, <3>1
  <2> QED BY <1>1, <2>1, <2>2, <2>3, SMTT(30)
<1>6. HeldTail(s) = SubSeq(s, m + 1, Len(s))
  <2>1. (CHOOSE i \in from : TRUE) \in from
    BY <1>4
  <2>2. (CHOOSE i \in from : TRUE) = m + 1
    BY <1>5, <2>1
  <2> QED BY <1>4, <2>2 DEF HeldTail
<1>7. SubSeq(s, m + 1, Len(s)) = h
  BY <1>1, <1>2
<1>8. SubSeq(s, 1, m) = a
  BY <1>1, <1>2 DEF m
<1>9. Len(s) - Len(h) = m
  BY <1>1
<1> QED BY <1>6, <1>7, <1>8, <1>9 DEF SafePrefix, s

\* What split_safe returns.
LEMMA Split ==
  ASSUME NEW s \in Seq(Atoms)
  PROVE  /\ SafePrefix(s) \in Seq(Atoms) /\ HeldTail(s) \in Seq(Atoms)
         /\ s = SafePrefix(s) \o HeldTail(s)
         /\ HeldTail(s) # <<>> =>
              HeldTail(s)[1] = "<" /\ \A i \in 2..Len(HeldTail(s)) : HeldTail(s)[i] \in Labels
         /\ HeldTail(s) = <<>> => \A i \in 1..Len(s) : ~Begins(s, i)
<1>1. CASE \A i \in 1..Len(s) : ~Begins(s, i)
  <2>1. HeldTail(s) = <<>> /\ SafePrefix(s) = s
    BY <1>1, NothingHeld
  <2>2. <<>> \in Seq(Atoms) /\ s \o <<>> = s
    BY ConcatEmptySeq
  <2> QED BY <1>1, <2>1, <2>2
<1>2. ASSUME NEW i \in 1..Len(s), Begins(s, i)
      PROVE  /\ SafePrefix(s) \in Seq(Atoms) /\ HeldTail(s) \in Seq(Atoms)
             /\ s = SafePrefix(s) \o HeldTail(s)
             /\ HeldTail(s) # <<>>
             /\ HeldTail(s)[1] = "<" /\ \A j \in 2..Len(HeldTail(s)) : HeldTail(s)[j] \in Labels
  <2> DEFINE a == SubSeq(s, 1, i - 1)
             h == SubSeq(s, i, Len(s))
  <2>1. a \in Seq(Atoms) /\ Len(a) = i - 1 /\ \A j \in 1..i - 1 : a[j] = s[j]
    OBVIOUS
  <2>2. h \in Seq(Atoms) /\ Len(h) = Len(s) - i + 1 /\ \A j \in 1..Len(h) : h[j] = s[i + j - 1]
    OBVIOUS
  <2>3. Len(s) \in Nat
    OBVIOUS
  <2> HIDE DEF a, h
  <2>4. s = a \o h
    <3>1. a \o h \in Seq(Atoms) /\ Len(a \o h) = Len(s)
      BY <2>1, <2>2, <2>3
    <3>2. ASSUME NEW j \in 1..Len(s) PROVE (a \o h)[j] = s[j]
      <4>1. CASE j <= i - 1
        BY <2>1, <2>2, <2>3, <4>1
      <4>2. CASE j > i - 1
        <5>1. j - (i - 1) \in 1..Len(h) /\ i + (j - (i - 1)) - 1 = j /\ Len(a) = i - 1
          BY <2>1, <2>2, <2>3, <4>2
        <5>2. (a \o h)[j] = h[j - (i - 1)]
          <6> j \in 1..Len(a) + Len(h) /\ ~(j <= Len(a))
            BY <2>1, <2>2, <2>3, <4>2
          <6> QED BY <2>1, <2>2, <5>1, ConcatProperties
        <5> QED BY <2>2, <5>1, <5>2
      <4>3. j <= i - 1 \/ j > i - 1
        BY <2>3
      <4> QED BY <4>1, <4>2, <4>3
    <3> QED BY <3>1, <3>2, SeqEqual
  <2>5. h # <<>> /\ h[1] = "<"
    <3>1. 1 \in 1..Len(h) /\ i + 1 - 1 = i
      BY <2>2, <2>3
    <3> QED BY <1>2, <2>2, <3>1 DEF Begins
  <2>6. ASSUME NEW j \in 2..Len(h) PROVE h[j] \in Labels
    <3>1. j \in 1..Len(h) /\ i + j - 1 \in i + 1..Len(s)
      BY <2>2, <2>3
    <3> QED BY <1>2, <2>2, <3>1 DEF Begins
  <2>7. HeldTail(s) = h /\ SafePrefix(s) = a
    BY <2>1, <2>2, <2>4, <2>5, <2>6, TailHeld
  <2> QED BY <2>1, <2>2, <2>4, <2>5, <2>6, <2>7
<1> QED BY <1>1, <1>2

\* Splitting what was held with what follows is splitting the whole.
LEMMA SplitGoesOn ==
  ASSUME NEW s \in Seq(Atoms), NEW p \in Seq(Atoms)
  PROVE  LET u == HeldTail(s) \o p
         IN  /\ HeldTail(s \o p) = HeldTail(u)
             /\ SafePrefix(s \o p) = SafePrefix(s) \o SafePrefix(u)
             /\ s \o p = SafePrefix(s) \o u
<1> DEFINE a == SafePrefix(s)
           h == HeldTail(s)
           u == h \o p
           t == s \o p
<1>1. /\ a \in Seq(Atoms) /\ h \in Seq(Atoms) /\ s = a \o h
      /\ h # <<>> => h[1] = "<"
      /\ h = <<>> => \A i \in 1..Len(s) : ~Begins(s, i)
  BY Split
<1> HIDE DEF a, h
<1>2. u \in Seq(Atoms) /\ t \in Seq(Atoms)
  BY <1>1
<1>3. t = a \o u
  BY <1>1, ConcatAssociative
<1> HIDE DEF u, t
<1>4. /\ SafePrefix(u) \in Seq(Atoms) /\ HeldTail(u) \in Seq(Atoms)
      /\ u = SafePrefix(u) \o HeldTail(u)
      /\ HeldTail(u) # <<>> =>
           HeldTail(u)[1] = "<" /\ \A i \in 2..Len(HeldTail(u)) : HeldTail(u)[i] \in Labels
      /\ HeldTail(u) = <<>> => \A i \in 1..Len(u) : ~Begins(u, i)
  BY <1>2, Split
<1>5. CASE HeldTail(u) # <<>>
  <2>1. t = (a \o SafePrefix(u)) \o HeldTail(u)
    <3>1. a \in Seq(Atoms) /\ SafePrefix(u) \in Seq(Atoms) /\ HeldTail(u) \in Seq(Atoms)
      BY <1>1, <1>4
    <3>2. (a \o SafePrefix(u)) \o HeldTail(u) = a \o (SafePrefix(u) \o HeldTail(u))
      <4> DEFINE g == SafePrefix(u)
                 k == HeldTail(u)
      <4>1. g \in Seq(Atoms) /\ k \in Seq(Atoms)
        BY <3>1
      <4> HIDE DEF g, k
      <4>2. (a \o g) \o k = a \o (g \o k)
        BY <1>1, <4>1, ConcatAssociative, SMTT(30)
      <4> QED BY <4>2 DEF g, k
    <3> QED BY <1>3, <1>4, <3>2
  <2>2. a \o SafePrefix(u) \in Seq(Atoms)
    BY <1>1, <1>4
  <2>3. HeldTail(t) = HeldTail(u) /\ SafePrefix(t) = a \o SafePrefix(u)
    BY <1>4, <1>5, <2>1, <2>2, TailHeld
  <2> QED BY <1>3, <2>3 DEF a, h, u, t
<1>6. CASE HeldTail(u) = <<>>
  <2>1. SafePrefix(u) = u
    BY <1>2, <1>4, <1>6, ConcatEmptySeq
  <2>2. /\ Len(a) \in Nat /\ Len(u) \in Nat /\ Len(t) = Len(a) + Len(u) /\ Len(h) \in Nat /\ Len(p) \in Nat
        /\ \A i \in 1..Len(a) : t[i] = a[i]
        /\ \A i \in 1..Len(u) : t[Len(a) + i] = u[i]
    BY <1>1, <1>2, <1>3
  <2>3. ASSUME NEW i \in 1..Len(t), Begins(t, i) PROVE FALSE
    <3>1. CASE i > Len(a)
      <4>1. i - Len(a) \in 1..Len(u) /\ Len(a) + (i - Len(a)) = i
        BY <2>2, <3>1
      <4>2. u[i - Len(a)] = "<"
        BY <2>2, <2>3, <4>1 DEF Begins
      <4>3. ASSUME NEW j \in i - Len(a) + 1..Len(u) PROVE u[j] \in Labels
        <5>1. j \in 1..Len(u) /\ Len(a) + j \in i + 1..Len(t)
          BY <2>2, <3>1
        <5> QED BY <2>2, <2>3, <5>1 DEF Begins
      <4> QED BY <1>4, <1>6, <4>1, <4>2, <4>3 DEF Begins
    <3>2. CASE i <= Len(a) /\ h # <<>>
      <4>1. Len(h) > 0 /\ Len(u) > 0 /\ u[1] = "<"
        BY <1>1, <3>2, <2>2 DEF u
      <4>2. Len(a) + 1 \in i + 1..Len(t) /\ t[Len(a) + 1] = "<"
        BY <2>2, <3>2, <4>1
      <4> QED BY <2>3, <4>2, AtomAssumption DEF Begins
    <3>3. CASE i <= Len(a) /\ h = <<>>
      <4>1. a = s
        BY <1>1, <3>3, ConcatEmptySeq
      <4>2. \A j \in i + 1..Len(a) : j \in i + 1..Len(t) /\ t[j] = a[j]
        BY <2>2, SMTT(30)
      <4>3. Begins(s, i)
        BY <2>2, <2>3, <3>3, <4>1, <4>2 DEF Begins
      <4> QED BY <1>1, <2>2, <3>3, <4>1, <4>3
    <3> QED BY <2>2, <3>1, <3>2, <3>3
  <2>4. HeldTail(t) = <<>> /\ SafePrefix(t) = t
    BY <1>2, <2>3, NothingHeld
  <2> QED BY <1>3, <1>6, <2>1, <2>4 DEF a, h, u, t
<1> QED BY <1>5, <1>6

\* A text with no placeholder stays as it is.
LEMMA NothingToRestore ==
  ASSUME NEW s \in Seq(Atoms), NEW known, DOMAIN known \subseteq Labels, NEW render \in [Labels -> Atoms],
         \A i \in 1..Len(s) : ~TokenAt(s, i, known)
  PROVE  Substituted(s, known, render) = s
<1> DEFINE F == Suffixes(s, known, render)
           n == Len(s) + 1
           S == {i \in 1..n : F[i] = SubSeq(s, i, Len(s))}
<1>1. n \in Nat /\ Len(s) \in Nat
  OBVIOUS
<1>2. /\ F[Len(s) + 1] = <<>>
      /\ \A i \in 1..Len(s) : F[i] = <<s[i]>> \o F[i + 1]
  BY SuffixEquations
<1> HIDE DEF F
<1>3. ASSUME NEW i \in 1..n, \A j \in i + 1..n : j \in S PROVE i \in S
  <2>1. CASE i = n
    <3>1. SubSeq(s, i, Len(s)) = <<>>
      BY <1>1, <2>1, SubSeqEmpty
    <3> QED BY <1>2, <2>1, <3>1
  <2>2. CASE i \in 1..Len(s)
    <3>1. i + 1 \in i + 1..n
      BY <1>1, <2>2
    <3>2. F[i] = <<s[i]>> \o SubSeq(s, i + 1, Len(s))
      BY <1>2, <1>3, <2>2, <3>1
    <3>3. <<s[i]>> \o SubSeq(s, i + 1, Len(s)) = SubSeq(s, i, Len(s))
      <4> DEFINE l == <<s[i]>> \o SubSeq(s, i + 1, Len(s))
                 r == SubSeq(s, i, Len(s))
      <4>1. SubSeq(s, i + 1, Len(s)) \in Seq(Atoms) /\ <<s[i]>> \in Seq(Atoms) /\ r \in Seq(Atoms)
        BY <2>2
      <4>2. Len(SubSeq(s, i + 1, Len(s))) = Len(s) - i /\ Len(r) = Len(s) - i + 1 /\ Len(<<s[i]>>) = 1
        BY <1>1, <2>2
      <4>3. l \in Seq(Atoms) /\ Len(l) = Len(r)
        BY <1>1, <2>2, <4>1, <4>2
      <4>4. ASSUME NEW j \in 1..Len(l) PROVE l[j] = r[j]
        <5>1. r[j] = s[i + j - 1]
          BY <1>1, <2>2, <4>2, <4>3
        <5>2. CASE j = 1
          BY <1>1, <2>2, <4>1, <4>2, <5>1, <5>2
        <5>3. CASE j > 1
          <6>1. j - 1 \in 1..Len(s) - i /\ i + 1 + (j - 1) - 1 = i + j - 1
            BY <1>1, <2>2, <4>2, <4>3, <5>3
          <6>2. l[j] = SubSeq(s, i + 1, Len(s))[j - 1]
            BY <1>1, <2>2, <4>1, <4>2, <4>3, <5>3
          <6>3. SubSeq(s, i + 1, Len(s))[j - 1] = s[i + 1 + (j - 1) - 1]
            BY <1>1, <2>2, <4>2, <6>1
          <6> QED BY <5>1, <6>1, <6>2, <6>3
        <5>4. j = 1 \/ j > 1
          BY <4>2, <4>3
        <5> QED BY <5>2, <5>3, <5>4
      <4> HIDE DEF l, r
      <4>5. l = r
        BY <4>1, <4>3, <4>4, SeqEqual
      <4> QED BY <4>5 DEF l, r
    <3> QED BY <3>2, <3>3
  <2> QED BY <1>1, <2>1, <2>2
<1>4. 1 \in S
  <2>1. 1 \in 1..n
    BY <1>1
  <2> HIDE DEF S, n
  <2>2. \A i \in 1..n : i \in S
    BY <1>1, <1>3, FromTheEnd
  <2> QED BY <2>1, <2>2
<1>5. SubSeq(s, 1, Len(s)) = s
  OBVIOUS
<1> QED BY <1>4, <1>5 DEF Substituted, F

\* No placeholder is cut by a split.
LEMMA SplitApart ==
  ASSUME NEW s \in Seq(Atoms), NEW b \in Seq(Atoms), NEW known, DOMAIN known \subseteq Labels,
         b # <<>> /\ HeldTail(s) # <<>> => b[1] = "<"
  PROVE  Apart(SafePrefix(s), b, known)
<1> DEFINE a == SafePrefix(s)
           t == a \o b
<1>1. /\ a \in Seq(Atoms) /\ HeldTail(s) \in Seq(Atoms) /\ s = a \o HeldTail(s)
      /\ HeldTail(s) = <<>> => \A i \in 1..Len(s) : ~Begins(s, i)
  BY Split
<1> HIDE DEF a
<1>2. /\ t \in Seq(Atoms) /\ Len(t) = Len(a) + Len(b) /\ Len(a) \in Nat /\ Len(b) \in Nat
      /\ \A i \in 1..Len(a) : t[i] = a[i]
      /\ \A i \in 1..Len(b) : t[Len(a) + i] = b[i]
  BY <1>1
<1> HIDE DEF t
<1>3. ASSUME NEW i \in 1..Len(a), i + 2 > Len(a), TokenAt(t, i, known) PROVE FALSE
  <2>1. i \in 1..Len(t)
    BY <1>2
  <2>2. i + 2 <= Len(t) /\ t[i] = "<" /\ t[i + 1] \in Labels /\ t[i + 2] = ">"
    BY <1>2, <1>3, <2>1, TokenThere
  <2>3. b # <<>> /\ Len(b) > 0
    BY <1>2, <1>3, <2>2
  <2>4. "<" \notin Labels /\ "<" # ">"
    BY AtomAssumption
  <2>5. CASE HeldTail(s) # <<>>
    <3>1. t[Len(a) + 1] = "<"
      BY <1>2, <2>3, <2>5
    <3>2. i + 1 = Len(a) + 1 \/ i + 2 = Len(a) + 1
      BY <1>2, <1>3
    <3> QED BY <2>2, <2>4, <3>1, <3>2
  <2>6. CASE HeldTail(s) = <<>>
    <3>1. a = s
      BY <1>1, <2>6, ConcatEmptySeq
    <3>2. a[i] = "<"
      BY <1>2, <2>2
    <3>3. ASSUME NEW j \in i + 1..Len(a) PROVE a[j] \in Labels
      <4>1. j = i + 1 /\ j \in 1..Len(a)
        BY <1>2, <1>3
      <4> QED BY <1>2, <2>2, <4>1
    <3>4. Begins(s, i)
      BY <3>1, <3>2, <3>3 DEF Begins
    <3> QED BY <1>1, <2>6, <3>1, <3>4
  <2> QED BY <2>5, <2>6
<1> QED BY <1>3 DEF Apart, a, t

\* What a delta adds is what the whole text, restored, has more than before.
LEMMA DeltaRestores ==
  ASSUME NEW s \in Seq(Atoms), NEW p \in Seq(Atoms), NEW known, DOMAIN known \subseteq Labels,
         NEW render \in [Labels -> Atoms]
  PROVE  LET u == HeldTail(s) \o p
             R(x) == Substituted(x, known, render)
         IN  /\ R(SafePrefix(s \o p)) = R(SafePrefix(s)) \o R(SafePrefix(u))
             /\ R(s \o p) = R(SafePrefix(s)) \o R(u)
<1> DEFINE a == SafePrefix(s)
           h == HeldTail(s)
           u == h \o p
<1>1. /\ a \in Seq(Atoms) /\ h \in Seq(Atoms)
      /\ h # <<>> => h[1] = "<"
  BY Split
<1>2. u \in Seq(Atoms)
  BY <1>1
<1>3. h # <<>> => u # <<>> /\ u[1] = "<"
  <2> HIDE DEF h
  <2> QED BY <1>1
<1> HIDE DEF u, a, h
<1>4. SafePrefix(s \o p) = a \o SafePrefix(u) /\ s \o p = a \o u
  BY SplitGoesOn DEF a, u, h
<1>5. SafePrefix(u) \in Seq(Atoms) /\ HeldTail(u) \in Seq(Atoms) /\ u = SafePrefix(u) \o HeldTail(u)
  BY <1>2, Split
<1>6. SafePrefix(u) # <<>> => SafePrefix(u)[1] = u[1]
  <2> DEFINE x == SafePrefix(u)
             y == HeldTail(u)
  <2>1. x \in Seq(Atoms) /\ y \in Seq(Atoms) /\ u = x \o y
    BY <1>5
  <2> HIDE DEF x, y
  <2>2. x # <<>> => x[1] = u[1]
    BY <2>1
  <2> QED BY <2>2 DEF x
<1>7. Apart(a, SafePrefix(u), known)
  BY <1>3, <1>5, <1>6, SplitApart DEF a, h
<1>8. Apart(a, u, known)
  BY <1>2, <1>3, SplitApart DEF a, h
<1>9. Substituted(a \o SafePrefix(u), known, render)
        = Substituted(a, known, render) \o Substituted(SafePrefix(u), known, render)
  <2>1. a \in Seq(Atoms) /\ SafePrefix(u) \in Seq(Atoms)
    BY <1>1, <1>5
  <2> DEFINE v == SafePrefix(u)
  <2> HIDE DEF v
  <2>2. v \in Seq(Atoms) /\ Apart(a, v, known)
    BY <1>7, <2>1 DEF v
  <2>3. Substituted(a \o v, known, render) = Substituted(a, known, render) \o Substituted(v, known, render)
    BY <1>1, <2>2, RestoredByParts
  <2> QED BY <2>3 DEF v
<1>10. Substituted(a \o u, known, render) = Substituted(a, known, render) \o Substituted(u, known, render)
  BY <1>1, <1>2, <1>8, RestoredByParts, SMTT(30)
<1> QED BY <1>4, <1>9, <1>10 DEF a, u, h

\* What is held has no placeholder: it is as it will be shown if nothing follows.
LEMMA HeldIsRestored ==
  ASSUME NEW s \in Seq(Atoms), NEW known, DOMAIN known \subseteq Labels, NEW render \in [Labels -> Atoms]
  PROVE  /\ Substituted(HeldTail(s), known, render) = HeldTail(s)
         /\ Substituted(s, known, render) = Substituted(SafePrefix(s), known, render) \o HeldTail(s)
<1> DEFINE h == HeldTail(s)
<1>1. /\ h \in Seq(Atoms) /\ (h # <<>> => h[1] = "<")
      /\ h # <<>> => \A i \in 2..Len(h) : h[i] \in Labels
  BY Split
<1> HIDE DEF h
<1>2. ASSUME NEW i \in 1..Len(h), TokenAt(h, i, known) PROVE FALSE
  <2>1. i + 2 <= Len(h) /\ h[i + 2] = ">"
    BY <1>1, <1>2, TokenThere
  <2>2. h # <<>> /\ i + 2 \in 2..Len(h)
    BY <1>1, <2>1
  <2> QED BY <1>1, <2>1, <2>2, AtomAssumption
<1>3. Substituted(h, known, render) = h
  BY <1>1, <1>2, NothingToRestore
<1>4. <<>> \in Seq(Atoms) /\ s \o <<>> = s /\ h \o <<>> = h
  BY <1>1, ConcatEmptySeq
<1>5. Substituted(s \o <<>>, known, render)
        = Substituted(SafePrefix(s), known, render) \o Substituted(h \o <<>>, known, render)
  <2>1. <<>> \in Seq(Atoms)
    BY <1>4
  <2> DEFINE e == <<>>
  <2> HIDE DEF e
  <2>2. e \in Seq(Atoms)
    BY <2>1 DEF e
  <2>3. Substituted(s \o e, known, render)
          = Substituted(SafePrefix(s), known, render) \o Substituted(HeldTail(s) \o e, known, render)
    BY <2>2, DeltaRestores
  <2> QED BY <2>3 DEF e, h
<1> QED BY <1>3, <1>4, <1>5 DEF h

-----------------------------------------------------------------------------
(* What a step does to one channel *)

Same(c) ==
  /\ sent'[c] = sent[c] /\ phase'[c] = phase[c]
  /\ carry'[c] = carry[c] /\ acc'[c] = acc[c] /\ got'[c] = got[c]

Opens(c) ==
  /\ phase[c] = "new" /\ phase'[c] = "open"
  /\ sent'[c] = sent[c] /\ got'[c] = got[c]
  /\ carry'[c] \in {carry[c], <<>>} /\ acc'[c] \in {acc[c], <<>>}

Streams(c, p) ==
  /\ kind[c] \in TextKinds /\ phase[c] = "open" /\ phase'[c] = phase[c]
  /\ sent'[c] = sent[c] \o p
  /\ got'[c] = got[c] \o RehydrateText(SafePrefix(carry[c] \o p), ReplayOf(c))
  /\ carry'[c] = HeldTail(carry[c] \o p)

Collects(c, p) ==
  /\ kind[c] \notin TextKinds /\ phase[c] = "open" /\ phase'[c] = phase[c]
  /\ sent'[c] = sent[c] \o p /\ acc'[c] = acc[c] \o p /\ got'[c] = got[c]

Passes(c, p) ==
  /\ kind[c] = "thinking" /\ phase[c] = "open" /\ phase'[c] = phase[c]
  /\ sent'[c] = sent[c] \o p

Ends(c, p) ==
  /\ phase[c] = "open" /\ phase'[c] = "closed"
  /\ sent'[c] = sent[c] \o p
  /\ kind[c] \in TextKinds => carry'[c] = <<>>
  /\ kind[c] \in TextKinds \cup ArgumentKinds => got'[c] = got[c] \o Rest(c, p)
  /\ kind[c] = "server_tool_use" => got'[c] = got[c]

\* At the end of a text there may be nothing more.
Parts == Pieces \cup {<<>>}

ChannelStep(c) ==
  \/ Same(c) \/ Opens(c)
  \/ over = "no" /\ \E p \in Parts : Streams(c, p) \/ Collects(c, p) \/ Passes(c, p) \/ Ends(c, p)

\* A final copy is of all that was sent, and nothing follows it.
SnapshotStep(c) ==
  \/ snapshot'[c] = snapshot[c]
  \/ /\ api = "responses" /\ snapshot'[c] = Whole(c, sent[c]) /\ sent'[c] = sent[c]
     /\ phase'[c] = "closed" \/ over' # "no"

Scene ==
  \E s \in Scenarios : api = s.api /\ kind = s.kind /\ replay = s.replay /\ strict = s.strict

Shaped ==
  /\ DOMAIN sent = Channels /\ DOMAIN phase = Channels /\ DOMAIN carry = Channels
  /\ DOMAIN acc = Channels /\ DOMAIN got = Channels /\ DOMAIN snapshot = Channels

LEMMA SceneKnown ==
  ASSUME Scene
  PROVE  /\ api \in {"anthropic", "chat", "responses"}
         /\ DOMAIN replay \subseteq Labels /\ DOMAIN ToolReplay \subseteq Labels
         /\ \A c \in Channels :
              /\ DOMAIN ReplayOf(c) \subseteq Labels
              /\ api = "anthropic" => kind[c] \in {"text", "thinking", "tool_use", "server_tool_use"}
              /\ api # "anthropic" => kind[c] \in TextKinds \cup ArgumentKinds
              /\ api = "responses" => kind[c] \in {"output_text", "aux", "code", "arguments"}
<1>1. PICK s \in Scenarios : api = s.api /\ kind = s.kind /\ replay = s.replay /\ strict = s.strict
  BY DEF Scene
<1>2. /\ api \in {"anthropic", "chat", "responses"}
      /\ kind \in [Channels -> KindsOf(api)]
      /\ DOMAIN replay \subseteq Labels
  BY <1>1, ScenarioAssumption
<1>3. DOMAIN ToolReplay \subseteq Labels
  BY <1>2 DEF ToolReplay, ToolArgReplay, Restrict
<1>4. \A c \in Channels : kind[c] \in KindsOf(api)
  BY <1>2
<1> QED BY <1>2, <1>3, <1>4 DEF ReplayOf, KindsOf, TextKinds, ArgumentKinds

LEMMA PartsTyped == Parts \subseteq Seq(Atoms)
<1>1. <<>> \in Seq(Atoms)
  OBVIOUS
<1> QED BY <1>1, PieceAssumption DEF Parts

\* Every step leaves the request alone, and the channels' fields of all channels.
LEMMA ShapesStay ==
  ASSUME Shaped, [Next]_vars
  PROVE  Shaped' /\ scenario' = scenario
<1>1. CASE AnthropicNext
  BY <1>1 DEF Shaped, AnthropicNext, BlockStart, BlockStop, TextDelta, InputJsonDelta, ThinkingDelta,
     MessageStop, Incremental, Buffered, Sends, Emit, scenario
<1>2. CASE ChatNext
  BY <1>2, ZenonT(60) DEF Shaped, ChatNext, ChatDelta, FinishWith, Finish, Done, Flushed, Incremental, Buffered,
     Sends, Emit, scenario
<1>3. CASE ResponsesNext
  BY <1>3 DEF Shaped, ResponsesNext, Delta, TextDone, ArgumentsDone, Completed, Incremental, Buffered,
     Sends, Emit, scenario
<1>4. CASE EndOfStream
  BY <1>4 DEF Shaped, EndOfStream, scenario
<1>5. CASE UNCHANGED vars
  BY <1>5 DEF Shaped, vars, scenario
<1> QED BY <1>1, <1>2, <1>3, <1>4, <1>5 DEF Next

\* A text delta, an argument delta, for the channels it is for and for the others.
LEMMA DeltaSteps ==
  ASSUME Shaped, NEW c \in Channels, NEW p \in Pieces, phase[c] = "open", over = "no", NEW d \in Channels
  PROVE  /\ Incremental(c, p) /\ kind[c] \in TextKinds => ChannelStep(d) /\ SnapshotStep(d)
         /\ Buffered(c, p) /\ kind[c] \notin TextKinds => ChannelStep(d) /\ SnapshotStep(d)
<1>1. p \in Parts
  BY DEF Parts
<1>2. ASSUME Incremental(c, p), kind[c] \in TextKinds PROVE ChannelStep(d) /\ SnapshotStep(d)
  <2>1. CASE d = c
    <3>1. Streams(c, p)
      BY <1>2 DEF Shaped, Incremental, Sends, Emit, Streams
    <3> QED BY <1>1, <1>2, <2>1, <3>1 DEF ChannelStep, SnapshotStep, Incremental
  <2>2. CASE d # c
    BY <1>2, <2>2 DEF Shaped, Incremental, Sends, Emit, ChannelStep, SnapshotStep, Same
  <2> QED BY <2>1, <2>2
<1>3. ASSUME Buffered(c, p), kind[c] \notin TextKinds PROVE ChannelStep(d) /\ SnapshotStep(d)
  <2>1. CASE d = c
    <3>1. Collects(c, p)
      BY <1>3 DEF Shaped, Buffered, Sends, Collects
    <3> QED BY <1>1, <1>3, <2>1, <3>1 DEF ChannelStep, SnapshotStep, Buffered
  <2>2. CASE d # c
    BY <1>3, <2>2 DEF Shaped, Buffered, Sends, ChannelStep, SnapshotStep, Same
  <2> QED BY <2>1, <2>2
<1> QED BY <1>2, <1>3

\* A channel that ends with nothing more, as two protocols have it.
LEMMA FlushSteps ==
  ASSUME Shaped, NEW ended, NEW last, Flushed(ended, last), over = "no", UNCHANGED <<scenario, snapshot>>,
         NEW d \in Channels, d \in ended => phase[d] = "open", d \in ended => last[d] \in Parts,
         d \in ended => sent'[d] = sent[d] \o last[d], d \notin ended => sent'[d] = sent[d],
         kind[d] \in TextKinds \cup ArgumentKinds
  PROVE  ChannelStep(d) /\ SnapshotStep(d)
<1>1. CASE d \in ended
  <2>1. Ends(d, last[d])
    <3>1. kind[d] # "server_tool_use"
      BY DEF TextKinds, ArgumentKinds
    <3> QED BY <1>1, <3>1 DEF Flushed, Ends
  <2> QED BY <1>1, <2>1 DEF ChannelStep, SnapshotStep
<1>2. CASE d \notin ended
  BY <1>2 DEF Flushed, ChannelStep, Same, SnapshotStep
<1> QED BY <1>1, <1>2

LEMMA AnthropicSteps ==
  ASSUME Scene, Shaped, \A c \in Channels : sent[c] \in Seq(Atoms), AnthropicNext, NEW d \in Channels
  PROVE  ChannelStep(d) /\ SnapshotStep(d)
<1>1. <<>> \in Parts /\ sent[d] \o <<>> = sent[d]
  BY ConcatEmptySeq DEF Parts
<1>2. \A c \in Channels : api = "anthropic" => kind[c] \in {"text", "thinking", "tool_use", "server_tool_use"}
  BY SceneKnown
<1>3. ASSUME NEW c \in Channels, BlockStart(c) PROVE ChannelStep(d) /\ SnapshotStep(d)
  <2>1. CASE d = c
    BY <1>3, <2>1 DEF BlockStart, Shaped, ChannelStep, Opens, SnapshotStep
  <2>2. CASE d # c
    BY <1>3, <2>2 DEF BlockStart, Shaped, ChannelStep, Same, SnapshotStep
  <2> QED BY <2>1, <2>2
<1>4. ASSUME NEW c \in Channels, BlockStop(c) PROVE ChannelStep(d) /\ SnapshotStep(d)
  <2>1. CASE d = c
    <3>1. sent'[c] = sent[c] \o <<>>
      BY <1>1, <1>4, <2>1 DEF BlockStop
    <3>2. /\ phase[c] = "open" /\ phase'[c] = "closed"
          /\ kind[c] \in TextKinds => carry'[c] = <<>>
      BY <1>2, <1>4 DEF BlockStop, Running, Shaped, TextKinds
    <3>3. /\ kind[c] \in TextKinds \cup ArgumentKinds => got'[c] = got[c] \o Rest(c, <<>>)
          /\ kind[c] = "server_tool_use" => got'[c] = got[c]
      <4>1. CASE kind[c] \in {"text", "tool_use"}
        BY <1>4, <4>1 DEF BlockStop, Shaped, Emit
      <4>2. CASE kind[c] \notin {"text", "tool_use"}
        <5>1. kind[c] \in {"thinking", "server_tool_use"} /\ got' = got
          BY <1>2, <1>4, <4>2 DEF BlockStop
        <5> QED BY <5>1 DEF TextKinds, ArgumentKinds
      <4> QED BY <4>1, <4>2
    <3>4. Ends(c, <<>>)
      BY <3>1, <3>2, <3>3 DEF Ends
    <3> QED BY <1>1, <1>4, <2>1, <3>4 DEF ChannelStep, SnapshotStep, BlockStop, Running
  <2>2. CASE d # c
    BY <1>4, <2>2 DEF BlockStop, Emit, Shaped, ChannelStep, Same, SnapshotStep
  <2> QED BY <2>1, <2>2
<1>5. ASSUME NEW c \in Channels, NEW p \in Pieces, TextDelta(c, p) PROVE ChannelStep(d) /\ SnapshotStep(d)
  <2>1. phase[c] = "open" /\ over = "no" /\ Incremental(c, p) /\ kind[c] \in TextKinds
    BY <1>5 DEF TextDelta, Running, TextKinds
  <2> QED BY <2>1, DeltaSteps
<1>6. ASSUME NEW c \in Channels, NEW p \in Pieces, InputJsonDelta(c, p) PROVE ChannelStep(d) /\ SnapshotStep(d)
  <2>1. phase[c] = "open" /\ over = "no" /\ Buffered(c, p) /\ kind[c] \notin TextKinds
    BY <1>6 DEF InputJsonDelta, Running, TextKinds
  <2> QED BY <2>1, DeltaSteps
<1>7. ASSUME NEW c \in Channels, NEW p \in Pieces, ThinkingDelta(c, p) PROVE ChannelStep(d) /\ SnapshotStep(d)
  <2>1. CASE d = c
    <3>1. Passes(c, p) /\ p \in Parts
      BY <1>7 DEF ThinkingDelta, Running, Sends, Shaped, Passes, Parts
    <3> QED BY <1>7, <2>1, <3>1 DEF ChannelStep, SnapshotStep, ThinkingDelta, Running
  <2>2. CASE d # c
    BY <1>7, <2>2 DEF ThinkingDelta, Sends, Emit, Shaped, ChannelStep, Same, SnapshotStep
  <2> QED BY <2>1, <2>2
<1>8. CASE MessageStop
  BY <1>8 DEF MessageStop, ChannelStep, Same, SnapshotStep
<1> QED BY <1>3, <1>4, <1>5, <1>6, <1>7, <1>8 DEF AnthropicNext

LEMMA ChatSteps ==
  ASSUME Scene, Shaped, \A c \in Channels : sent[c] \in Seq(Atoms), ChatNext, NEW d \in Channels
  PROVE  ChannelStep(d) /\ SnapshotStep(d)
<1>1. <<>> \in Parts /\ sent[d] \o <<>> = sent[d]
  BY ConcatEmptySeq DEF Parts
<1>2. api = "chat" => kind[d] \in TextKinds \cup ArgumentKinds
  BY SceneKnown
<1>3. ASSUME NEW c \in Channels, NEW p \in Pieces, ChatDelta(c, p) PROVE ChannelStep(d) /\ SnapshotStep(d)
  <2>1. phase[c] = "open" /\ over = "no"
    BY <1>3 DEF ChatDelta, Running
  <2>2. CASE kind[c] \in TextKinds
    BY <1>3, <2>1, <2>2, DeltaSteps DEF ChatDelta
  <2>3. CASE kind[c] \notin TextKinds
    BY <1>3, <2>1, <2>3, DeltaSteps DEF ChatDelta
  <2> QED BY <2>2, <2>3
<1>4. ASSUME NEW c \in Channels, NEW p \in Pieces, FinishWith(c, p) PROVE ChannelStep(d) /\ SnapshotStep(d)
  <2> DEFINE ended == OfChoice(choice[c])
             last == [e \in Channels |-> IF e = c THEN p ELSE <<>>]
  <2>1. /\ Flushed(ended, last) /\ over = "no" /\ UNCHANGED <<scenario, snapshot>> /\ api = "chat"
        /\ c \in ended /\ \A e \in ended : phase[e] = "open"
        /\ sent' = [sent EXCEPT ![c] = @ \o p]
    BY <1>4 DEF FinishWith, Running, OfChoice, Sends
  <2>2. p \in Parts /\ last[d] \in Parts
    BY <1>1 DEF Parts
  <2>3. (d \in ended => sent'[d] = sent[d] \o last[d]) /\ (d \notin ended => sent'[d] = sent[d])
    BY <1>1, <2>1 DEF Shaped
  <2> HIDE DEF ended, last
  <2> QED BY <1>2, <2>1, <2>2, <2>3, FlushSteps
<1>5. ASSUME NEW i \in {choice[c] : c \in Channels}, Finish(i) PROVE ChannelStep(d) /\ SnapshotStep(d)
  <2> DEFINE ended == OfChoice(i)
             last == [c \in Channels |-> <<>>]
  <2>1. /\ Flushed(ended, last) /\ over = "no" /\ UNCHANGED <<scenario, snapshot>> /\ api = "chat"
        /\ \A e \in ended : phase[e] = "open"
        /\ sent' = sent
    BY <1>5 DEF Finish, OfChoice
  <2>2. last[d] \in Parts /\ sent'[d] = sent[d] /\ sent'[d] = sent[d] \o last[d]
    BY <1>1, <2>1
  <2> HIDE DEF ended, last
  <2> QED BY <1>2, <2>1, <2>2, FlushSteps
<1>6. CASE Done
  <2> DEFINE ended == {c \in Channels : phase[c] = "open"}
             last == [c \in Channels |-> <<>>]
  <2>1. /\ Flushed(ended, last) /\ over = "no" /\ UNCHANGED <<scenario, snapshot>> /\ api = "chat"
        /\ \A e \in ended : phase[e] = "open"
        /\ sent' = sent
    BY <1>6 DEF Done
  <2>2. last[d] \in Parts /\ sent'[d] = sent[d] /\ sent'[d] = sent[d] \o last[d]
    BY <1>1, <2>1
  <2> HIDE DEF ended, last
  <2> QED BY <1>2, <2>1, <2>2, FlushSteps
<1> QED BY <1>3, <1>4, <1>5, <1>6 DEF ChatNext

LEMMA ResponsesSteps ==
  ASSUME Scene, Shaped, \A c \in Channels : sent[c] \in Seq(Atoms), ResponsesNext, NEW d \in Channels
  PROVE  ChannelStep(d) /\ SnapshotStep(d)
<1>1. <<>> \in Parts /\ sent[d] \o <<>> = sent[d]
  BY ConcatEmptySeq DEF Parts
<1>2. ASSUME NEW c \in Channels, NEW p \in Pieces, Delta(c, p) PROVE ChannelStep(d) /\ SnapshotStep(d)
  <2>1. phase[c] = "open" /\ over = "no"
    BY <1>2 DEF Delta, Running
  <2>2. CASE kind[c] \in TextKinds
    BY <1>2, <2>1, <2>2, DeltaSteps DEF Delta
  <2>3. CASE kind[c] \notin TextKinds
    BY <1>2, <2>1, <2>3, DeltaSteps DEF Delta
  <2> QED BY <2>2, <2>3
<1>3. ASSUME NEW c \in Channels, TextDone(c) PROVE ChannelStep(d) /\ SnapshotStep(d)
  <2>1. CASE d = c
    <3>1. kind[c] # "server_tool_use" /\ over = "no"
      BY <1>3 DEF TextDone, Running, TextKinds
    <3>2. Ends(c, <<>>)
      BY <1>1, <1>3, <2>1, <3>1 DEF TextDone, Running, Shaped, Emit, Ends
    <3>3. SnapshotStep(c)
      BY <1>3 DEF TextDone, Shaped, SnapshotStep
    <3> QED BY <1>1, <2>1, <3>1, <3>2, <3>3 DEF ChannelStep
  <2>2. CASE d # c
    BY <1>3, <2>2 DEF TextDone, Emit, Shaped, ChannelStep, Same, SnapshotStep
  <2> QED BY <2>1, <2>2
<1>4. ASSUME NEW c \in Channels, ArgumentsDone(c) PROVE ChannelStep(d) /\ SnapshotStep(d)
  <2>1. /\ kind[c] \in ArgumentKinds /\ kind[c] \notin TextKinds /\ kind[c] # "server_tool_use"
        /\ over = "no" /\ phase[c] = "open" /\ phase' = [phase EXCEPT ![c] = "closed"]
        /\ acc' = [acc EXCEPT ![c] = <<>>] /\ UNCHANGED <<carry, snapshot>>
    BY <1>4 DEF ArgumentsDone, Running, ArgumentKinds, TextKinds
  <2>2. CASE UNCHANGED <<sent, deltas>> /\ Emit(c, Rest(c, <<>>))
    <3>1. CASE d = c
      <4>1. Ends(c, <<>>)
        BY <1>1, <2>1, <2>2, <3>1 DEF Shaped, Emit, Ends
      <4> QED BY <1>1, <2>1, <3>1, <4>1 DEF ChannelStep, SnapshotStep
    <3>2. CASE d # c
      BY <2>1, <2>2, <3>2 DEF Emit, Shaped, ChannelStep, Same, SnapshotStep
    <3> QED BY <3>1, <3>2
  <2>3. ASSUME NEW p \in Pieces, acc[c] = <<>>, Sends(c, p), Emit(c, Arguments(c, p))
        PROVE  ChannelStep(d) /\ SnapshotStep(d)
    <3>1. CASE d = c
      <4>1. <<>> \o p = p /\ p \in Parts
        BY PieceAssumption, ConcatEmptySeq DEF Parts
      <4>2. Rest(c, p) = Arguments(c, p)
        BY <2>1, <2>3, <4>1 DEF Rest
      <4>3. Ends(c, p)
        BY <2>1, <2>3, <4>2 DEF Shaped, Sends, Emit, Ends
      <4> QED BY <2>1, <3>1, <4>1, <4>3 DEF ChannelStep, SnapshotStep
    <3>2. CASE d # c
      BY <2>1, <2>3, <3>2 DEF Sends, Emit, Shaped, ChannelStep, Same, SnapshotStep
    <3> QED BY <3>1, <3>2
  <2> QED BY <1>4, <2>2, <2>3 DEF ArgumentsDone
<1>5. CASE Completed
  BY <1>5 DEF Completed, ChannelStep, Same, SnapshotStep
<1> QED BY <1>2, <1>3, <1>4, <1>5 DEF ResponsesNext

LEMMA EveryStep ==
  ASSUME Scene, Shaped, \A c \in Channels : sent[c] \in Seq(Atoms), [Next]_vars, NEW d \in Channels
  PROVE  /\ ChannelStep(d) /\ SnapshotStep(d)
         /\ over # "no" => over' # "no"
<1>1. ChannelStep(d) /\ SnapshotStep(d)
  <2>1. CASE EndOfStream \/ UNCHANGED vars
    BY <2>1 DEF EndOfStream, vars, ChannelStep, Same, SnapshotStep
  <2> QED BY <2>1, AnthropicSteps, ChatSteps, ResponsesSteps DEF Next
<1>2. over # "no" => over' # "no"
  BY DEF Next, AnthropicNext, ChatNext, ResponsesNext, EndOfStream, BlockStart, BlockStop, TextDelta,
     InputJsonDelta, ThinkingDelta, MessageStop, ChatDelta, FinishWith, Finish, Done, Delta, TextDone,
     ArgumentsDone, Completed, Running, vars
<1> QED BY <1>1, <1>2

-----------------------------------------------------------------------------
(* What every channel has *)

\* Before its end a text is given up to its held tail; arguments are kept.
ChannelRight(c) ==
  /\ phase[c] \in {"new", "open", "closed"}
  /\ sent[c] \in Seq(Atoms)
  /\ phase[c] = "new" => sent[c] = <<>>
  /\ kind[c] \in TextKinds =>
       IF phase[c] = "closed"
       THEN carry[c] = <<>> /\ got[c] = RehydrateText(sent[c], ReplayOf(c))
       ELSE carry[c] = HeldTail(sent[c]) /\ got[c] = RehydrateText(SafePrefix(sent[c]), ReplayOf(c))
  /\ kind[c] \in ArgumentKinds =>
       IF phase[c] = "closed" THEN got[c] = Arguments(c, sent[c]) ELSE got[c] = <<>> /\ acc[c] = sent[c]
  /\ kind[c] = "server_tool_use" => got[c] = <<>>

\* A final copy is of a text that is over.
SnapshotRight(c) ==
  snapshot[c] # None =>
    api = "responses" /\ snapshot[c] = Whole(c, sent[c]) /\ (phase[c] = "closed" \/ over # "no")

StreamInv ==
  Scene /\ Shaped /\ \A c \in Channels : ChannelRight(c) /\ SnapshotRight(c)

LEMMA NothingSent == HeldTail(<<>>) = <<>> /\ SafePrefix(<<>>) = <<>>
<1> DEFINE e == <<>>
<1>1. e \in Seq(Atoms) /\ \A i \in 1..Len(e) : FALSE
  OBVIOUS
<1> HIDE DEF e
<1>2. HeldTail(e) = <<>> /\ SafePrefix(e) = e
  BY <1>1, NothingHeld
<1> QED BY <1>2 DEF e

LEMMA NothingRestored ==
  ASSUME NEW known, DOMAIN known \subseteq Labels
  PROVE  RehydrateText(<<>>, known) = <<>>
<1> DEFINE e == <<>>
<1>1. e \in Seq(Atoms) /\ \A i \in 1..Len(e) : FALSE
  OBVIOUS
<1> HIDE DEF e
<1>2. Substituted(e, known, Value) = e
  BY <1>1, NothingToRestore, AtomAssumption
<1> QED BY <1>2 DEF e, RehydrateText

LEMMA StreamInit == Init => StreamInv
<1> SUFFICES ASSUME Init PROVE StreamInv
  OBVIOUS
<1>1. Scene /\ Shaped
  BY DEF Init, Scene, Shaped
<1>2. ASSUME NEW c \in Channels PROVE ChannelRight(c) /\ SnapshotRight(c)
  <2>1. /\ sent[c] = <<>> /\ carry[c] = <<>> /\ acc[c] = <<>> /\ got[c] = <<>> /\ snapshot[c] = None
        /\ phase[c] \in {"new", "open"}
    BY DEF Init
  <2>2. RehydrateText(<<>>, ReplayOf(c)) = <<>>
    BY <1>1, SceneKnown, NothingRestored
  <2>3. <<>> \in Seq(Atoms)
    OBVIOUS
  <2> QED BY <2>1, <2>2, <2>3, NothingSent DEF ChannelRight, SnapshotRight
<1> QED BY <1>1, <1>2 DEF StreamInv

LEMMA ChannelKept ==
  ASSUME Scene, NEW c \in Channels, ChannelRight(c), ChannelStep(c), scenario' = scenario
  PROVE  ChannelRight(c)'
<1> DEFINE known == ReplayOf(c)
           s == sent[c]
<1>1. DOMAIN known \subseteq Labels /\ Value \in [Labels -> Atoms] /\ s \in Seq(Atoms)
  BY SceneKnown, AtomAssumption DEF ChannelRight
<1>2. ReplayOf(c)' = ReplayOf(c) /\ kind' = kind /\ \A t : Arguments(c, t)' = Arguments(c, t)
  BY DEF scenario, ReplayOf, ToolReplay, Arguments
<1>3. \A k \in TextKinds : k \notin ArgumentKinds /\ k # "server_tool_use" /\ k # "thinking"
  BY DEF TextKinds, ArgumentKinds
<1>4. "server_tool_use" \notin ArgumentKinds /\ "thinking" \notin ArgumentKinds \cup {"server_tool_use"}
  BY DEF ArgumentKinds
<1>5. CASE Same(c)
  BY <1>2, <1>5 DEF ChannelRight, Same
<1>6. CASE Opens(c)
  <2>1. phase[c] = "new" /\ s = <<>>
    BY <1>6 DEF Opens, ChannelRight
  <2>2. kind[c] \in TextKinds => carry'[c] = <<>> /\ carry[c] = <<>>
    BY <1>6, <2>1, NothingSent DEF Opens, ChannelRight
  <2>3. kind[c] \in ArgumentKinds => acc'[c] = <<>> /\ acc[c] = <<>>
    BY <1>6, <2>1 DEF Opens, ChannelRight
  <2> QED BY <1>2, <1>6, <2>1, <2>2, <2>3 DEF ChannelRight, Opens
<1>7. ASSUME NEW p \in Parts, Streams(c, p) PROVE ChannelRight(c)'
  <2>1. p \in Seq(Atoms)
    BY PartsTyped
  <2>2. /\ carry[c] = HeldTail(s) /\ got[c] = RehydrateText(SafePrefix(s), known)
    BY <1>7 DEF Streams, ChannelRight
  <2>3. carry'[c] = HeldTail(s \o p)
    BY <1>1, <1>7, <2>1, <2>2, SplitGoesOn DEF Streams
  <2>4. got'[c] = RehydrateText(SafePrefix(s \o p), known)
    <3>1. Substituted(SafePrefix(s \o p), known, Value)
            = Substituted(SafePrefix(s), known, Value) \o Substituted(SafePrefix(HeldTail(s) \o p), known, Value)
      <4> HIDE DEF known, s
      <4> QED BY <1>1, <2>1, DeltaRestores
    <3> QED BY <1>7, <2>2, <3>1 DEF Streams, RehydrateText
  <2>5. s \o p \in Seq(Atoms)
    BY <1>1, <2>1
  <2>6. sent'[c] = s \o p /\ phase'[c] = "open" /\ kind[c] \in TextKinds
    BY <1>7 DEF Streams
  <2> HIDE DEF known, s
  <2> QED BY <1>2, <1>3, <2>3, <2>4, <2>5, <2>6 DEF ChannelRight, known
<1>8. ASSUME NEW p \in Parts, Collects(c, p) PROVE ChannelRight(c)'
  <2>1. sent'[c] \in Seq(Atoms)
    BY <1>1, <1>8, PartsTyped DEF Collects
  <2> QED BY <1>2, <1>8, <2>1 DEF ChannelRight, Collects
<1>9. ASSUME NEW p \in Parts, Passes(c, p) PROVE ChannelRight(c)'
  <2>1. sent'[c] \in Seq(Atoms)
    BY <1>1, <1>9, PartsTyped DEF Passes
  <2> QED BY <1>2, <1>3, <1>4, <1>9, <2>1 DEF ChannelRight, Passes
<1>10. ASSUME NEW p \in Parts, Ends(c, p) PROVE ChannelRight(c)'
  <2>1. p \in Seq(Atoms) /\ sent'[c] = s \o p /\ s \o p \in Seq(Atoms) /\ phase'[c] = "closed"
    BY <1>1, <1>10, PartsTyped DEF Ends
  <2>2. CASE kind[c] \in TextKinds
    <3>1. /\ carry[c] = HeldTail(s) /\ got[c] = RehydrateText(SafePrefix(s), known)
          /\ carry'[c] = <<>> /\ got'[c] = got[c] \o Rest(c, p)
      BY <1>10, <2>2 DEF Ends, ChannelRight
    <3>2. Substituted(s \o p, known, Value)
            = Substituted(SafePrefix(s), known, Value) \o Substituted(HeldTail(s) \o p, known, Value)
      <4>1. p \in Seq(Atoms)
        BY <2>1
      <4> HIDE DEF known, s
      <4> QED BY <1>1, <4>1, DeltaRestores
    <3>3. got'[c] = RehydrateText(s \o p, known)
      BY <2>2, <3>1, <3>2 DEF Rest, RehydrateText
    <3> HIDE DEF known, s
    <3> QED BY <1>2, <1>3, <2>1, <2>2, <3>1, <3>3 DEF ChannelRight, known
  <2>3. CASE kind[c] \in ArgumentKinds
    <3>1. got[c] = <<>> /\ acc[c] = s /\ got'[c] = got[c] \o Rest(c, p)
      BY <1>10, <2>3 DEF Ends, ChannelRight
    <3>2. Rest(c, p) = Arguments(c, s \o p)
      BY <1>3, <2>3, <3>1 DEF Rest
    <3>3. Arguments(c, s \o p) \in Seq(Atoms)
      <4>1. /\ DOMAIN ToolArgReplay(replay, strict) \subseteq Labels
            /\ (IF json[c] THEN Escaped ELSE Value) \in [Labels -> Atoms]
        BY SceneKnown, AtomAssumption DEF ToolReplay
      <4> HIDE DEF s
      <4> QED BY <2>1, <4>1, SubstitutedTyped DEF Arguments, RehydrateJsonString
    <3>4. got'[c] = Arguments(c, s \o p)
      BY <3>1, <3>2, <3>3, ConcatEmptySeq
    <3> HIDE DEF known, s
    <3> QED BY <1>2, <1>3, <1>4, <2>1, <2>3, <3>4 DEF ChannelRight
  <2>4. CASE kind[c] \notin TextKinds \cup ArgumentKinds
    <3> HIDE DEF known, s
    <3> QED BY <1>2, <1>10, <2>1, <2>4 DEF ChannelRight, Ends
  <2> QED BY <2>2, <2>3, <2>4
<1> QED BY <1>5, <1>6, <1>7, <1>8, <1>9, <1>10 DEF ChannelStep

LEMMA SnapshotKept ==
  ASSUME NEW c \in Channels, SnapshotRight(c), ChannelStep(c), SnapshotStep(c), scenario' = scenario,
         over # "no" => over' # "no"
  PROVE  SnapshotRight(c)'
<1>1. api' = api /\ \A t : Whole(c, t)' = Whole(c, t)
  BY DEF scenario, Whole, ReplayOf, ToolReplay, Arguments
<1>2. ASSUME snapshot'[c] = snapshot[c], snapshot[c] # None
      PROVE  sent'[c] = sent[c] /\ (phase'[c] = "closed" \/ over' # "no")
  <2>1. phase[c] = "closed" \/ over # "no"
    BY <1>2 DEF SnapshotRight
  <2>2. Same(c) \/ Opens(c)
    BY <2>1 DEF ChannelStep, Streams, Collects, Passes, Ends
  <2> QED BY <2>1, <2>2 DEF Same, Opens
<1>3. CASE snapshot'[c] = snapshot[c]
  BY <1>1, <1>2, <1>3 DEF SnapshotRight
<1>4. CASE snapshot'[c] # snapshot[c]
  BY <1>1, <1>4 DEF SnapshotRight, SnapshotStep
<1> QED BY <1>3, <1>4

LEMMA StreamNext == StreamInv /\ [Next]_vars => StreamInv'
<1> SUFFICES ASSUME StreamInv, [Next]_vars PROVE StreamInv'
  OBVIOUS
<1>1. Scene /\ Shaped /\ \A c \in Channels : ChannelRight(c) /\ SnapshotRight(c)
  BY DEF StreamInv
<1>2. Shaped' /\ scenario' = scenario
  BY <1>1, ShapesStay
<1>3. Scene'
  BY <1>1, <1>2 DEF Scene, scenario
<1>4. \A c \in Channels : sent[c] \in Seq(Atoms)
  BY <1>1 DEF ChannelRight
<1>5. ASSUME NEW c \in Channels PROVE ChannelRight(c)' /\ SnapshotRight(c)'
  <2>1. /\ ChannelStep(c) /\ SnapshotStep(c)
        /\ over # "no" => over' # "no"
    BY <1>1, <1>4, EveryStep
  <2> QED BY <1>1, <1>2, <2>1, ChannelKept, SnapshotKept
<1> QED BY <1>2, <1>3, <1>5 DEF StreamInv

LEMMA StreamAlways == Spec => []StreamInv
<1> QED BY StreamInit, StreamNext, PTL DEF Spec

-----------------------------------------------------------------------------
(* What the client receives *)

\* However the upstream cuts a text into events and interleaves its channels,
\* what the client has, with the tail that is held, is the restored text of all
\* that was sent (_transform_event, transform_openai_event,
\* transform_responses_event), and the held tail is the beginning of one
\* placeholder at most.
THEOREM StreamedTextIsExact == Spec => []TextExact
<1>1. StreamInv => TextExact
  <2> SUFFICES ASSUME StreamInv, NEW c \in Channels, kind[c] \in TextKinds
               PROVE  /\ got[c] \o carry[c] = RehydrateText(sent[c], ReplayOf(c))
                      /\ carry[c] # <<>> =>
                           /\ phase[c] # "closed" /\ carry[c][1] = "<"
                           /\ \A i \in 2..Len(carry[c]) : carry[c][i] \in Labels
    BY DEF TextExact
  <2> DEFINE s == sent[c]
             known == ReplayOf(c)
  <2>1. Scene /\ ChannelRight(c)
    BY DEF StreamInv
  <2>2. DOMAIN known \subseteq Labels /\ Value \in [Labels -> Atoms] /\ s \in Seq(Atoms)
    BY <2>1, SceneKnown, AtomAssumption DEF ChannelRight
  <2>3. CASE phase[c] = "closed"
    <3>1. carry[c] = <<>> /\ got[c] = Substituted(s, known, Value)
      BY <2>1, <2>3 DEF ChannelRight, RehydrateText
    <3> HIDE DEF s, known
    <3>2. Substituted(s, known, Value) \in Seq(Atoms)
      BY <2>2, SubstitutedTyped
    <3>3. Substituted(s, known, Value) \o <<>> = Substituted(s, known, Value)
      BY <3>2, ConcatEmptySeq
    <3> QED BY <3>1, <3>3 DEF RehydrateText, s, known
  <2>4. CASE phase[c] # "closed"
    <3>1. carry[c] = HeldTail(s) /\ got[c] = Substituted(SafePrefix(s), known, Value)
      BY <2>1, <2>4 DEF ChannelRight, RehydrateText
    <3> HIDE DEF s, known
    <3>2. Substituted(s, known, Value) = Substituted(SafePrefix(s), known, Value) \o HeldTail(s)
      BY <2>2, HeldIsRestored
    <3>3. HeldTail(s) # <<>> =>
            HeldTail(s)[1] = "<" /\ \A i \in 2..Len(HeldTail(s)) : HeldTail(s)[i] \in Labels
      BY <2>2, Split
    <3> QED BY <2>4, <3>1, <3>2, <3>3 DEF RehydrateText, s, known
  <2> QED BY <2>3, <2>4
<1> QED BY <1>1, StreamAlways, PTL

\* The arguments of a call that the client executes reach it once, whole and
\* restored as JSON where they are JSON, when the call ends
\* (rehydrate_json_string), whichever protocol ends it and with whatever else in
\* its last event; of the input of one the server executes nothing ever does.
THEOREM ArgumentsComeWhole == Spec => []ArgumentsExact
<1>1. StreamInv => ArgumentsExact
  BY DEF StreamInv, ChannelRight, ArgumentsExact
<1> QED BY <1>1, StreamAlways, PTL

\* The increments of a finished output add up to the copy of it in the final
\* events (response.*.done, response.completed).
THEOREM FinalCopyAgrees == Spec => []SnapshotAgrees
<1>1. StreamInv => SnapshotAgrees
  <2> SUFFICES ASSUME StreamInv, NEW c \in Channels, phase[c] = "closed", snapshot[c] # None
               PROVE  got[c] = snapshot[c]
    BY DEF SnapshotAgrees
  <2>1. Scene /\ ChannelRight(c) /\ SnapshotRight(c)
    BY DEF StreamInv
  <2>2. api = "responses" /\ snapshot[c] = Whole(c, sent[c])
    BY <2>1 DEF SnapshotRight
  <2>3. kind[c] \in TextKinds \/ (kind[c] \in ArgumentKinds /\ kind[c] \notin TextKinds)
    <3>1. kind[c] \in {"output_text", "aux", "code", "arguments"}
      BY <2>1, <2>2, SceneKnown
    <3> QED BY <3>1 DEF TextKinds, ArgumentKinds
  <2> QED BY <2>1, <2>2, <2>3 DEF ChannelRight, Whole
<1> QED BY <1>1, StreamAlways, PTL

-----------------------------------------------------------------------------
(* What the client executes *)

\* What an atom of a restored text may be.
LEMMA RestoredOf ==
  ASSUME NEW s \in Seq(Atoms), NEW known, DOMAIN known \subseteq Labels, NEW render \in [Labels -> Atoms],
         NEW P, \A i \in 1..Len(s) : s[i] \in P, \A l \in DOMAIN known : render[l] \in P
  PROVE  Substituted(s, known, render) \in Seq(P)
<1> DEFINE F == Suffixes(s, known, render)
           n == Len(s) + 1
           S == {i \in 1..n : F[i] \in Seq(P)}
<1>1. n \in Nat /\ Len(s) \in Nat
  OBVIOUS
<1>2. /\ F[Len(s) + 1] = <<>>
      /\ \A i \in 1..Len(s) : TokenAt(s, i, known) => F[i] = <<render[s[i + 1]]>> \o F[i + 3]
      /\ \A i \in 1..Len(s) : ~TokenAt(s, i, known) => F[i] = <<s[i]>> \o F[i + 1]
  BY SuffixEquations, ZenonT(60)
<1> HIDE DEF F
<1>3. ASSUME NEW i \in 1..n, \A j \in i + 1..n : j \in S PROVE i \in S
  <2>1. CASE i = n
    <3>1. F[i] = <<>>
      BY <1>2, <2>1
    <3>2. <<>> \in Seq(P)
      OBVIOUS
    <3> QED BY <3>1, <3>2
  <2>2. CASE i \in 1..Len(s) /\ TokenAt(s, i, known)
    <3>1. i + 2 <= Len(s) /\ s[i + 1] \in DOMAIN known
      BY <2>2, TokenThere
    <3>2. i + 3 \in i + 1..n
      BY <1>1, <2>2, <3>1
    <3>3. F[i + 3] \in Seq(P) /\ render[s[i + 1]] \in P
      BY <1>3, <3>1, <3>2
    <3>4. F[i] = <<render[s[i + 1]]>> \o F[i + 3]
      BY <1>2, <2>2
    <3>5. <<render[s[i + 1]]>> \in Seq(P)
      BY <3>3
    <3>6. F[i] \in Seq(P)
      BY <3>3, <3>4, <3>5
    <3> QED BY <3>6
  <2>3. CASE i \in 1..Len(s) /\ ~TokenAt(s, i, known)
    <3>1. i + 1 \in i + 1..n /\ s[i] \in P
      BY <1>1, <2>3
    <3>2. F[i + 1] \in Seq(P)
      BY <1>3, <3>1
    <3>3. F[i] = <<s[i]>> \o F[i + 1]
      BY <1>2, <2>3
    <3>4. <<s[i]>> \in Seq(P)
      BY <3>1
    <3>5. F[i] \in Seq(P)
      BY <3>2, <3>3, <3>4
    <3> QED BY <3>5
  <2> QED BY <1>1, <2>1, <2>2, <2>3
<1>4. 1 \in S
  <2>1. 1 \in 1..n
    BY <1>1
  <2> HIDE DEF S, n
  <2>2. \A i \in 1..n : i \in S
    BY <1>1, <1>3, FromTheEnd
  <2> QED BY <2>1, <2>2
<1> QED BY <1>4 DEF Substituted, F

\* A restored text has no placeholder left that is known: no two parts of it
\* make one, when values are not parts of placeholders.
LEMMA NoneLeft ==
  ASSUME NEW s \in Seq(Atoms), NEW known, DOMAIN known \subseteq Labels, NEW render \in [Labels -> Atoms],
         \A l \in DOMAIN known : render[l] \notin Labels \cup {"<", ">"}
  PROVE  \A j \in 1..Len(Substituted(s, known, render)) : ~TokenAt(Substituted(s, known, render), j, known)
<1> DEFINE F == Suffixes(s, known, render)
           n == Len(s) + 1
           Clear(i) == \A j \in 1..Len(F[i]) : ~TokenAt(F[i], j, known)
           S == {i \in 1..n : Clear(i)}
<1>1. n \in Nat /\ Len(s) \in Nat
  OBVIOUS
<1>2. /\ F[Len(s) + 1] = <<>>
      /\ \A i \in 1..Len(s) : TokenAt(s, i, known) => F[i] = <<render[s[i + 1]]>> \o F[i + 3]
      /\ \A i \in 1..Len(s) : ~TokenAt(s, i, known) => F[i] = <<s[i]>> \o F[i + 1]
      /\ \A i \in 1..Len(s) + 1 : F[i] \in Seq(Atoms)
  BY SuffixEquations
<1> HIDE DEF F
<1>3. \A i \in 1..Len(s) : TokenAt(s, i, known) =>
        i + 2 <= Len(s) /\ render[s[i + 1]] \in Atoms \ (Labels \cup {"<", ">"})
  <2> SUFFICES ASSUME NEW i \in 1..Len(s), TokenAt(s, i, known)
               PROVE  i + 2 <= Len(s) /\ render[s[i + 1]] \in Atoms \ (Labels \cup {"<", ">"})
    OBVIOUS
  <2>1. i + 2 <= Len(s) /\ s[i + 1] \in DOMAIN known
    BY TokenThere
  <2> QED BY <2>1
\* A bracket or a label at the head of what is restored is one of s.
<1>4. ASSUME NEW i \in 1..n, F[i] # <<>>, F[i][1] \in Labels \cup {"<", ">"}
      PROVE  /\ i \in 1..Len(s) /\ ~TokenAt(s, i, known) /\ s[i] = F[i][1]
             /\ F[i] = <<s[i]>> \o F[i + 1] /\ F[i + 1] \in Seq(Atoms)
  <2>1. i \in 1..Len(s)
    BY <1>1, <1>2, <1>4
  <2>2. ~TokenAt(s, i, known)
    <3> SUFFICES ASSUME TokenAt(s, i, known) PROVE FALSE
      OBVIOUS
    <3>1. /\ F[i] = <<render[s[i + 1]]>> \o F[i + 3] /\ F[i + 3] \in Seq(Atoms)
          /\ render[s[i + 1]] \in Atoms \ (Labels \cup {"<", ">"})
      <4>1. i + 2 <= Len(s) /\ render[s[i + 1]] \in Atoms \ (Labels \cup {"<", ">"})
        BY <1>3, <2>1
      <4>2. i + 3 \in 1..Len(s) + 1
        BY <1>1, <2>1, <4>1
      <4> QED BY <1>2, <2>1, <4>1, <4>2
    <3>2. F[i][1] = render[s[i + 1]]
      BY <3>1
    <3> QED BY <1>4, <3>1, <3>2
  <2>3. F[i] = <<s[i]>> \o F[i + 1] /\ F[i + 1] \in Seq(Atoms) /\ s[i] \in Atoms
    <3>1. i + 1 \in 1..Len(s) + 1 /\ s[i] \in Atoms
      BY <1>1, <2>1
    <3> QED BY <1>2, <2>1, <2>2, <3>1
  <2>4. F[i][1] = s[i]
    BY <2>3
  <2> QED BY <2>1, <2>2, <2>3, <2>4
<1>5. ASSUME NEW i \in 1..n, \A j \in i + 1..n : j \in S PROVE i \in S
  <2> SUFFICES ASSUME NEW j \in 1..Len(F[i]), TokenAt(F[i], j, known) PROVE FALSE
    OBVIOUS
  <2>1. F[i] \in Seq(Atoms)
    BY <1>1, <1>2
  <2>2. /\ j + 2 <= Len(F[i]) /\ F[i][j] = "<" /\ F[i][j + 1] \in Labels /\ F[i][j + 1] \in DOMAIN known
        /\ F[i][j + 2] = ">"
    BY <2>1, TokenThere
  <2>3. i # n
    BY <1>2, <2>2
  <2>4. i \in 1..Len(s)
    BY <1>1, <2>3
  <2>5. PICK x \in Atoms, r \in i + 1..n : F[i] = <<x>> \o F[r]
    <3>1. CASE TokenAt(s, i, known)
      <4>1. i + 3 \in i + 1..n /\ render[s[i + 1]] \in Atoms
        BY <1>1, <1>3, <2>4, <3>1
      <4> QED BY <1>2, <2>4, <3>1, <4>1
    <3>2. CASE ~TokenAt(s, i, known)
      <4>1. i + 1 \in i + 1..n /\ s[i] \in Atoms
        BY <1>1, <2>4
      <4> QED BY <1>2, <2>4, <3>2, <4>1
    <3> QED BY <3>1, <3>2
  <2>6. F[r] \in Seq(Atoms) /\ Clear(r) /\ r \in 1..n
    BY <1>1, <1>2, <1>5, <2>4
  <2>7. Len(F[i]) = 1 + Len(F[r]) /\ Len(F[r]) \in Nat /\ \A k \in 1..Len(F[r]) : F[i][k + 1] = F[r][k]
    BY <2>5, <2>6
  <2>8. CASE j > 1
    <3>1. /\ j - 1 \in 1..Len(F[r]) /\ (j - 1) + 2 <= Len(F[r])
          /\ j = (j - 1) + 1 /\ j + 1 = ((j - 1) + 1) + 1 /\ j + 2 = ((j - 1) + 2) + 1
          /\ (j - 1) + 1 \in 1..Len(F[r]) /\ (j - 1) + 2 \in 1..Len(F[r])
      BY <2>2, <2>7, <2>8
    <3>2. /\ F[i][j] = F[r][j - 1] /\ F[i][j + 1] = F[r][(j - 1) + 1] /\ F[i][j + 2] = F[r][(j - 1) + 2]
      BY <2>7, <3>1
    <3>3. F[r][j - 1] = "<" /\ F[r][(j - 1) + 1] \in DOMAIN known /\ F[r][(j - 1) + 2] = ">"
      BY <2>2, <3>2
    <3>4. TokenAt(F[r], j - 1, known)
      BY <2>6, <3>1, <3>3, TokenThere
    <3> QED BY <2>6, <3>1, <3>4
  <2>9. CASE j = 1
    <3>1. F[i] # <<>> /\ F[i][1] = "<" /\ F[i][2] \in Labels /\ F[i][3] = ">" /\ Len(F[i]) >= 3
      BY <2>2, <2>9
    <3>2. /\ ~TokenAt(s, i, known) /\ s[i] = "<" /\ F[i] = <<s[i]>> \o F[i + 1] /\ F[i + 1] \in Seq(Atoms)
      BY <1>4, <3>1
    <3>3. F[i + 1][1] = F[i][2] /\ F[i + 1][2] = F[i][3] /\ Len(F[i + 1]) >= 2
      BY <3>1, <3>2
    <3>4. i + 1 \in 1..n /\ F[i + 1] # <<>>
      BY <1>1, <2>4, <3>2, <3>3
    <3>5. /\ i + 1 \in 1..Len(s) /\ s[i + 1] = F[i][2]
          /\ F[i + 1] = <<s[i + 1]>> \o F[(i + 1) + 1] /\ F[(i + 1) + 1] \in Seq(Atoms)
      BY <1>4, <3>1, <3>3, <3>4
    <3>6. F[i + 2][1] = F[i][3] /\ Len(F[i + 2]) >= 1 /\ F[i + 2] \in Seq(Atoms)
      <4>1. (i + 1) + 1 = i + 2
        BY <1>1, <2>4
      <4> QED BY <3>3, <3>5, <4>1
    <3>7. i + 2 \in 1..n /\ F[i + 2] # <<>>
      BY <1>1, <2>4, <3>5, <3>6
    <3>8. i + 2 \in 1..Len(s) /\ s[i + 2] = ">"
      BY <1>4, <3>1, <3>6, <3>7
    <3>9. s[i + 1] \in DOMAIN known
      BY <2>2, <2>9, <3>5
    <3> QED BY <2>4, <3>2, <3>8, <3>9, TokenThere
  <2> QED BY <2>8, <2>9
<1>6. 1 \in S
  <2>1. 1 \in 1..n
    BY <1>1
  <2> HIDE DEF S, n
  <2>2. \A i \in 1..n : i \in S
    BY <1>1, <1>5, FromTheEnd
  <2> QED BY <2>1, <2>2
<1> QED BY <1>6 DEF Substituted, F

\* What the upstream says.
Said == {x \in Atoms : \E p \in Pieces : \E i \in 1..Len(p) : p[i] = x}

\* The live feed has what the closed calls still show of the request's labels.
ClosedCalls == {c \in Channels : kind[c] = "tool_use" /\ phase[c] = "closed"}

Reports ==
  api = "anthropic" => reported = UNION {TokensIn(got[c]) \cap DOMAIN replay : c \in ClosedCalls}

SecretInv ==
  StreamInv /\ (\A c \in Channels : sent[c] \in Seq(Said)) /\ Reports

LEMMA PartsSaid == Parts \subseteq Seq(Said)
<1> SUFFICES ASSUME NEW p \in Parts PROVE p \in Seq(Said)
  OBVIOUS
<1>1. CASE p \in Pieces
  <2>1. p \in Seq(Atoms)
    BY <1>1, PieceAssumption
  <2>2. \A i \in 1..Len(p) : p[i] \in Said
    BY <1>1, <2>1 DEF Said
  <2> QED BY <2>1, <2>2
<1>2. CASE p = <<>>
  <2>1. <<>> \in Seq(Said)
    OBVIOUS
  <2> QED BY <1>2, <2>1
<1> QED BY <1>1, <1>2 DEF Parts

LEMMA ArgumentsTyped ==
  ASSUME Scene, NEW c \in Channels, NEW s \in Seq(Atoms)
  PROVE  Arguments(c, s) \in Seq(Atoms)
<1>1. /\ DOMAIN ToolArgReplay(replay, strict) \subseteq Labels
      /\ (IF json[c] THEN Escaped ELSE Value) \in [Labels -> Atoms]
  BY SceneKnown, AtomAssumption DEF ToolReplay
<1> QED BY <1>1, SubstitutedTyped DEF Arguments, RehydrateJsonString

\* What a call still shows when it is restored is what is withheld from it.
LEMMA ShownIsWithheld ==
  ASSUME Scene, NEW c \in Channels, NEW s \in Seq(Atoms)
  PROVE  TokensIn(Arguments(c, s)) \cap DOMAIN replay = Withheld(Arguments(c, s))
<1> DEFINE known == ToolReplay
           render == IF json[c] THEN Escaped ELSE Value
           t == Substituted(s, known, render)
<1>1. /\ DOMAIN known \subseteq Labels /\ render \in [Labels -> Atoms]
      /\ \A l \in DOMAIN known : render[l] \notin Labels \cup {"<", ">"}
  BY SceneKnown, AtomAssumption, ValueAssumption
<1>2. Arguments(c, s) = t
  BY DEF Arguments, RehydrateJsonString, ToolReplay
<1> HIDE DEF known, render
<1>3. \A j \in 1..Len(t) : ~TokenAt(t, j, known)
  BY <1>1, NoneLeft
<1>4. t \in Seq(Atoms)
  BY <1>1, SubstitutedTyped
<1> HIDE DEF t
<1>5. ASSUME NEW l \in DOMAIN known PROVE l \notin TokensIn(t)
  <2>1. \A i \in DOMAIN t : ~(i + 2 <= Len(t) /\ SubSeq(t, i, i + 2) = Token(l))
    <3>1. DOMAIN t = 1..Len(t)
      BY <1>4
    <3> QED BY <1>3, <3>1 DEF TokenAt
  <2> QED BY <2>1 DEF TokensIn
<1>6. \A l \in DOMAIN replay : l \in TokensIn(t) => l \notin DOMAIN ToolReplay
  BY <1>5 DEF known
<1> QED BY <1>2, <1>6 DEF Withheld

\* What is restored for execution has no value that is withheld.
LEMMA ExecutedClean ==
  ASSUME Scene, NEW s \in Seq(Atoms), \A i \in 1..Len(s) : s[i] \in Said,
         NEW l \in DOMAIN replay, strict \/ IsWithheldPlaceholder(replay[l]),
         NEW render \in {Value, Escaped}
  PROVE  LET t == Substituted(s, ToolReplay, render)
         IN  \A i \in DOMAIN t : t[i] \notin {Value[l], Escaped[l]}
<1> DEFINE P == Atoms \ {Value[l], Escaped[l]}
           t == Substituted(s, ToolReplay, render)
<1>1. PICK q \in Scenarios : api = q.api /\ kind = q.kind /\ replay = q.replay /\ strict = q.strict
  BY DEF Scene
<1>2. /\ \A p \in Pieces : \A i \in 1..Len(p) : p[i] \notin {Value[l], Escaped[l]}
      /\ \A k \in DOMAIN replay : ~(strict \/ IsWithheldPlaceholder(replay[k])) =>
           {Value[l], Escaped[l]} \cap {Value[k], Escaped[k]} = {}
  BY <1>1, SecretAssumption
<1>3. DOMAIN ToolReplay \subseteq Labels /\ render \in [Labels -> Atoms]
  BY SceneKnown, AtomAssumption
<1>4. \A i \in 1..Len(s) : s[i] \in P
  BY <1>2 DEF Said
<1>5. ASSUME NEW k \in DOMAIN ToolReplay PROVE render[k] \in P
  <2>1. k \in DOMAIN replay /\ ~(strict \/ IsWithheldPlaceholder(replay[k]))
    BY DEF ToolReplay, ToolArgReplay, Restrict
  <2>2. render[k] \in {Value[k], Escaped[k]} /\ render[k] \in Atoms
    BY <1>3
  <2> QED BY <1>2, <2>1, <2>2
<1> HIDE DEF P
<1>6. t \in Seq(P)
  BY <1>3, <1>4, <1>5, RestoredOf
<1> HIDE DEF t
<1>7. \A i \in DOMAIN t : t[i] \in P
  BY <1>6
<1> QED BY <1>7 DEF P, t

LEMMA SaidKept ==
  ASSUME NEW c \in Channels, ChannelStep(c), sent[c] \in Seq(Said)
  PROVE  sent'[c] \in Seq(Said)
<1>1. sent'[c] = sent[c] \/ \E p \in Parts : sent'[c] = sent[c] \o p
  BY DEF ChannelStep, Same, Opens, Streams, Collects, Passes, Ends
<1>2. ASSUME NEW p \in Parts PROVE sent[c] \o p \in Seq(Said)
  <2>1. p \in Seq(Said)
    BY PartsSaid
  <2> QED BY <2>1
<1> QED BY <1>1, <1>2

\* Calls stay closed, with what they show; only a call's end closes one.
LEMMA ReportsKept ==
  ASSUME StreamInv, StreamInv', [Next]_vars, Reports
  PROVE  Reports'
<1> SUFFICES ASSUME api = "anthropic", api' = "anthropic"
             PROVE  reported' = UNION {TokensIn(got'[c]) \cap DOMAIN replay' : c \in ClosedCalls'}
  <2>1. api' = api
    BY ShapesStay DEF StreamInv, scenario
  <2> QED BY <2>1 DEF Reports
<1>1. Scene /\ Shaped /\ \A c \in Channels : ChannelRight(c) /\ ChannelRight(c)'
  BY DEF StreamInv
<1>2. kind' = kind /\ replay' = replay
  BY <1>1, ShapesStay DEF scenario
<1>3. \A c \in Channels : ChannelStep(c)
  BY <1>1, EveryStep DEF ChannelRight
<1>4. \A c \in ClosedCalls : c \in ClosedCalls' /\ got'[c] = got[c]
  BY <1>2, <1>3 DEF ClosedCalls, ChannelStep, Same, Opens, Streams, Collects, Passes, Ends
<1>5. CASE \E c \in Channels : BlockStop(c) /\ kind[c] = "tool_use"
  <2>1. PICK c \in Channels : BlockStop(c) /\ kind[c] = "tool_use"
    BY <1>5
  <2>2. /\ phase[c] = "open" /\ phase' = [phase EXCEPT ![c] = "closed"]
        /\ got'[c] = got[c] \o Rest(c, <<>>)
        /\ reported' = reported \cup Withheld(Rest(c, <<>>))
    BY <1>1, <2>1 DEF BlockStop, Running, Emit, Shaped
  <2>3. got[c] = <<>> /\ acc[c] = sent[c] /\ sent[c] \in Seq(Atoms)
    BY <1>1, <2>1, <2>2 DEF ChannelRight, ArgumentKinds
  <2>4. Rest(c, <<>>) = Arguments(c, sent[c])
    <3>1. sent[c] \o <<>> = sent[c]
      BY <2>3, ConcatEmptySeq
    <3> QED BY <2>1, <2>3, <3>1 DEF Rest, TextKinds
  <2>5. got'[c] = Arguments(c, sent[c])
    BY <1>1, <2>2, <2>3, <2>4, ArgumentsTyped, ConcatEmptySeq
  <2>6. Withheld(Rest(c, <<>>)) = TokensIn(got'[c]) \cap DOMAIN replay
    BY <1>1, <2>3, <2>4, <2>5, ShownIsWithheld
  <2>7. ClosedCalls' = ClosedCalls \cup {c}
    BY <1>1, <1>2, <2>1, <2>2 DEF ClosedCalls, Shaped
  <2> HIDE DEF ClosedCalls
  <2> QED BY <1>2, <1>4, <2>2, <2>6, <2>7 DEF Reports
<1>6. CASE ~\E c \in Channels : BlockStop(c) /\ kind[c] = "tool_use"
  <2>1. reported' = reported
    BY <1>6 DEF Next, AnthropicNext, ChatNext, ResponsesNext, EndOfStream, BlockStart, BlockStop, TextDelta,
       InputJsonDelta, ThinkingDelta, MessageStop, ChatDelta, FinishWith, Finish, Done, Delta, TextDone,
       ArgumentsDone, Completed, Incremental, Buffered, vars
  <2>2. ASSUME NEW c \in Channels, kind[c] = "tool_use", phase'[c] = "closed" PROVE phase[c] = "closed"
    <3>1. CASE \E d \in Channels : BlockStop(d)
      BY <1>1, <1>6, <2>2, <3>1 DEF BlockStop, Shaped
    <3>2. CASE \E d \in Channels : BlockStart(d)
      BY <1>1, <2>2, <3>2 DEF BlockStart, Shaped
    <3>3. CASE ~\E d \in Channels : BlockStop(d) \/ BlockStart(d)
      <4>1. phase' = phase
        BY <3>3 DEF Next, AnthropicNext, ChatNext, ResponsesNext, EndOfStream, TextDelta,
           InputJsonDelta, ThinkingDelta, MessageStop, ChatDelta, FinishWith, Finish, Done, Delta, TextDone,
           ArgumentsDone, Completed, Incremental, Buffered, vars
      <4> QED BY <2>2, <4>1
    <3> QED BY <3>1, <3>2, <3>3
  <2>3. ClosedCalls' = ClosedCalls
    BY <1>2, <1>4, <2>2 DEF ClosedCalls
  <2> HIDE DEF ClosedCalls
  <2> QED BY <1>2, <1>4, <2>1, <2>3 DEF Reports
<1> QED BY <1>5, <1>6

\* No value of a withheld class reaches what the client executes, arguments or
\* interpreter code, in a delta or in a final copy (tool_arg_policy), and the
\* live feed is told exactly the labels that closed calls still show
\* (_withheld_tokens), for an upstream that was not given those values.
THEOREM SecretsStayInert == Spec => []SecretsInert
<1>1. Init => SecretInv
  <2> SUFFICES ASSUME Init PROVE SecretInv
    OBVIOUS
  <2>1. <<>> \in Seq(Said)
    OBVIOUS
  <2>2. \A c \in Channels : sent[c] = <<>> /\ phase[c] # "closed"
    BY DEF Init
  <2>3. ClosedCalls = {} /\ reported = {}
    BY <2>2 DEF Init, ClosedCalls
  <2>4. Reports
    BY <2>3 DEF Reports
  <2> QED BY <2>1, <2>2, <2>4, StreamInit DEF SecretInv
<1>2. SecretInv /\ [Next]_vars => SecretInv'
  <2> SUFFICES ASSUME SecretInv, [Next]_vars PROVE SecretInv'
    OBVIOUS
  <2>1. StreamInv /\ StreamInv' /\ Reports
    BY StreamNext DEF SecretInv
  <2>2. Reports'
    BY <2>1, ReportsKept
  <2>3. ASSUME NEW c \in Channels PROVE sent'[c] \in Seq(Said)
    <3>1. ChannelStep(c)
      BY <2>1, EveryStep DEF StreamInv, ChannelRight
    <3> QED BY <3>1, SaidKept DEF SecretInv
  <2> QED BY <2>1, <2>2, <2>3 DEF SecretInv
<1>3. SecretInv => SecretsInert
  <2> SUFFICES ASSUME SecretInv PROVE SecretsInert
    OBVIOUS
  <2>1. Scene /\ \A c \in Channels : ChannelRight(c) /\ SnapshotRight(c) /\ sent[c] \in Seq(Said)
    BY DEF SecretInv, StreamInv
  <2>2. api = "anthropic" =>
          reported = UNION {TokensIn(got[c]) \cap DOMAIN replay :
                              c \in {d \in Channels : kind[d] = "tool_use" /\ phase[d] = "closed"}}
    BY DEF SecretInv, Reports, ClosedCalls
  <2>3. ASSUME NEW c \in Channels, kind[c] \in ArgumentKinds \cup {"code", "server_tool_use"},
               NEW l \in DOMAIN replay, strict \/ IsWithheldPlaceholder(replay[l]),
               NEW text \in {got[c], snapshot[c]} \ {None}, NEW i \in DOMAIN text
        PROVE  text[i] \notin {Value[l], Escaped[l]}
    <3> DEFINE Clean(t) == \A j \in DOMAIN t : t[j] \notin {Value[l], Escaped[l]}
    <3>1. sent[c] \in Seq(Atoms) /\ \A j \in 1..Len(sent[c]) : sent[c][j] \in Said
      BY <2>1 DEF ChannelRight
    <3>2. SafePrefix(sent[c]) \in Seq(Atoms) /\ \A j \in 1..Len(SafePrefix(sent[c])) : SafePrefix(sent[c])[j] \in Said
      <4> DEFINE s == sent[c]
                 a == SafePrefix(s)
                 h == HeldTail(s)
      <4>1. a \in Seq(Atoms) /\ h \in Seq(Atoms) /\ s = a \o h
        BY <3>1, Split
      <4> HIDE DEF s, a, h
      <4>2. \A j \in 1..Len(a) : j \in 1..Len(s) /\ a[j] = s[j]
        BY <4>1
      <4> QED BY <3>1, <4>1, <4>2 DEF s, a
    <3>3. Clean(<<>>)
      OBVIOUS
    <3>4. Clean(Arguments(c, sent[c]))
      <4>1. (IF json[c] THEN Escaped ELSE Value) \in {Value, Escaped}
        OBVIOUS
      <4> QED BY <2>1, <2>3, <3>1, <4>1, ExecutedClean DEF Arguments, RehydrateJsonString, ToolReplay
    <3>5. Clean(RehydrateText(sent[c], ToolReplay)) /\ Clean(RehydrateText(SafePrefix(sent[c]), ToolReplay))
      BY <2>1, <2>3, <3>1, <3>2, ExecutedClean DEF RehydrateText
    <3>6. CASE kind[c] \in ArgumentKinds
      <4>1. kind[c] \notin TextKinds
        BY <3>6 DEF ArgumentKinds, TextKinds
      <4>2. got[c] = <<>> \/ got[c] = Arguments(c, sent[c])
        BY <2>1, <3>6 DEF ChannelRight
      <4>3. snapshot[c] # None => snapshot[c] = Arguments(c, sent[c])
        BY <2>1, <4>1 DEF SnapshotRight, Whole
      <4> HIDE DEF Clean
      <4>4. Clean(text)
        BY <2>3, <3>3, <3>4, <4>2, <4>3
      <4> QED BY <2>3, <4>4 DEF Clean
    <3>7. CASE kind[c] = "code"
      <4>1. ReplayOf(c) = ToolReplay /\ kind[c] \in TextKinds
        BY <3>7 DEF ReplayOf, TextKinds
      <4>2. \/ got[c] = RehydrateText(sent[c], ToolReplay)
            \/ got[c] = RehydrateText(SafePrefix(sent[c]), ToolReplay)
        BY <2>1, <4>1 DEF ChannelRight
      <4>3. snapshot[c] # None => snapshot[c] = RehydrateText(sent[c], ToolReplay)
        BY <2>1, <4>1 DEF SnapshotRight, Whole
      <4> HIDE DEF Clean
      <4>4. Clean(text)
        BY <2>3, <3>5, <4>2, <4>3
      <4> QED BY <2>3, <4>4 DEF Clean
    <3>8. CASE kind[c] = "server_tool_use"
      <4>1. got[c] = <<>>
        BY <2>1, <3>8 DEF ChannelRight
      <4>2. api # "responses"
        BY <2>1, <3>8, SceneKnown
      <4>3. snapshot[c] = None
        BY <2>1, <4>2 DEF SnapshotRight
      <4> HIDE DEF Clean
      <4>4. Clean(text)
        BY <2>3, <3>3, <4>1, <4>3
      <4> QED BY <2>3, <4>4 DEF Clean
    <3> QED BY <2>3, <3>6, <3>7, <3>8
  <2> QED BY <2>2, <2>3 DEF SecretsInert
<1> QED BY <1>1, <1>2, <1>3, PTL DEF Spec
=============================================================================
