-------------------------- MODULE EntityMapProofs --------------------------
(***************************************************************************)
(* Proofs about EntityMap, for any values, labels, casefolding and sizes.  *)
(***************************************************************************)
EXTENDS EntityMap, SequenceTheorems, FiniteSetTheorems, TLAPS

-----------------------------------------------------------------------------
(* The operations of OrderedDict: entries and lengths *)

\* The entries of a dict have its keys and values.
LEMMA EntryTypes ==
  ASSUME NEW K, NEW V, NEW d \in Dict(K, V)
  PROVE  /\ \A i \in DOMAIN d : d[i] \in Items(d) /\ d[i].key \in K /\ d[i].val \in V
         /\ \A e \in Items(d) : e.key \in K /\ e.val \in V
<1>1. d \in Seq(Entry(K, V))
  BY DEF Dict
<1>2. \A i \in DOMAIN d : d[i] \in Entry(K, V)
  BY <1>1
<1>3. \A e \in Entry(K, V) : e.key \in K /\ e.val \in V
  BY DEF Entry
<1> QED BY <1>2, <1>3 DEF Items

\* Looking up a key that is present finds the value of an entry with that key.
LEMMA LookupFinds ==
  ASSUME NEW d, NEW k, HasKey(d, k)
  PROVE  \E e \in Items(d) : e.key = k /\ e.val = Lookup(d, k)
<1>1. IndexOf(d, k) \in DOMAIN d /\ d[IndexOf(d, k)].key = k
  BY DEF HasKey, IndexOf
<1> QED
  BY <1>1 DEF Items, Lookup

\* Insertion adds one entry and leaves the others alone.
LEMMA InsertAdds ==
  ASSUME NEW K, NEW V, NEW d \in Dict(K, V), NEW k \in K, NEW v \in V
  PROVE  /\ Insert(d, k, v) \in Dict(K, V)
         /\ Items(Insert(d, k, v)) = Items(d) \cup {[key |-> k, val |-> v]}
         /\ Len(Insert(d, k, v)) = Len(d) + 1
<1> DEFINE e == [key |-> k, val |-> v]
<1>1. e \in Entry(K, V)
  BY DEF Entry
<1>2. d \in Seq(Entry(K, V))
  BY DEF Dict
<1>3. /\ Append(d, e) \in Seq(Entry(K, V))
      /\ Len(Append(d, e)) = Len(d) + 1
  BY <1>1, <1>2
<1>4. Items(Append(d, e)) = Items(d) \cup {e}
  <2>1. DOMAIN Append(d, e) = 1 .. Len(d) + 1 /\ DOMAIN d = 1 .. Len(d) /\ Len(d) \in Nat
    BY <1>1, <1>2
  <2>2. \A i \in 1 .. Len(d) : Append(d, e)[i] = d[i]
    BY <1>1, <1>2
  <2>3. Append(d, e)[Len(d) + 1] = e
    BY <1>1, <1>2
  <2> QED
    BY <2>1, <2>2, <2>3 DEF Items
<1> QED
  BY <1>3, <1>4 DEF Insert, Dict

\* Dropping an entry adds none and shortens the dict by one.
LEMMA DropAtShrinks ==
  ASSUME NEW K, NEW V, NEW d \in Dict(K, V), NEW i \in DOMAIN d
  PROVE  /\ DropAt(d, i) \in Dict(K, V)
         /\ Items(DropAt(d, i)) \subseteq Items(d)
         /\ Len(DropAt(d, i)) = Len(d) - 1
         /\ \A j \in 1 .. Len(d) - 1 :
              DropAt(d, i)[j] = IF j < i THEN d[j] ELSE d[j + 1]
<1> DEFINE S == Entry(K, V)
           a == SubSeq(d, 1, i - 1)
           b == SubSeq(d, i + 1, Len(d))
<1>1. d \in Seq(S) /\ i \in 1 .. Len(d) /\ Len(d) \in Nat /\ DOMAIN d = 1 .. Len(d)
  BY DEF Dict
<1> HIDE DEF S
<1>2. /\ a \in Seq(S) /\ Len(a) = i - 1
      /\ \A j \in 1 .. i - 1 : a[j] = d[j]
  BY <1>1
<1>3. /\ b \in Seq(S) /\ Len(b) = Len(d) - i
      /\ \A j \in 1 .. Len(d) - i : b[j] = d[i + j]
  BY <1>1
<1> HIDE DEF a, b
<1>4. /\ a \o b \in Seq(S)
      /\ Len(a \o b) = Len(d) - 1
      /\ \A j \in 1 .. Len(d) - 1 :
           (a \o b)[j] = IF j <= i - 1 THEN a[j] ELSE b[j - (i - 1)]
  <2>1. /\ a \o b \in Seq(S)
        /\ Len(a \o b) = Len(a) + Len(b)
        /\ \A j \in 1 .. Len(a) + Len(b) :
             (a \o b)[j] = IF j <= Len(a) THEN a[j] ELSE b[j - Len(a)]
    BY <1>2, <1>3, ConcatProperties
  <2>2. Len(a) + Len(b) = Len(d) - 1
    BY <1>1, <1>2, <1>3
  <2> QED BY <1>2, <2>1, <2>2
<1>5. \A j \in 1 .. Len(d) - 1 : \E n \in 1 .. Len(d) : (a \o b)[j] = d[n]
  <2> TAKE j \in 1 .. Len(d) - 1
  <2>1. CASE j <= i - 1
    <3>1. j \in 1 .. i - 1 /\ j \in 1 .. Len(d)
      BY <1>1, <2>1
    <3> QED BY <1>2, <1>4, <3>1, <2>1
  <2>2. CASE ~(j <= i - 1)
    <3>1. j - (i - 1) \in 1 .. Len(d) - i /\ i + (j - (i - 1)) \in 1 .. Len(d)
      BY <1>1, <2>2
    <3>2. b[j - (i - 1)] = d[i + (j - (i - 1))]
      BY <1>3, <3>1
    <3> QED BY <1>4, <3>1, <3>2, <2>2
  <2> QED BY <2>1, <2>2
<1>6. DOMAIN (a \o b) = 1 .. Len(d) - 1
  BY <1>4
<1>7. Items(a \o b) \subseteq Items(d)
  BY <1>1, <1>5, <1>6 DEF Items
<1>8. \A j \in 1 .. Len(d) - 1 : (a \o b)[j] = IF j < i THEN d[j] ELSE d[j + 1]
  <2> TAKE j \in 1 .. Len(d) - 1
  <2>1. CASE j < i
    BY <1>1, <1>2, <1>4, <2>1
  <2>2. CASE ~(j < i)
    <3>1. j - (i - 1) \in 1 .. Len(d) - i /\ i + (j - (i - 1)) = j + 1
      BY <1>1, <2>2
    <3>2. b[j - (i - 1)] = d[j + 1]
      BY <1>3, <3>1
    <3> QED BY <1>1, <1>4, <3>2, <2>2
  <2> QED BY <2>1, <2>2
<1> QED
  BY <1>4, <1>7, <1>8 DEF DropAt, Dict, S, a, b

\* Popping a key adds no entry and does not lengthen the dict.
LEMMA PopShrinks ==
  ASSUME NEW K, NEW V, NEW d \in Dict(K, V), NEW k
  PROVE  /\ Pop(d, k) \in Dict(K, V)
         /\ Items(Pop(d, k)) \subseteq Items(d)
         /\ Len(Pop(d, k)) <= Len(d)
<1>0. Len(d) \in Nat
  BY DEF Dict
<1>1. CASE HasKey(d, k)
  <2>1. IndexOf(d, k) \in DOMAIN d
    BY <1>1 DEF HasKey, IndexOf
  <2>2. Pop(d, k) = DropAt(d, IndexOf(d, k))
    BY <1>1 DEF Pop
  <2> QED BY <1>0, <2>1, <2>2, DropAtShrinks
<1>2. CASE ~HasKey(d, k)
  BY <1>0, <1>2 DEF Pop
<1> QED BY <1>1, <1>2

\* Forgetting the oldest entry of a non-empty dict.
LEMMA TailShrinks ==
  ASSUME NEW K, NEW V, NEW d \in Dict(K, V), Len(d) > 0
  PROVE  /\ Head(d) \in Items(d)
         /\ Head(d).key \in K /\ Head(d).val \in V
         /\ Tail(d) \in Dict(K, V)
         /\ Items(Tail(d)) \subseteq Items(d)
         /\ Len(Tail(d)) = Len(d) - 1
<1>1. d \in Seq(Entry(K, V)) /\ Len(d) \in Nat /\ d # <<>> /\ DOMAIN d = 1 .. Len(d)
  BY DEF Dict
<1>2. Head(d) = d[1] /\ 1 \in DOMAIN d /\ d[1] \in Entry(K, V)
  BY <1>1
<1>3. /\ Tail(d) \in Seq(Entry(K, V))
      /\ Len(Tail(d)) = Len(d) - 1
      /\ DOMAIN Tail(d) = 1 .. Len(d) - 1
      /\ \A j \in 1 .. Len(d) - 1 : Tail(d)[j] = d[j + 1]
  BY <1>1
<1>4. Items(Tail(d)) \subseteq Items(d)
  <2> SUFFICES ASSUME NEW j \in 1 .. Len(d) - 1
               PROVE  Tail(d)[j] \in Items(d)
    BY <1>3 DEF Items
  <2>1. j + 1 \in DOMAIN d
    BY <1>1
  <2> QED BY <1>3, <2>1 DEF Items
<1> QED
  BY <1>2, <1>3, <1>4 DEF Items, Dict, Entry

\* Keeping only some keys adds no entry and does not lengthen the dict.
LEMMA RestrictionShrinks ==
  ASSUME NEW K, NEW V, NEW d \in Dict(K, V), NEW Kept, NEW e \in Restrictions(d, Kept)
  PROVE  /\ e \in Dict(K, V)
         /\ Items(e) \subseteq Items(d)
         /\ Len(e) <= Len(d)
<1>1. d \in Seq(Entry(K, V)) /\ Len(d) \in Nat /\ DOMAIN d = 1 .. Len(d)
  BY DEF Dict
<1>2. PICK n \in 0 .. Len(d) : e \in [1 .. n -> Items(d)]
  BY DEF Restrictions
<1>3. Items(d) \subseteq Entry(K, V)
  BY <1>1 DEF Items
<1>4. e \in Seq(Entry(K, V)) /\ Len(e) = n
  BY <1>1, <1>2, <1>3
<1>5. Items(e) \subseteq Items(d)
  BY <1>2 DEF Items
<1> QED
  BY <1>1, <1>2, <1>4, <1>5 DEF Dict

-----------------------------------------------------------------------------
(* Dicts with one entry for each key *)

\* With one entry per key, an entry is known by its key.
LEMMA EntryOfKey ==
  ASSUME NEW d, OnePerKey(d), NEW a \in Items(d), NEW b \in Items(d), a.key = b.key
  PROVE  a = b
BY DEF OnePerKey, Items

\* A new key keeps one entry for each.
LEMMA InsertOnePerKey ==
  ASSUME NEW K, NEW V, NEW d \in Dict(K, V), NEW k \in K, NEW v \in V,
         OnePerKey(d), \A e \in Items(d) : e.key # k
  PROVE  OnePerKey(Insert(d, k, v))
<1> DEFINE e == [key |-> k, val |-> v]
<1>1. d \in Seq(Entry(K, V)) /\ e \in Entry(K, V)
  BY DEF Dict, Entry
<1>2. /\ DOMAIN Append(d, e) = 1 .. Len(d) + 1 /\ DOMAIN d = 1 .. Len(d) /\ Len(d) \in Nat
      /\ \A i \in 1 .. Len(d) : Append(d, e)[i] = d[i]
      /\ Append(d, e)[Len(d) + 1] = e
  BY <1>1
<1>3. \A i \in 1 .. Len(d) : d[i].key # k
  BY <1>2 DEF Items
<1> QED BY <1>2, <1>3 DEF OnePerKey, Insert

\* Popping a key removes its entry and no other.
LEMMA PopRemoves ==
  ASSUME NEW K, NEW V, NEW d \in Dict(K, V), NEW k, OnePerKey(d)
  PROVE  /\ OnePerKey(Pop(d, k))
         /\ Items(Pop(d, k)) = {e \in Items(d) : e.key # k}
<1>1. d \in Seq(Entry(K, V)) /\ Len(d) \in Nat /\ DOMAIN d = 1 .. Len(d)
  BY DEF Dict
<1>2. CASE ~HasKey(d, k)
  BY <1>2 DEF Pop, Items, HasKey
<1>3. CASE HasKey(d, k)
  <2> DEFINE i == IndexOf(d, k)
             c == DropAt(d, i)
  <2>1. i \in 1 .. Len(d) /\ d[i].key = k
    BY <1>1, <1>3 DEF HasKey, IndexOf
  <2>2. Pop(d, k) = c
    BY <1>3 DEF Pop
  <2> HIDE DEF i
  <2>3. /\ c \in Seq(Entry(K, V)) /\ Len(c) = Len(d) - 1
        /\ DOMAIN c = 1 .. Len(d) - 1
    <3>1. c \in Dict(K, V) /\ Len(c) = Len(d) - 1
      BY <1>1, <2>1, DropAtShrinks
    <3> QED BY <1>1, <3>1 DEF Dict
  <2>4. \A j \in 1 .. Len(d) - 1 :
          /\ j < i => c[j] = d[j]
          /\ j >= i => c[j] = d[j + 1]
    BY <1>1, <2>1, DropAtShrinks
  <2> HIDE DEF c
  <2>5. OnePerKey(c)
    <3> SUFFICES ASSUME NEW x \in 1 .. Len(d) - 1, NEW y \in 1 .. Len(d) - 1,
                        c[x].key = c[y].key
                 PROVE  x = y
      BY <2>3 DEF OnePerKey
    <3> DEFINE At(j) == IF j < i THEN j ELSE j + 1
    <3>1. /\ At(x) \in 1 .. Len(d) /\ c[x] = d[At(x)]
          /\ At(y) \in 1 .. Len(d) /\ c[y] = d[At(y)]
      BY <1>1, <2>1, <2>4
    <3>2. At(x) = At(y)
      BY <1>1, <3>1 DEF OnePerKey
    <3> QED BY <1>1, <2>1, <3>2
  <2>6. Items(c) \subseteq {e \in Items(d) : e.key # k}
    <3> SUFFICES ASSUME NEW j \in 1 .. Len(d) - 1
                 PROVE  c[j] \in Items(d) /\ c[j].key # k
      BY <2>3 DEF Items
    <3>1. PICK n \in 1 .. Len(d) : n # i /\ c[j] = d[n]
      BY <1>1, <2>1, <2>4
    <3> QED BY <1>1, <2>1, <3>1 DEF Items, OnePerKey
  <2>7. {e \in Items(d) : e.key # k} \subseteq Items(c)
    <3> SUFFICES ASSUME NEW n \in 1 .. Len(d), d[n].key # k
                 PROVE  d[n] \in Items(c)
      BY <1>1 DEF Items
    <3>1. CASE n < i
      <4>1. n \in 1 .. Len(d) - 1
        BY <1>1, <2>1, <3>1
      <4> QED BY <2>3, <2>4, <3>1, <4>1 DEF Items
    <3>2. CASE n > i
      <4>1. n - 1 \in 1 .. Len(d) - 1 /\ n - 1 >= i /\ (n - 1) + 1 = n
        BY <1>1, <2>1, <3>2
      <4> QED BY <2>3, <2>4, <4>1 DEF Items
    <3> QED BY <1>1, <2>1, <3>1, <3>2
  <2> QED BY <2>2, <2>5, <2>6, <2>7
<1> QED BY <1>2, <1>3

\* Forgetting the oldest entry removes that entry and no other.
LEMMA TailRemoves ==
  ASSUME NEW K, NEW V, NEW d \in Dict(K, V), Len(d) > 0, OnePerKey(d)
  PROVE  /\ OnePerKey(Tail(d))
         /\ Items(Tail(d)) = {e \in Items(d) : e.key # Head(d).key}
<1>1. d \in Seq(Entry(K, V)) /\ Len(d) \in Nat /\ d # <<>> /\ DOMAIN d = 1 .. Len(d)
  BY DEF Dict
<1>2. /\ Head(d) = d[1] /\ 1 \in 1 .. Len(d)
      /\ DOMAIN Tail(d) = 1 .. Len(d) - 1
      /\ \A j \in 1 .. Len(d) - 1 : Tail(d)[j] = d[j + 1]
  BY <1>1
<1>3. OnePerKey(Tail(d))
  <2> SUFFICES ASSUME NEW x \in 1 .. Len(d) - 1, NEW y \in 1 .. Len(d) - 1,
                      d[x + 1].key = d[y + 1].key
               PROVE  x = y
    BY <1>2 DEF OnePerKey
  <2>1. x + 1 \in 1 .. Len(d) /\ y + 1 \in 1 .. Len(d)
    BY <1>1
  <2>2. x + 1 = y + 1
    BY <1>1, <2>1 DEF OnePerKey
  <2> QED BY <2>2
<1>4. Items(Tail(d)) \subseteq {e \in Items(d) : e.key # Head(d).key}
  <2> SUFFICES ASSUME NEW j \in 1 .. Len(d) - 1
               PROVE  d[j + 1] \in Items(d) /\ d[j + 1].key # d[1].key
    BY <1>2 DEF Items
  <2>1. j + 1 \in 1 .. Len(d) /\ j + 1 # 1
    BY <1>1
  <2> QED BY <1>1, <1>2, <2>1 DEF Items, OnePerKey
<1>5. {e \in Items(d) : e.key # Head(d).key} \subseteq Items(Tail(d))
  <2> SUFFICES ASSUME NEW n \in 1 .. Len(d), d[n].key # d[1].key
               PROVE  d[n] \in Items(Tail(d))
    BY <1>1, <1>2 DEF Items
  <2>1. n # 1
    OBVIOUS
  <2>2. n - 1 \in 1 .. Len(d) - 1 /\ (n - 1) + 1 = n
    BY <1>1, <2>1
  <2>3. Tail(d)[n - 1] = d[n]
    BY <1>2, <2>2
  <2> QED BY <1>2, <2>2, <2>3 DEF Items
<1> QED BY <1>3, <1>4, <1>5

\* Keeping some keys keeps their entries and no others.
LEMMA RestrictionKeeps ==
  ASSUME NEW K, NEW V, NEW d \in Dict(K, V), OnePerKey(d), NEW Kept,
         NEW e \in Restrictions(d, Kept)
  PROVE  /\ OnePerKey(e)
         /\ Items(e) = {x \in Items(d) : x.key \in Kept}
<1>1. d \in Seq(Entry(K, V)) /\ Len(d) \in Nat /\ DOMAIN d = 1 .. Len(d)
  BY DEF Dict
<1>2. PICK n \in 0 .. Len(d) : e \in [1 .. n -> Items(d)]
  BY DEF Restrictions
<1>3. /\ DictKeys(e) = DictKeys(d) \cap Kept
      /\ \A i, j \in 1 .. n : i < j => IndexOf(d, e[i].key) < IndexOf(d, e[j].key)
  BY <1>2 DEF Restrictions
<1>4. \A i \in 1 .. n : IndexOf(d, e[i].key) \in Nat
  <2> TAKE i \in 1 .. n
  <2>1. PICK x \in 1 .. Len(d) : e[i] = d[x]
    BY <1>1, <1>2 DEF Items
  <2>2. IndexOf(d, e[i].key) \in 1 .. Len(d)
    BY <1>1, <2>1 DEF IndexOf
  <2> QED BY <2>2
<1>5. OnePerKey(e)
  <2> SUFFICES ASSUME NEW i \in 1 .. n, NEW j \in 1 .. n, e[i].key = e[j].key
               PROVE  i = j
    BY <1>2 DEF OnePerKey
  <2>1. ~(i < j) /\ ~(j < i)
    BY <1>3, <1>4
  <2> QED BY <1>1, <2>1
<1>6. \A x \in Items(e) : x \in Items(d) /\ x.key \in Kept
  <2> TAKE x \in Items(e)
  <2>1. x.key \in DictKeys(e) /\ x \in Items(d)
    BY <1>2 DEF Items, DictKeys
  <2> QED BY <1>3, <2>1
<1>7. ASSUME NEW x \in Items(d), x.key \in Kept
      PROVE  x \in Items(e)
  <2>1. x.key \in DictKeys(e)
    BY <1>3, <1>7 DEF Items, DictKeys
  <2>2. PICK y \in Items(e) : y.key = x.key
    BY <2>1 DEF Items, DictKeys
  <2>3. y = x
    BY <1>6, <2>2, EntryOfKey
  <2> QED BY <2>2, <2>3
<1> QED BY <1>5, <1>6, <1>7

\* A dict is no longer than the set its keys are from.
LEMMA LengthBound ==
  ASSUME NEW K, NEW V, NEW d \in Dict(K, V), OnePerKey(d),
         NEW S, IsFiniteSet(S), \A e \in Items(d) : e.key \in S
  PROVE  Len(d) <= Cardinality(S)
<1>1. d \in Seq(Entry(K, V)) /\ Len(d) \in Nat /\ DOMAIN d = 1 .. Len(d)
  BY DEF Dict
<1> DEFINE f == [i \in 1 .. Len(d) |-> d[i].key]
<1>2. \A i \in 1 .. Len(d) : d[i].key \in S
  BY <1>1 DEF Items
<1>3. f \in Injection(1 .. Len(d), S)
  BY <1>1, <1>2 DEF OnePerKey, Injection, IsInjective
<1>4. Cardinality(1 .. Len(d)) <= Cardinality(S)
  BY <1>3, FS_Injection
<1>5. Cardinality(1 .. Len(d)) = Len(d)
  <2>1. Cardinality(1 .. Len(d)) = IF 1 > Len(d) THEN 0 ELSE Len(d) - 1 + 1
    BY <1>1, FS_Interval
  <2> QED BY <1>1, <2>1
<1> QED BY <1>4, <1>5

\* Two dicts without a common key have, together, no more entries than keys.
LEMMA LengthsBound ==
  ASSUME NEW K, NEW V, IsFiniteSet(K),
         NEW d \in Dict(K, V), NEW e \in Dict(K, V), OnePerKey(d), OnePerKey(e),
         \A x \in Items(d), y \in Items(e) : x.key # y.key
  PROVE  Len(d) + Len(e) <= Cardinality(K)
<1> DEFINE c == d \o e
           S == Entry(K, V)
<1>1. /\ d \in Seq(S) /\ Len(d) \in Nat /\ DOMAIN d = 1 .. Len(d)
      /\ e \in Seq(S) /\ Len(e) \in Nat /\ DOMAIN e = 1 .. Len(e)
  BY DEF Dict
<1> HIDE DEF S
<1>2. /\ c \in Seq(S) /\ Len(c) = Len(d) + Len(e) /\ DOMAIN c = 1 .. Len(d) + Len(e)
      /\ \A i \in 1 .. Len(d) + Len(e) :
           c[i] = IF i <= Len(d) THEN d[i] ELSE e[i - Len(d)]
  BY <1>1, ConcatProperties
<1> HIDE DEF c
<1>3. \A i \in 1 .. Len(d) + Len(e) :
        \/ i <= Len(d) /\ i \in 1 .. Len(d) /\ c[i] = d[i]
        \/ i > Len(d) /\ i - Len(d) \in 1 .. Len(e) /\ c[i] = e[i - Len(d)]
  BY <1>1, <1>2
<1>4. \A x \in 1 .. Len(d), y \in 1 .. Len(e) : d[x].key # e[y].key
  BY <1>1 DEF Items
<1>5. OnePerKey(c)
  <2> SUFFICES ASSUME NEW i \in 1 .. Len(d) + Len(e), NEW j \in 1 .. Len(d) + Len(e),
                      c[i].key = c[j].key
               PROVE  i = j
    BY <1>2 DEF OnePerKey
  <2>1. CASE i <= Len(d) /\ j <= Len(d)
    BY <1>1, <1>3, <2>1 DEF OnePerKey
  <2>2. CASE i > Len(d) /\ j > Len(d)
    <3>1. /\ i - Len(d) \in DOMAIN e /\ j - Len(d) \in DOMAIN e
          /\ e[i - Len(d)].key = e[j - Len(d)].key
      BY <1>1, <1>3, <2>2
    <3>2. i - Len(d) = j - Len(d)
      BY <3>1 DEF OnePerKey
    <3> QED BY <1>1, <3>2
  <2>3. CASE i <= Len(d) /\ j > Len(d)
    BY <1>1, <1>3, <1>4, <2>3
  <2>4. CASE i > Len(d) /\ j <= Len(d)
    BY <1>1, <1>3, <1>4, <2>4
  <2> QED BY <1>1, <2>1, <2>2, <2>3, <2>4
<1>6. c \in Dict(K, V)
  BY <1>2 DEF Dict, S
<1>7. \A x \in Items(c) : x.key \in K
  BY <1>6, EntryTypes
<1> QED BY <1>2, <1>5, <1>6, <1>7, LengthBound

-----------------------------------------------------------------------------
(* The state of an instance *)

\* What an instance says: its stored claims and its casefold index.
Stated(m) == Claims(m) \cup Index(m)

-----------------------------------------------------------------------------
(* The operations on one instance *)

\* To bound the claims of a map is to bound those of its entries and of p2v.
LEMMA ClaimsWithin ==
  ASSUME NEW m, NEW C,
         \A e \in Items(m.v2p) \cup Items(m.tomb) :
           [ph |-> e.val, fold |-> Fold[e.key]] \in C,
         \A p \in DOMAIN m.p2v : [ph |-> p, fold |-> Fold[m.p2v[p]]] \in C
  PROVE  Claims(m) \subseteq C
BY DEF Claims

\* Both directions of Claims, as facts about single entries.
LEMMA ClaimsHave ==
  ASSUME NEW m
  PROVE  /\ \A e \in Items(m.v2p) \cup Items(m.tomb) :
              [ph |-> e.val, fold |-> Fold[e.key]] \in Claims(m)
         /\ \A p \in DOMAIN m.p2v : [ph |-> p, fold |-> Fold[m.p2v[p]]] \in Claims(m)
BY DEF Claims

LEMMA EmptyMapOK ==
  ASSUME NEW g \in Nat
  PROVE  InstanceOK(EmptyMap(g)) /\ Stated(EmptyMap(g)) = {}
<1>1. InstanceOK(EmptyMap(g))
  BY DEF InstanceOK, EmptyMap, MapOK, Dict, Entry, Placeholders
<1>2. Stated(EmptyMap(g)) = {}
  BY DEF Stated, Claims, Index, Items, EmptyMap
<1> QED BY <1>1, <1>2

LEMMA FoldType == ASSUME NEW v \in Values, NEW l
                  PROVE  Fold[v] \in Values /\ TombKey(v, l) \in Values
                         /\ Fold[TombKey(v, l)] = Fold[v]
BY FoldAssumption DEF TombKey

LEMMA TrimmedFacts ==
  ASSUME NEW t \in Dict(Values, Placeholders)
  PROVE  /\ Trimmed(t) \in Dict(Values, Placeholders)
         /\ Items(Trimmed(t)) \subseteq Items(t)
         /\ Len(t) <= MaxTomb + 1 => Len(Trimmed(t)) <= MaxTomb
<1>0. Len(t) \in Nat /\ MaxTomb \in Nat
  BY SizeAssumption DEF Dict
<1>1. CASE Len(t) > MaxTomb
  <2>1. Len(t) > 0 /\ Trimmed(t) = Tail(t)
    BY <1>0, <1>1 DEF Trimmed
  <2>2. /\ Tail(t) \in Dict(Values, Placeholders)
        /\ Items(Tail(t)) \subseteq Items(t)
        /\ Len(Tail(t)) = Len(t) - 1
    BY <2>1, TailShrinks
  <2> QED BY <1>0, <2>1, <2>2
<1>2. CASE ~(Len(t) > MaxTomb)
  BY <1>0, <1>2 DEF Trimmed
<1> QED BY <1>1, <1>2

\* Eviction makes room, keeps the bounds and states nothing new.
LEMMA EvictFacts ==
  ASSUME NEW m, InstanceOK(m)
  PROVE  LET r == EvictIfFull(m)
         IN /\ InstanceOK(r)
            /\ r.counters = m.counters
            /\ r.created = m.created
            /\ Stated(r) \subseteq Stated(m)
            /\ Len(m.v2p) <= MaxEntities => Len(r.v2p) <= MaxEntities - 1
            /\ Len(m.tomb) <= MaxTomb => Len(r.tomb) <= MaxTomb
<1> SUFFICES ASSUME NEW r, r = EvictIfFull(m)
             PROVE  /\ InstanceOK(r)
                    /\ r.counters = m.counters
                    /\ r.created = m.created
                    /\ Stated(r) \subseteq Stated(m)
                    /\ Len(m.v2p) <= MaxEntities => Len(r.v2p) <= MaxEntities - 1
                    /\ Len(m.tomb) <= MaxTomb => Len(r.tomb) <= MaxTomb
  OBVIOUS
<1> DEFINE old  == Head(m.v2p)
           f    == Fold[old.key]
           tkey == TombKey(old.key, old.val.label)
           t    == PopAndSet(m.tomb, tkey, old.val)
<1>0. /\ m.v2p \in Dict(Values, Placeholders) /\ m.tomb \in Dict(Values, Placeholders)
      /\ Len(m.v2p) \in Nat /\ Len(m.tomb) \in Nat
      /\ MaxEntities \in Nat \ {0} /\ MaxTomb \in Nat
  BY SizeAssumption DEF InstanceOK, MapOK, Dict
<1>1. CASE Len(m.v2p) < MaxEntities
  <2>1. r = m
    BY <1>1 DEF EvictIfFull
  <2> QED BY <1>0, <1>1, <2>1
<1>2. CASE ~(Len(m.v2p) < MaxEntities)
  <2>1. /\ old \in Items(m.v2p) /\ old.key \in Values /\ old.val \in Placeholders
        /\ Tail(m.v2p) \in Dict(Values, Placeholders)
        /\ Items(Tail(m.v2p)) \subseteq Items(m.v2p)
        /\ Len(Tail(m.v2p)) = Len(m.v2p) - 1
    <3>1. Len(m.v2p) > 0
      BY <1>0, <1>2
    <3> HIDE DEF old
    <3> QED BY <1>0, <3>1, TailShrinks DEF old
  <2>2. tkey \in Values /\ Fold[tkey] = f
    BY <2>1, FoldType
  <2>3. /\ t \in Dict(Values, Placeholders)
        /\ Items(t) \subseteq Items(m.tomb) \cup {[key |-> tkey, val |-> old.val]}
        /\ Len(t) <= Len(m.tomb) + 1
    <3>1. /\ Pop(m.tomb, tkey) \in Dict(Values, Placeholders)
          /\ Items(Pop(m.tomb, tkey)) \subseteq Items(m.tomb)
          /\ Len(Pop(m.tomb, tkey)) <= Len(m.tomb)
      BY <1>0, PopShrinks
    <3>2. /\ t \in Dict(Values, Placeholders)
          /\ Items(t) = Items(Pop(m.tomb, tkey)) \cup {[key |-> tkey, val |-> old.val]}
          /\ Len(t) = Len(Pop(m.tomb, tkey)) + 1
      BY <2>1, <2>2, <3>1, InsertAdds DEF PopAndSet
    <3>3. Len(Pop(m.tomb, tkey)) \in Nat
      BY <3>1 DEF Dict
    <3> QED BY <1>0, <3>1, <3>2, <3>3, SMTT(30)
  <2>4. /\ Trimmed(t) \in Dict(Values, Placeholders)
        /\ Items(Trimmed(t)) \subseteq Items(t)
        /\ Len(m.tomb) <= MaxTomb => Len(Trimmed(t)) <= MaxTomb
    <3>1. Len(t) \in Nat
      BY <2>3 DEF Dict
    <3> QED BY <1>0, <2>3, <3>1, TrimmedFacts
  <2>5. /\ DOMAIN r = DOMAIN m
        /\ r.v2p = Tail(m.v2p)
        /\ r.p2v = Unbind(m.p2v, old.val)
        /\ r.cf = IF f \in DOMAIN m.cf /\ m.cf[f] = old.val THEN Unbind(m.cf, f) ELSE m.cf
        /\ r.tomb = Trimmed(t)
        /\ r.evicted = m.evicted \cup {old.val}
        /\ r.counters = m.counters
        /\ r.created = m.created
    BY <1>2 DEF EvictIfFull, InstanceOK, EmptyMap
  <2> HIDE DEF old, f, tkey, t
  <2>6. /\ DOMAIN r.p2v \subseteq DOMAIN m.p2v
        /\ r.p2v \in [DOMAIN r.p2v -> Values]
        /\ \A p \in DOMAIN r.p2v : r.p2v[p] = m.p2v[p]
    BY <2>5 DEF Unbind, InstanceOK, MapOK
  <2>7. /\ DOMAIN r.cf \subseteq DOMAIN m.cf
        /\ r.cf \in [DOMAIN r.cf -> Placeholders]
        /\ \A x \in DOMAIN r.cf : r.cf[x] = m.cf[x]
    BY <2>5 DEF Unbind, InstanceOK, MapOK
  <2>8. InstanceOK(r)
    BY <2>1, <2>4, <2>5, <2>6, <2>7 DEF InstanceOK, MapOK
  <2>9. Claims(r) \subseteq Claims(m)
    <3>1. \A e \in Items(r.v2p) \cup Items(r.tomb) :
            [ph |-> e.val, fold |-> Fold[e.key]] \in Claims(m)
      <4> TAKE e \in Items(r.v2p) \cup Items(r.tomb)
      <4>1. CASE e \in Items(m.v2p) \cup Items(m.tomb)
        BY <4>1, ClaimsHave
      <4>2. CASE e = [key |-> tkey, val |-> old.val]
        <5>1. [ph |-> old.val, fold |-> Fold[old.key]] \in Claims(m)
          BY <2>1, ClaimsHave
        <5> QED BY <2>2, <4>2, <5>1 DEF f
      <4>3. Items(r.v2p) \cup Items(r.tomb) \subseteq
              Items(m.v2p) \cup Items(m.tomb) \cup {[key |-> tkey, val |-> old.val]}
        BY <2>1, <2>3, <2>4, <2>5
      <4> QED BY <4>1, <4>2, <4>3
    <3>2. \A p \in DOMAIN r.p2v : [ph |-> p, fold |-> Fold[r.p2v[p]]] \in Claims(m)
      BY <2>6, ClaimsHave
    <3> QED BY <3>1, <3>2, ClaimsWithin
  <2>10. Index(r) \subseteq Index(m)
    BY <2>7 DEF Index
  <2> QED
    BY <1>0, <1>2, <2>1, <2>4, <2>5, <2>8, <2>9, <2>10 DEF Stated
<1> QED BY <1>1, <1>2

\* Storing a binding states that binding and nothing else that is new.
LEMMA StoreFacts ==
  ASSUME NEW m, InstanceOK(m), NEW v \in Values, NEW l, NEW ph \in Placeholders
  PROVE  LET r == Store(m, v, l, ph)
         IN /\ InstanceOK(r)
            /\ r.counters = m.counters
            /\ r.created = m.created
            /\ r.tomb = m.tomb
            /\ r.evicted = m.evicted
            /\ Stated(r) \subseteq Stated(m) \cup {[ph |-> ph, fold |-> Fold[v]]}
            /\ Len(r.v2p) = Len(m.v2p) + 1
<1> SUFFICES ASSUME NEW r, r = Store(m, v, l, ph)
             PROVE  /\ InstanceOK(r)
                    /\ r.counters = m.counters
                    /\ r.created = m.created
                    /\ r.tomb = m.tomb
                    /\ r.evicted = m.evicted
                    /\ Stated(r) \subseteq Stated(m) \cup {[ph |-> ph, fold |-> Fold[v]]}
                    /\ Len(r.v2p) = Len(m.v2p) + 1
  OBVIOUS
<1> DEFINE c == [ph |-> ph, fold |-> Fold[v]]
<1>1. /\ DOMAIN r = DOMAIN m
      /\ r.v2p = Insert(m.v2p, v, ph)
      /\ r.p2v = Bind(m.p2v, ph, v)
      /\ r.cf = IF l \in CaseSensitive THEN m.cf ELSE Bind(m.cf, Fold[v], ph)
      /\ r.tomb = m.tomb /\ r.evicted = m.evicted
      /\ r.counters = m.counters /\ r.created = m.created
  BY DEF Store, InstanceOK, EmptyMap
<1>2. /\ r.v2p \in Dict(Values, Placeholders)
      /\ Items(r.v2p) = Items(m.v2p) \cup {[key |-> v, val |-> ph]}
      /\ Len(r.v2p) = Len(m.v2p) + 1
  BY <1>1, InsertAdds DEF InstanceOK, MapOK
<1>3. /\ DOMAIN r.p2v = DOMAIN m.p2v \cup {ph}
      /\ r.p2v \in [DOMAIN r.p2v -> Values]
      /\ \A p \in DOMAIN r.p2v : r.p2v[p] = IF p = ph THEN v ELSE m.p2v[p]
  BY <1>1 DEF Bind, InstanceOK, MapOK
<1>4. /\ DOMAIN r.cf \subseteq DOMAIN m.cf \cup {Fold[v]}
      /\ r.cf \in [DOMAIN r.cf -> Placeholders]
      /\ \A x \in DOMAIN r.cf : (x \in DOMAIN m.cf /\ r.cf[x] = m.cf[x])
                                 \/ (x = Fold[v] /\ r.cf[x] = ph)
  BY <1>1 DEF Bind, InstanceOK, MapOK
<1>5. InstanceOK(r)
  BY <1>1, <1>2, <1>3, <1>4, FoldType, ZenonT(60) DEF InstanceOK, MapOK
<1>6. Claims(r) \subseteq Claims(m) \cup {c}
  <2>1. \A e \in Items(r.v2p) \cup Items(r.tomb) :
          [ph |-> e.val, fold |-> Fold[e.key]] \in Claims(m) \cup {c}
    BY <1>1, <1>2, ClaimsHave
  <2>2. \A p \in DOMAIN r.p2v : [ph |-> p, fold |-> Fold[r.p2v[p]]] \in Claims(m) \cup {c}
    BY <1>3, ClaimsHave
  <2> QED BY <2>1, <2>2, ClaimsWithin
<1>7. Index(r) \subseteq Index(m) \cup {c}
  BY <1>4 DEF Index
<1> QED BY <1>1, <1>2, <1>5, <1>6, <1>7 DEF Stated

\* Claims and index entries are pairs of a placeholder and a value.
LEMMA StatedType ==
  ASSUME NEW m, InstanceOK(m)
  PROVE  Stated(m) \subseteq [ph : Placeholders, fold : Values]
<1> DEFINE C == [ph : Placeholders, fold : Values]
<1>1. \A e \in Items(m.v2p) \cup Items(m.tomb) : e.key \in Values /\ e.val \in Placeholders
  <2>1. m.v2p \in Seq(Entry(Values, Placeholders)) /\ m.tomb \in Seq(Entry(Values, Placeholders))
    BY DEF InstanceOK, MapOK, Dict
  <2>2. Items(m.v2p) \cup Items(m.tomb) \subseteq Entry(Values, Placeholders)
    BY <2>1 DEF Items
  <2> QED BY <2>2 DEF Entry
<1>2. \A e \in Items(m.v2p) \cup Items(m.tomb) : [ph |-> e.val, fold |-> Fold[e.key]] \in C
  BY <1>1, FoldAssumption
<1>3. \A p \in DOMAIN m.p2v : [ph |-> p, fold |-> Fold[m.p2v[p]]] \in C
  BY FoldAssumption DEF InstanceOK, MapOK
<1>4. Claims(m) \subseteq C
  BY <1>2, <1>3, ClaimsWithin
<1>5. Index(m) \subseteq C
  BY DEF Index, InstanceOK
<1> QED BY <1>4, <1>5 DEF Stated

SizesOK(m) == Len(m.v2p) <= MaxEntities /\ Len(m.tomb) <= MaxTomb

\* The effect of placeholder_for: it returns ph for v, and this is the only
\* new thing the map states; either the map stated it before, or ph carries
\* the number after the counter of its label.
Answers(v, l, ph) ==
  LET c == [ph |-> ph, fold |-> Fold[v]]
  IN /\ ph \in Placeholders
     /\ returned' = returned \cup {[value |-> v, label |-> l, ph |-> ph]}
     /\ InstanceOK(mem')
     /\ mem'.created = mem.created
     /\ \A k \in Labels : mem.counters[k] <= mem'.counters[k]
     /\ Stated(mem') \subseteq Stated(mem) \cup {c}
     /\ \/ c \in Stated(mem)
        \/ ph.num = mem.counters[ph.label] + 1 /\ mem'.counters[ph.label] = ph.num
     /\ SizesOK(mem) => SizesOK(mem')

\* An exact hit returns what v2p binds the value to.
LEMMA ReturnExactAnswers ==
  ASSUME TypeOK, NEW v \in Values, NEW l \in Labels, ReturnExact(v, l)
  PROVE  \E ph \in Placeholders : Answers(v, l, ph)
<1> DEFINE ph == Lookup(mem.v2p, v)
<1>1. PICK e \in Items(mem.v2p) : e.key = v /\ e.val = ph
  BY LookupFinds DEF ReturnExact
<1>2. [ph |-> ph, fold |-> Fold[v]] \in Stated(mem)
  BY <1>1, ClaimsHave DEF Stated
<1>3. ph \in Placeholders
  BY <1>2, StatedType DEF TypeOK
<1>4. mem' = mem /\ returned' = returned \cup {[value |-> v, label |-> l, ph |-> ph]}
  BY DEF ReturnExact, Return
<1>5. mem.counters \in [Labels -> Nat]
  BY DEF TypeOK, InstanceOK, MapOK
<1> HIDE DEF ph
<1> QED BY <1>2, <1>3, <1>4, <1>5 DEF Answers, TypeOK

\* A case variant gets the placeholder the casefold index has for it.
LEMMA ReturnCaseVariantAnswers ==
  ASSUME TypeOK, NEW v \in Values, NEW l \in Labels, ReturnCaseVariant(v, l)
  PROVE  \E ph \in Placeholders : Answers(v, l, ph)
<1> DEFINE ph == mem.cf[Fold[v]]
           c == [ph |-> ph, fold |-> Fold[v]]
<1>0. /\ InstanceOK(mem) /\ mem.counters \in [Labels -> Nat]
      /\ MaxEntities \in Nat /\ Len(mem.v2p) \in Nat
  BY SizeAssumption DEF TypeOK, InstanceOK, MapOK, Dict
<1>1. Fold[v] \in DOMAIN mem.cf
  BY DEF ReturnCaseVariant, FoldHit
<1>2. c \in Stated(mem) /\ ph \in Placeholders
  BY <1>0, <1>1 DEF Index, Stated, InstanceOK
<1>3. mem' = BindAlias(mem, v, ph) /\ returned' = returned \cup {[value |-> v, label |-> l, ph |-> ph]}
  BY DEF ReturnCaseVariant, Return
<1> HIDE DEF ph
<1>4. CASE Len(mem.v2p) < MaxEntities
  <2>1. /\ DOMAIN mem' = DOMAIN mem
        /\ mem'.v2p = Insert(mem.v2p, v, ph)
        /\ mem'.p2v = mem.p2v /\ mem'.cf = mem.cf /\ mem'.tomb = mem.tomb
        /\ mem'.counters = mem.counters /\ mem'.created = mem.created
        /\ mem'.evicted = mem.evicted
    BY <1>0, <1>3, <1>4 DEF BindAlias, InstanceOK, EmptyMap
  <2>2. /\ mem'.v2p \in Dict(Values, Placeholders)
        /\ Items(mem'.v2p) = Items(mem.v2p) \cup {[key |-> v, val |-> ph]}
        /\ Len(mem'.v2p) = Len(mem.v2p) + 1
    BY <1>0, <1>2, <2>1, InsertAdds DEF InstanceOK, MapOK
  <2>3. InstanceOK(mem')
    BY <1>0, <2>1, <2>2 DEF InstanceOK, MapOK
  <2>4. Claims(mem') \subseteq Claims(mem) \cup {c}
    <3>1. \A e \in Items(mem'.v2p) \cup Items(mem'.tomb) :
            [ph |-> e.val, fold |-> Fold[e.key]] \in Claims(mem) \cup {c}
      BY <2>1, <2>2, ClaimsHave
    <3>2. \A p \in DOMAIN mem'.p2v :
            [ph |-> p, fold |-> Fold[mem'.p2v[p]]] \in Claims(mem) \cup {c}
      BY <2>1, ClaimsHave
    <3> QED BY <3>1, <3>2, ClaimsWithin
  <2>5. Index(mem') = Index(mem)
    BY <2>1 DEF Index
  <2>6. Stated(mem') \subseteq Stated(mem) \cup {c}
    BY <2>4, <2>5 DEF Stated
  <2>7. SizesOK(mem) => SizesOK(mem')
    BY <1>0, <1>4, <2>1, <2>2 DEF SizesOK
  <2>8. \A k \in Labels : mem.counters[k] <= mem'.counters[k]
    BY <1>0, <2>1
  <2> HIDE DEF c
  <2>9. c = [ph |-> ph, fold |-> Fold[v]]
    BY DEF c
  <2>10. Answers(v, l, ph)
    BY <1>2, <1>3, <2>1, <2>3, <2>6, <2>7, <2>8, <2>9 DEF Answers
  <2> QED BY <1>2, <2>10
<1>5. CASE ~(Len(mem.v2p) < MaxEntities)
  <2>1. mem' = mem
    BY <1>3, <1>5 DEF BindAlias
  <2> QED BY <1>0, <1>2, <1>3, <2>1 DEF Answers
<1> QED BY <1>4, <1>5

\* A reactivated value gets the placeholder its tombstone kept.
LEMMA ReactivateAnswers ==
  ASSUME TypeOK, NEW v \in Values, NEW l \in Labels, Reactivate(v, l)
  PROVE  \E ph \in Placeholders : Answers(v, l, ph)
<1> DEFINE k == TombKey(v, l)
           ph == Lookup(mem.tomb, k)
           c == [ph |-> ph, fold |-> Fold[v]]
           room == EvictIfFull(mem)
           back == Store(room, v, l, ph)
<1>0. /\ InstanceOK(mem) /\ mem.counters \in [Labels -> Nat]
      /\ MaxEntities \in Nat /\ MaxTomb \in Nat
  BY SizeAssumption DEF TypeOK, InstanceOK, MapOK
<1>1. c \in Stated(mem) /\ ph \in Placeholders
  <2>1. PICK e \in Items(mem.tomb) : e.key = k /\ e.val = ph
    BY LookupFinds DEF Reactivate
  <2>2. [ph |-> ph, fold |-> Fold[k]] \in Stated(mem)
    BY <2>1, ClaimsHave DEF Stated
  <2> HIDE DEF ph, k
  <2>3. c \in Stated(mem)
    BY <2>2, FoldType DEF k
  <2> QED BY <1>0, <2>3, StatedType
<1>2. /\ returned' = returned \cup {[value |-> v, label |-> l, ph |-> ph]}
      /\ mem' = [back EXCEPT !.tomb = Pop(room.tomb, k), !.evicted = room.evicted \ {ph}]
  BY DEF Reactivate, Return
<1> HIDE DEF ph, k
<1>3. /\ InstanceOK(room) /\ room.counters = mem.counters /\ room.created = mem.created
      /\ Stated(room) \subseteq Stated(mem)
      /\ Len(mem.v2p) <= MaxEntities => Len(room.v2p) <= MaxEntities - 1
      /\ Len(mem.tomb) <= MaxTomb => Len(room.tomb) <= MaxTomb
  BY <1>0, EvictFacts
<1> HIDE DEF room
<1>4. /\ InstanceOK(back) /\ back.counters = mem.counters /\ back.created = mem.created
      /\ back.tomb = room.tomb /\ back.evicted = room.evicted
      /\ Stated(back) \subseteq Stated(room) \cup {c}
      /\ Len(back.v2p) = Len(room.v2p) + 1
  BY <1>1, <1>3, StoreFacts
<1> HIDE DEF back
<1>5. /\ DOMAIN mem' = DOMAIN back
      /\ mem'.v2p = back.v2p /\ mem'.p2v = back.p2v /\ mem'.cf = back.cf
      /\ mem'.tomb = Pop(room.tomb, k) /\ mem'.evicted = room.evicted \ {ph}
      /\ mem'.counters = back.counters /\ mem'.created = back.created
  BY <1>2, <1>4 DEF InstanceOK, EmptyMap
<1>6. /\ mem'.tomb \in Dict(Values, Placeholders)
      /\ Items(mem'.tomb) \subseteq Items(back.tomb)
      /\ Len(mem'.tomb) <= Len(room.tomb)
  BY <1>3, <1>4, <1>5, PopShrinks DEF InstanceOK, MapOK
<1>7. InstanceOK(mem')
  BY <1>3, <1>4, <1>5, <1>6 DEF InstanceOK, MapOK
<1>8. Stated(mem') \subseteq Stated(mem) \cup {c}
  <2>1. Claims(mem') \subseteq Claims(back)
    <3>1. \A e \in Items(mem'.v2p) \cup Items(mem'.tomb) :
            [ph |-> e.val, fold |-> Fold[e.key]] \in Claims(back)
      BY <1>5, <1>6, ClaimsHave
    <3>2. \A p \in DOMAIN mem'.p2v : [ph |-> p, fold |-> Fold[mem'.p2v[p]]] \in Claims(back)
      BY <1>5, ClaimsHave
    <3> QED BY <3>1, <3>2, ClaimsWithin
  <2>2. Index(mem') = Index(back)
    BY <1>5 DEF Index
  <2> QED BY <1>3, <1>4, <2>1, <2>2 DEF Stated
<1>9. SizesOK(mem) => SizesOK(mem')
  <2>1. Len(mem'.v2p) \in Nat /\ Len(room.v2p) \in Nat /\ Len(room.tomb) \in Nat /\ Len(mem'.tomb) \in Nat
    BY <1>3, <1>7 DEF InstanceOK, MapOK, Dict
  <2> QED BY <1>0, <1>3, <1>4, <1>5, <1>6, <2>1 DEF SizesOK
<1> HIDE DEF c
<1>10. c = [ph |-> ph, fold |-> Fold[v]]
  BY DEF c
<1> QED BY SMTT(60), <1>0, <1>1, <1>2, <1>4, <1>5, <1>7, <1>8, <1>9, <1>10 DEF Answers

\* A minted placeholder has the number after the counter, which advances to it.
LEMMA MintAnswers ==
  ASSUME TypeOK, NEW v \in Values, NEW l \in Labels, Mint(v, l)
  PROVE  \E ph \in Placeholders : Answers(v, l, ph)
<1> DEFINE ph == [label |-> l, num |-> NextNumber(mem, l)]
           c == [ph |-> ph, fold |-> Fold[v]]
           next == [mem EXCEPT !.counters[l] = @ + 1]
           room == EvictIfFull(next)
<1>0. /\ InstanceOK(mem) /\ mem.counters \in [Labels -> Nat]
      /\ MaxEntities \in Nat /\ MaxTomb \in Nat
  BY SizeAssumption DEF TypeOK, InstanceOK, MapOK
<1>1. /\ ph \in Placeholders
      /\ ph.label = l /\ ph.num = mem.counters[l] + 1
  BY <1>0 DEF Placeholders, NextNumber
<1>2. /\ returned' = returned \cup {[value |-> v, label |-> l, ph |-> ph]}
      /\ mem' = Store(room, v, l, ph)
  BY DEF Mint, Return
<1> HIDE DEF ph
<1>3. /\ DOMAIN next = DOMAIN mem
      /\ next.v2p = mem.v2p /\ next.p2v = mem.p2v /\ next.cf = mem.cf
      /\ next.tomb = mem.tomb /\ next.evicted = mem.evicted
      /\ next.created = mem.created
      /\ next.counters = [mem.counters EXCEPT ![l] = @ + 1]
  BY <1>0 DEF InstanceOK, EmptyMap
<1> HIDE DEF next
<1>4. /\ next.counters \in [Labels -> Nat]
      /\ next.counters[l] = mem.counters[l] + 1
      /\ \A k \in Labels : mem.counters[k] <= next.counters[k]
  BY <1>0, <1>3
<1>5. InstanceOK(next) /\ Stated(next) = Stated(mem)
  <2>1. InstanceOK(next)
    BY <1>0, <1>3, <1>4 DEF InstanceOK, MapOK
  <2>2. Claims(next) = Claims(mem) /\ Index(next) = Index(mem)
    BY <1>3 DEF Claims, Index
  <2> QED BY <2>1, <2>2 DEF Stated
<1>6. /\ InstanceOK(room) /\ room.counters = next.counters /\ room.created = mem.created
      /\ Stated(room) \subseteq Stated(mem)
      /\ Len(mem.v2p) <= MaxEntities => Len(room.v2p) <= MaxEntities - 1
      /\ Len(mem.tomb) <= MaxTomb => Len(room.tomb) <= MaxTomb
  BY <1>3, <1>5, EvictFacts
<1> HIDE DEF room
<1>7. /\ InstanceOK(mem') /\ mem'.counters = next.counters /\ mem'.created = mem.created
      /\ mem'.tomb = room.tomb
      /\ Stated(mem') \subseteq Stated(room) \cup {c}
      /\ Len(mem'.v2p) = Len(room.v2p) + 1
  BY <1>1, <1>2, <1>6, StoreFacts
<1>8. SizesOK(mem) => SizesOK(mem')
  <2>1. Len(room.v2p) \in Nat
    BY <1>6 DEF InstanceOK, MapOK, Dict
  <2> QED BY <1>0, <1>6, <1>7, <2>1 DEF SizesOK
<1>9. Stated(mem') \subseteq Stated(mem) \cup {c}
  BY <1>6, <1>7
<1> HIDE DEF c
<1>10. c = [ph |-> ph, fold |-> Fold[v]]
  BY DEF c
<1>11. Answers(v, l, ph)
  BY <1>1, <1>2, <1>4, <1>7, <1>8, <1>9, <1>10 DEF Answers
<1> QED BY <1>1, <1>11

\* Whatever branch placeholder_for takes, it answers as described.
LEMMA PlaceholderForAnswers ==
  ASSUME TypeOK, NEW v \in Values, NEW l \in Labels, PlaceholderFor(v, l)
  PROVE  \E ph \in Placeholders : Answers(v, l, ph)
BY ReturnExactAnswers, ReturnCaseVariantAnswers, ReactivateAnswers, MintAnswers
   DEF PlaceholderFor

\* One more claim is harmless when it was there before, or its placeholder is
\* numbered past every claim made so far.
LEMMA OneMoreClaim ==
  ASSUME NEW C \in SUBSET [ph : Placeholders, fold : Values],
         NEW low \in [Labels -> Nat], NEW high \in [Labels -> Nat],
         NEW ph \in Placeholders, NEW f \in Values,
         Agree(C), Numbered(C, low),
         \A k \in Labels : low[k] <= high[k],
         \/ [ph |-> ph, fold |-> f] \in C
         \/ ph.num = low[ph.label] + 1 /\ high[ph.label] = ph.num
  PROVE  LET D == C \cup {[ph |-> ph, fold |-> f]}
         IN Agree(D) /\ Numbered(D, high)
<1> DEFINE c == [ph |-> ph, fold |-> f]
<1>0. ph.label \in Labels /\ ph.num \in Nat /\ \A a \in C : a.ph \in Placeholders /\ a.ph.label \in Labels /\ a.ph.num \in Nat
  BY DEF Placeholders
<1>1. Numbered(C, high)
  <2> SUFFICES ASSUME NEW a \in C PROVE a.ph.num <= high[a.ph.label]
    BY DEF Numbered
  <2>1. a.ph.num <= low[a.ph.label] /\ low[a.ph.label] <= high[a.ph.label]
    BY <1>0 DEF Numbered
  <2>2. low[a.ph.label] \in Nat /\ high[a.ph.label] \in Nat /\ a.ph.num \in Nat
    BY <1>0
  <2> QED BY <2>1, <2>2
<1>2. CASE c \in C
  <2>1. C \cup {c} = C
    BY <1>2
  <2> QED BY <1>1, <2>1
<1>3. CASE ph.num = low[ph.label] + 1 /\ high[ph.label] = ph.num
  <2>1. \A a \in C : a.ph # ph
    <3> SUFFICES ASSUME NEW a \in C, a.ph = ph PROVE FALSE
      OBVIOUS
    <3>1. ph.num <= low[ph.label] /\ low[ph.label] \in Nat
      BY <1>0 DEF Numbered
    <3> QED BY <1>0, <1>3, <3>1
  <2>2. Agree(C \cup {c})
    BY <2>1 DEF Agree
  <2>3. Numbered(C \cup {c}, high)
    BY <1>0, <1>1, <1>3 DEF Numbered
  <2> QED BY <2>2, <2>3
<1> QED BY <1>2, <1>3
-----------------------------------------------------------------------------
(* The inductive invariant *)

IInv == TypeOK /\ SizesBounded /\ Fresh

\* Fewer claims agree and are numbered as well.
LEMMA FewerClaims ==
  ASSUME NEW D, NEW C \in SUBSET D, NEW counters
  PROVE  (Agree(D) => Agree(C)) /\ (Numbered(D, counters) => Numbered(C, counters))
BY DEF Agree, Numbered

\* On a file whose claims are all numbered, reconciliation changes nothing.
LEMMA ReconciledSame ==
  ASSUME NEW d, MapOK(d), Numbered(Claims(d), d.counters)
  PROVE  Reconciled(d) = d.counters
<1> DEFINE Live == DOMAIN d.p2v \cup {e.val : e \in Items(d.tomb)}
           Above(l) == {p.num : p \in {q \in Live : q.label = l /\ q.num > d.counters[l]}}
<1>1. \A q \in Live : q.num <= d.counters[q.label]
  <2>1. \A e \in Items(d.tomb) : e.val.num <= d.counters[e.val.label]
    <3> TAKE e \in Items(d.tomb)
    <3>1. [ph |-> e.val, fold |-> Fold[e.key]] \in Claims(d)
      BY ClaimsHave
    <3> QED BY <3>1 DEF Numbered
  <2>2. \A p \in DOMAIN d.p2v : p.num <= d.counters[p.label]
    <3> TAKE p \in DOMAIN d.p2v
    <3>1. [ph |-> p, fold |-> Fold[d.p2v[p]]] \in Claims(d)
      BY ClaimsHave
    <3> QED BY <3>1 DEF Numbered
  <2> QED BY <2>1, <2>2
<1>2. \A q \in Live : q.label \in Labels /\ q.num \in Nat
  <2>1. \A e \in Items(d.tomb) : e.val \in Placeholders
    BY EntryTypes DEF MapOK
  <2> QED BY <2>1 DEF MapOK, Placeholders
<1>3. d.counters \in [Labels -> Nat]
  BY DEF MapOK
<1>4. \A l \in Labels : Above(l) = {}
  BY <1>1, <1>2, <1>3
<1>5. Reconciled(d) = [l \in Labels |-> d.counters[l]]
  BY <1>4 DEF Reconciled
<1> QED BY <1>3, <1>5

\* The casefold index built on load repeats what v2p says.
LEMMA IndexRepeats ==
  ASSUME NEW d \in Dict(Values, Placeholders)
  PROVE  /\ DOMAIN CasefoldIndex(d) \subseteq Values
         /\ CasefoldIndex(d) \in [DOMAIN CasefoldIndex(d) -> Placeholders]
         /\ \A f \in DOMAIN CasefoldIndex(d) : \E e \in Items(d) :
              e.val = CasefoldIndex(d)[f] /\ Fold[e.key] = f
<1> DEFINE FoldAt(i) == Fold[d[i].key]
           Plain == {i \in DOMAIN d : ~Sensitive(d[i].val)}
           Latest == {i \in Plain : \A j \in Plain : FoldAt(j) = FoldAt(i) => j <= i}
           At(f) == CHOOSE i \in Latest : FoldAt(i) = f
<1>1. CasefoldIndex(d) = [f \in {FoldAt(i) : i \in Latest} |-> d[At(f)].val]
  BY DEF CasefoldIndex
<1>2. Latest \subseteq DOMAIN d
  OBVIOUS
<1> HIDE DEF Latest
<1>3. \A f \in {FoldAt(i) : i \in Latest} : At(f) \in DOMAIN d /\ FoldAt(At(f)) = f
  BY <1>2
<1>4. \A i \in DOMAIN d : d[i] \in Items(d) /\ d[i].key \in Values /\ d[i].val \in Placeholders
  BY EntryTypes
<1>5. \A i \in DOMAIN d : FoldAt(i) \in Values
  BY <1>4, FoldAssumption
<1> QED
  <2> HIDE DEF At
  <2> QED BY <1>1, <1>2, <1>3, <1>4, <1>5

\* A loaded map knows no more than the file and what went upstream.
LEMMA LoadFileKeeps ==
  ASSUME IInv, LoadFile
  PROVE  IInv'
<1>0. /\ TypeOK /\ SizesBounded /\ Fresh
      /\ MapOK(disk) /\ returned = {} /\ ~open
  BY DEF IInv, LoadFile, TypeOK, Fresh
<1>1. PICK kept \in Restrictions(disk.v2p, KeptKeys(disk)) :
        mem' = [v2p |-> kept, p2v |-> disk.p2v, cf |-> CasefoldIndex(kept),
                tomb |-> disk.tomb, counters |-> Reconciled(disk),
                created |-> disk.created, evicted |-> {}]
  BY DEF LoadFile
<1>2. UNCHANGED <<file, disk, gens, returned, sent>> /\ open'
  BY DEF LoadFile
<1>3. /\ kept \in Dict(Values, Placeholders)
      /\ Items(kept) \subseteq Items(disk.v2p)
      /\ Len(kept) <= Len(disk.v2p)
  BY <1>0, RestrictionShrinks DEF MapOK
<1>4. Numbered(Claims(disk), disk.counters)
  BY <1>0, FewerClaims DEF Fresh, KnownOnDisk
<1>5. mem'.counters = disk.counters
  BY <1>0, <1>1, <1>4, ReconciledSame
<1>6. /\ mem'.v2p = kept /\ mem'.p2v = disk.p2v /\ mem'.cf = CasefoldIndex(kept)
      /\ mem'.tomb = disk.tomb /\ mem'.created = disk.created /\ mem'.evicted = {}
      /\ DOMAIN mem' = DOMAIN EmptyMap(0)
  BY <1>1 DEF EmptyMap
<1>7. InstanceOK(mem')
  BY <1>0, <1>3, <1>5, <1>6, IndexRepeats DEF InstanceOK, MapOK
<1>8. Claims(mem') \subseteq Claims(disk)
  <2>1. \A e \in Items(mem'.v2p) \cup Items(mem'.tomb) :
          [ph |-> e.val, fold |-> Fold[e.key]] \in Claims(disk)
    BY <1>3, <1>6, ClaimsHave
  <2>2. \A p \in DOMAIN mem'.p2v : [ph |-> p, fold |-> Fold[mem'.p2v[p]]] \in Claims(disk)
    BY <1>6, ClaimsHave
  <2> QED BY <2>1, <2>2, ClaimsWithin
<1>9. Index(mem') \subseteq Claims(disk)
  <2> SUFFICES ASSUME NEW f \in DOMAIN mem'.cf
               PROVE  [ph |-> mem'.cf[f], fold |-> f] \in Claims(disk)
    BY DEF Index
  <2>1. PICK e \in Items(kept) : e.val = mem'.cf[f] /\ Fold[e.key] = f
    BY <1>3, <1>6, IndexRepeats
  <2>2. [ph |-> e.val, fold |-> Fold[e.key]] \in Claims(disk)
    BY <1>3, <2>1, ClaimsHave
  <2> QED BY <2>1, <2>2
<1>10. KnownInMemory' \subseteq KnownOnDisk
  <2>1. Told' = {}
    BY <1>0, <1>2 DEF Told
  <2>2. Upstream(mem.created)' = Upstream(disk.created)
    BY <1>2, <1>6 DEF Upstream
  <2> QED BY <1>8, <1>9, <2>1, <2>2 DEF KnownInMemory, KnownOnDisk
<1>11. KnownOnDisk' = KnownOnDisk
  BY <1>2 DEF KnownOnDisk, Upstream
<1>12. Agree(KnownInMemory') /\ Numbered(KnownInMemory', mem'.counters)
  BY <1>0, <1>5, <1>10, FewerClaims DEF Fresh
<1>13. TypeOK'
  BY <1>0, <1>2, <1>7 DEF TypeOK
<1>14. SizesBounded'
  <2>1. Len(kept) \in Nat /\ Len(disk.v2p) \in Nat /\ MaxEntities \in Nat
    BY <1>0, <1>3, SizeAssumption DEF MapOK, Dict
  <2> QED BY <1>0, <1>2, <1>3, <1>6, <2>1 DEF SizesBounded
<1>15. Fresh'
  BY <1>0, <1>2, <1>6, <1>11, <1>12 DEF Fresh
<1> QED BY <1>13, <1>14, <1>15 DEF IInv

\* A map started empty has nothing upstream yet.
LEMMA LoadEmptyKeeps ==
  ASSUME IInv, LoadEmpty
  PROVE  IInv'
<1>0. /\ TypeOK /\ SizesBounded /\ Fresh /\ gens \in Nat /\ returned = {} /\ ~open
  BY DEF IInv, LoadEmpty, TypeOK, Fresh
<1>1. /\ gens' = gens + 1 /\ mem' = EmptyMap(gens') /\ open'
      /\ file' \in {"none", "intact", "corrupt"}
      /\ UNCHANGED <<disk, returned, sent>>
  BY <1>0 DEF LoadEmpty, TypeOK
<1>2. InstanceOK(mem') /\ Stated(mem') = {} /\ gens' \in Nat
  BY <1>0, <1>1, EmptyMapOK
<1>3. mem'.created = gens + 1 /\ mem'.v2p = <<>> /\ mem'.tomb = <<>>
  BY <1>1 DEF EmptyMap
<1>4. KnownInMemory' = {}
  <2>1. Upstream(mem.created)' = {}
    <3>1. \A s \in sent' : s.gen # mem'.created
      BY <1>0, <1>1, <1>3 DEF Fresh, TypeOK
    <3> QED BY <3>1 DEF Upstream
  <2>2. Told' = {}
    BY <1>0, <1>1 DEF Told
  <2> QED BY <1>2, <2>1, <2>2 DEF KnownInMemory, Stated
<1>5. Agree(KnownInMemory') /\ Numbered(KnownInMemory', mem'.counters)
  BY <1>4 DEF Agree, Numbered
<1>6. KnownOnDisk' = KnownOnDisk
  BY <1>1 DEF KnownOnDisk, Upstream
<1>7. /\ disk'.created <= gens' /\ mem'.created <= gens'
      /\ \A s \in sent' : s.gen <= gens'
  BY <1>0, <1>1, <1>2, <1>3 DEF Fresh, TypeOK, MapOK
<1>8. TypeOK'
  BY <1>0, <1>1, <1>2 DEF TypeOK
<1>9. SizesBounded'
  BY <1>0, <1>1, <1>3, SizeAssumption DEF SizesBounded
<1>10. Fresh'
  BY <1>0, <1>1, <1>5, <1>6, <1>7 DEF Fresh
<1> QED BY <1>8, <1>9, <1>10 DEF IInv

\* A call adds one claim to what is known, and OneMoreClaim applies to it.
LEMMA PlaceholderForKeeps ==
  ASSUME IInv, NEW v \in Values, NEW l \in Labels, PlaceholderFor(v, l)
  PROVE  IInv'
<1>0. /\ TypeOK /\ SizesBounded /\ Fresh /\ open
      /\ UNCHANGED <<file, disk, open, gens, sent>>
  BY DEF IInv, PlaceholderFor
<1>1. PICK ph \in Placeholders : Answers(v, l, ph)
  BY <1>0, PlaceholderForAnswers
<1> DEFINE c == [ph |-> ph, fold |-> Fold[v]]
<1>2. /\ returned' = returned \cup {[value |-> v, label |-> l, ph |-> ph]}
      /\ InstanceOK(mem') /\ mem'.created = mem.created
      /\ \A k \in Labels : mem.counters[k] <= mem'.counters[k]
      /\ Stated(mem') \subseteq Stated(mem) \cup {c}
      /\ \/ c \in Stated(mem)
         \/ ph.num = mem.counters[ph.label] + 1 /\ mem'.counters[ph.label] = ph.num
      /\ SizesOK(mem) => SizesOK(mem')
  BY <1>1 DEF Answers
<1>3. InstanceOK(mem) /\ mem.counters \in [Labels -> Nat] /\ mem'.counters \in [Labels -> Nat]
  BY <1>0, <1>2 DEF TypeOK, InstanceOK, MapOK
<1>4. KnownInMemory' \subseteq KnownInMemory \cup {c}
  <2>1. Told' \subseteq Told \cup {c}
    BY <1>2 DEF Told
  <2>2. Upstream(mem.created)' = Upstream(mem.created)
    BY <1>0, <1>2 DEF Upstream
  <2> HIDE DEF c
  <2> QED BY <1>2, <2>1, <2>2 DEF KnownInMemory, Stated
<1>5. KnownInMemory \in SUBSET [ph : Placeholders, fold : Values]
  <2>1. Told \subseteq [ph : Placeholders, fold : Values]
    BY <1>0, FoldAssumption DEF Told, TypeOK
  <2>2. Upstream(mem.created) \subseteq [ph : Placeholders, fold : Values]
    BY <1>0, FoldAssumption DEF Upstream, TypeOK
  <2>3. Stated(mem) \subseteq [ph : Placeholders, fold : Values]
    BY <1>3, StatedType
  <2> QED BY <2>1, <2>2, <2>3 DEF KnownInMemory, Stated
<1>6. /\ Agree(KnownInMemory \cup {c})
      /\ Numbered(KnownInMemory \cup {c}, mem'.counters)
  <2>1. Agree(KnownInMemory) /\ Numbered(KnownInMemory, mem.counters)
    BY <1>0 DEF Fresh
  <2>2. \/ c \in KnownInMemory
        \/ ph.num = mem.counters[ph.label] + 1 /\ mem'.counters[ph.label] = ph.num
    BY <1>2 DEF KnownInMemory, Stated
  <2>3. Fold[v] \in Values
    BY FoldAssumption
  <2> QED BY <1>2, <1>3, <1>5, <2>1, <2>2, <2>3, OneMoreClaim
<1>7. Agree(KnownInMemory') /\ Numbered(KnownInMemory', mem'.counters)
  BY <1>4, <1>6, FewerClaims
<1>8. KnownOnDisk' = KnownOnDisk
  BY <1>0 DEF KnownOnDisk, Upstream
<1>9. TypeOK'
  <2>1. returned' \subseteq [value : Values, label : Labels, ph : Placeholders]
    BY <1>0, <1>2 DEF TypeOK
  <2> QED BY <1>0, <1>2, <2>1 DEF TypeOK
<1>10. SizesBounded'
  BY <1>0, <1>2 DEF SizesBounded, SizesOK
<1>11. Fresh'
  BY <1>0, <1>2, <1>7, <1>8 DEF Fresh
<1> QED BY <1>9, <1>10, <1>11 DEF IInv

\* An instance closed: nothing is held in memory.
LEMMA CloseFacts ==
  ASSUME Close
  PROVE  /\ open' = FALSE /\ returned' = {} /\ mem' = EmptyMap(0) /\ gens' = gens
         /\ InstanceOK(mem') /\ mem'.created = 0
         /\ mem'.v2p = <<>> /\ mem'.tomb = <<>>
<1>1. open' = FALSE /\ returned' = {} /\ mem' = EmptyMap(0) /\ gens' = gens
  BY DEF Close
<1> QED BY <1>1, EmptyMapOK DEF EmptyMap

\* An aborted request leaves the file, and what is upstream, as they were.
LEMMA AbortKeeps ==
  ASSUME IInv, Abort
  PROVE  IInv'
<1>0. /\ TypeOK /\ SizesBounded /\ Fresh /\ Close /\ UNCHANGED <<file, disk, sent>>
      /\ gens \in Nat
  BY DEF IInv, Abort, TypeOK
<1>1. TypeOK'
  BY <1>0, CloseFacts DEF TypeOK
<1>2. SizesBounded'
  <2>1. Len(mem'.v2p) = 0 /\ Len(mem'.tomb) = 0
    BY <1>0, CloseFacts
  <2> QED BY <1>0, <2>1, SizeAssumption DEF SizesBounded
<1>3. KnownOnDisk' = KnownOnDisk
  BY <1>0 DEF KnownOnDisk, Upstream
<1>4. Fresh'
  BY <1>0, <1>3, CloseFacts DEF Fresh
<1> QED BY <1>1, <1>2, <1>4 DEF IInv

\* The end of a request: what the file states is either what it stated before
\* or what the instance stated, and all that went upstream was stated by it.
LEMMA EndRequestKeeps ==
  ASSUME IInv, NEW forwarded \in BOOLEAN, EndRequest(forwarded)
  PROVE  IInv'
<1>0. /\ TypeOK /\ SizesBounded /\ Fresh /\ open /\ Close
      /\ InstanceOK(mem) /\ gens \in Nat
  BY DEF IInv, EndRequest, TypeOK
<1> DEFINE Now == {[gen |-> mem.created, value |-> r.value, label |-> r.label, ph |-> r.ph] :
                     r \in returned}
<1>1. sent' \subseteq sent \cup Now
  BY DEF EndRequest
<1>2. \/ file' = "intact" /\ disk' = Contents(mem)
      \/ SaveMayFail /\ file' \in {file, "corrupt"} /\ disk' = disk
      \/ returned = {} /\ file' = file /\ disk' = disk
  BY DEF EndRequest, Save
<1>3. /\ Contents(mem).v2p = mem.v2p /\ Contents(mem).p2v = mem.p2v
      /\ Contents(mem).tomb = mem.tomb /\ Contents(mem).counters = mem.counters
      /\ Contents(mem).created = mem.created
      /\ DOMAIN Contents(mem) = DOMAIN Contents(EmptyMap(0))
  BY DEF Contents
<1>4. TypeOK'
  <2>1. MapOK(disk') /\ DOMAIN disk' = DOMAIN Contents(EmptyMap(0))
    BY <1>0, <1>2, <1>3 DEF TypeOK, InstanceOK, MapOK
  <2>2. Now \subseteq [gen : Nat, value : Values, label : Labels, ph : Placeholders]
    BY <1>0 DEF TypeOK, InstanceOK, MapOK
  <2>3. file' \in {"none", "intact", "corrupt"}
    BY <1>0, <1>2 DEF TypeOK
  <2>4. sent' \subseteq [gen : Nat, value : Values, label : Labels, ph : Placeholders]
    BY <1>0, <1>1, <2>2 DEF TypeOK
  <2> QED BY <1>0, <2>1, <2>3, <2>4, CloseFacts DEF TypeOK
<1>5. SizesBounded'
  <2>1. Len(mem'.v2p) = 0 /\ Len(mem'.tomb) = 0
    BY <1>0, CloseFacts
  <2>2. Len(disk'.v2p) <= MaxEntities /\ Len(disk'.tomb) <= MaxTomb
    BY <1>0, <1>2, <1>3 DEF SizesBounded
  <2> QED BY <2>1, <2>2, SizeAssumption DEF SizesBounded
<1>6. Agree(KnownOnDisk') /\ Numbered(KnownOnDisk', disk'.counters)
  <2>1. CASE disk' = Contents(mem)
    <3>1. Claims(disk') = Claims(mem)
      BY <1>3, <2>1 DEF Claims
    <3>2. Upstream(disk.created)' \subseteq Upstream(mem.created) \cup Told
      <4>1. \A s \in sent' : s.gen = mem.created =>
              s \in {t \in sent : t.gen = mem.created} \cup Now
        BY <1>1
      <4>2. \A s \in Now : [ph |-> s.ph, fold |-> Fold[s.value]] \in Told
        BY DEF Told
      <4> HIDE DEF Now
      <4>3. disk'.created = mem.created
        BY <1>3, <2>1
      <4> QED BY <4>1, <4>2, <4>3 DEF Upstream
    <3>3. KnownOnDisk' \subseteq KnownInMemory
      BY <3>1, <3>2 DEF KnownOnDisk, KnownInMemory
    <3> QED BY <1>0, <1>3, <2>1, <3>3, FewerClaims DEF Fresh
  <2>2. CASE disk' = disk /\ (SaveMayFail \/ sent' \subseteq sent)
    <3>1. Upstream(disk.created)' \subseteq Upstream(disk.created)
      BY <2>2 DEF Upstream
    <3>2. KnownOnDisk' \subseteq KnownOnDisk
      BY <2>2, <3>1 DEF KnownOnDisk
    <3> QED BY <1>0, <2>2, <3>2, FewerClaims DEF Fresh
  <2>3. returned = {} => sent' \subseteq sent
    BY <1>1
  <2> QED BY <1>2, <2>1, <2>2, <2>3
<1>7. disk'.created <= gens'
  BY <1>0, <1>2, <1>3, CloseFacts DEF Fresh
<1>8. \A s \in sent' : s.gen <= gens'
  BY <1>0, <1>1, CloseFacts DEF Fresh
<1>9. Fresh'
  BY <1>0, <1>6, <1>7, <1>8, CloseFacts DEF Fresh
<1> QED BY <1>4, <1>5, <1>9 DEF IInv
-----------------------------------------------------------------------------
(* The theorems *)

LEMMA InitEstablishes == Init => IInv
<1> SUFFICES ASSUME Init PROVE IInv
  OBVIOUS
<1>1. InstanceOK(EmptyMap(0)) /\ Claims(EmptyMap(0)) = {}
  BY EmptyMapOK DEF Stated
<1>2. /\ disk = Contents(EmptyMap(0)) /\ mem = EmptyMap(0) /\ sent = {}
      /\ returned = {} /\ gens = 0 /\ file = "none" /\ open = FALSE
  BY DEF Init
<1>3. /\ disk.v2p = mem.v2p /\ disk.p2v = mem.p2v /\ disk.tomb = mem.tomb
      /\ disk.counters = mem.counters /\ disk.created = 0 /\ mem.created = 0
      /\ mem.v2p = <<>> /\ mem.tomb = <<>>
  BY <1>2 DEF Contents, EmptyMap
<1>4. TypeOK
  BY <1>1, <1>2, <1>3 DEF TypeOK, InstanceOK, MapOK
<1>5. SizesBounded
  <2>1. Len(mem.v2p) = 0 /\ Len(mem.tomb) = 0
    BY <1>3
  <2> QED BY <1>3, <2>1, SizeAssumption DEF SizesBounded
<1>6. KnownOnDisk = {}
  <2>1. Claims(disk) = {}
    BY <1>1, <1>2, <1>3 DEF Claims
  <2> QED BY <1>2, <2>1 DEF KnownOnDisk, Upstream
<1>7. Fresh
  BY <1>2, <1>3, <1>6 DEF Fresh, Agree, Numbered
<1> QED BY <1>4, <1>5, <1>7 DEF IInv

LEMMA NextPreserves == IInv /\ [Next]_vars => IInv'
<1> SUFFICES ASSUME IInv, [Next]_vars PROVE IInv'
  OBVIOUS
<1>1. CASE LoadEmpty
  BY <1>1, LoadEmptyKeeps
<1>2. CASE LoadFile
  BY <1>2, LoadFileKeeps
<1>3. CASE \E v \in Values, l \in Labels : PlaceholderFor(v, l)
  BY <1>3, PlaceholderForKeeps
<1>4. CASE \E forwarded \in BOOLEAN : EndRequest(forwarded)
  BY <1>4, EndRequestKeeps
<1>5. CASE Abort
  BY <1>5, AbortKeeps
<1>6. CASE UNCHANGED vars
  BY <1>6 DEF vars, IInv, TypeOK, SizesBounded, Fresh, KnownOnDisk, KnownInMemory,
              Told, Upstream
<1> QED BY <1>1, <1>2, <1>3, <1>4, <1>5, <1>6 DEF Next

LEMMA Invariance == Spec => []IInv
BY InitEstablishes, NextPreserves, PTL DEF Spec

\* Every state of the map is well typed, whatever is detected, evicted,
\* reloaded or lost.
THEOREM TypeCorrect == Spec => []TypeOK
<1>1. IInv => TypeOK
  BY DEF IInv
<1> QED BY <1>1, Invariance, PTL

\* The map never stores more than MaxEntities values and MaxTomb tombstones,
\* in memory or on disk.
THEOREM SizesStayBounded == Spec => []SizesBounded
<1>1. IInv => SizesBounded
  BY DEF IInv
<1> QED BY <1>1, Invariance, PTL

\* The numbering discipline of placeholder_for: whatever may still be known
\* of a placeholder has one meaning and a number its counter has passed.
THEOREM FreshNumbers == Spec => []Fresh
<1>1. IInv => Fresh
  BY DEF IInv
<1> QED BY <1>1, Invariance, PTL

\* No placeholder ever stands for two values that differ by more than case:
\* eviction, tombstones, aliases, reloads, crashes and failed saves included.
THEOREM RehydrationIsRight == Spec => []NeverWrongValue
<1>1. IInv => NeverWrongValue
  <2> SUFFICES ASSUME IInv PROVE NeverWrongValue
    OBVIOUS
  <2>1. Fresh
    BY DEF IInv
  <2>2. Agree(Claims(disk))
    BY <2>1, FewerClaims DEF Fresh, KnownOnDisk
  <2>3. Agree(Claims(mem) \cup Index(mem) \cup Told)
    <3>1. CASE open
      BY <2>1, <3>1, FewerClaims DEF Fresh, KnownInMemory
    <3>2. CASE ~open
      <4>1. Stated(mem) = {} /\ Told = {}
        BY <2>1, <3>2, EmptyMapOK DEF Fresh, Told
      <4> QED BY <4>1 DEF Stated, Agree
    <3> QED BY <3>1, <3>2
  <2> QED BY <2>2, <2>3 DEF NeverWrongValue
<1> QED BY <1>1, Invariance, PTL

\* The placeholders one more request takes upstream mean what they meant.
LEMMA EndRequestReissuesNothing ==
  ASSUME IInv, NeverReissued, ~SaveMayFail,
         NEW forwarded \in BOOLEAN, EndRequest(forwarded)
  PROVE  NeverReissued'
<1> DEFINE g == mem.created
           Now == {[gen |-> g, value |-> r.value, label |-> r.label, ph |-> r.ph] :
                     r \in returned}
<1>1. sent' \subseteq sent \cup Now
  BY DEF EndRequest
<1>2. \A s \in sent' : s.gen = g =>
        [ph |-> s.ph, fold |-> Fold[s.value]] \in KnownInMemory
  <2> SUFFICES ASSUME NEW s \in sent', s.gen = g
               PROVE  [ph |-> s.ph, fold |-> Fold[s.value]] \in Told \cup Upstream(g)
    BY DEF KnownInMemory
  <2>1. CASE s \in sent
    BY <2>1 DEF Upstream
  <2>2. CASE s \in Now
    BY <2>2 DEF Told
  <2> QED BY <1>1, <2>1, <2>2
<1>3. Agree(KnownInMemory)
  BY DEF IInv, Fresh, EndRequest
<1> SUFFICES ASSUME NEW a \in sent', NEW b \in sent', a.gen = b.gen, a.ph = b.ph
             PROVE  Fold[a.value] = Fold[b.value]
  BY DEF NeverReissued
<1>4. CASE a.gen = g
  BY <1>2, <1>3, <1>4 DEF Agree
<1>5. CASE a.gen # g
  <2>1. a \in sent /\ b \in sent
    BY <1>1, <1>5
  <2> QED BY <2>1 DEF NeverReissued
<1> QED BY <1>4, <1>5

\* As long as saves succeed, a placeholder that went upstream for one value is
\* never sent for another one in the same life of the map.
THEOREM NumbersAreNeverReissued ==
  ASSUME ~SaveMayFail
  PROVE  Spec => []NeverReissued
<1>1. Init => NeverReissued
  BY DEF Init, NeverReissued
<1>2. IInv /\ NeverReissued /\ [Next]_vars => NeverReissued'
  <2> SUFFICES ASSUME IInv, NeverReissued, [Next]_vars PROVE NeverReissued'
    OBVIOUS
  <2>1. CASE \E forwarded \in BOOLEAN : EndRequest(forwarded)
    BY <2>1, EndRequestReissuesNothing
  <2>2. CASE UNCHANGED sent
    BY <2>2 DEF NeverReissued
  <2>3. CASE LoadEmpty \/ LoadFile \/ Abort
    BY <2>2, <2>3 DEF LoadEmpty, LoadFile, Abort
  <2>4. CASE \E v \in Values, l \in Labels : PlaceholderFor(v, l)
    BY <2>2, <2>4 DEF PlaceholderFor
  <2> QED BY <2>1, <2>2, <2>3, <2>4 DEF Next, vars
<1> QED BY <1>1, <1>2, Invariance, PTL DEF Spec
-----------------------------------------------------------------------------
(* What a request is given restores its value, or is accounted for *)

\* Eviction orphans an entry only when another spelling of its value has the
\* same placeholder, keeps the index on live entries, and notes what it drops.
LEMMA EvictKeepsRooted ==
  ASSUME NEW m, InstanceOK(m), Rooted(m), IndexRooted(m), Agree(Claims(m))
  PROVE  LET r == EvictIfFull(m)
         IN /\ Rooted(r) /\ IndexRooted(r)
            /\ Items(r.v2p) \subseteq Items(m.v2p)
            /\ DOMAIN m.p2v \cup m.evicted \subseteq DOMAIN r.p2v \cup r.evicted
<1> SUFFICES ASSUME NEW r, r = EvictIfFull(m)
             PROVE  /\ Rooted(r) /\ IndexRooted(r)
                    /\ Items(r.v2p) \subseteq Items(m.v2p)
                    /\ DOMAIN m.p2v \cup m.evicted \subseteq DOMAIN r.p2v \cup r.evicted
  OBVIOUS
<1> DEFINE old == Head(m.v2p)
           f   == Fold[old.key]
<1>0. /\ m.v2p \in Dict(Values, Placeholders) /\ OnePerKey(m.v2p)
      /\ Len(m.v2p) \in Nat /\ MaxEntities \in Nat \ {0}
  BY SizeAssumption DEF InstanceOK, MapOK, Dict, Rooted
<1>1. CASE Len(m.v2p) < MaxEntities
  BY <1>1 DEF EvictIfFull
<1>2. CASE ~(Len(m.v2p) < MaxEntities)
  <2>1. /\ old \in Items(m.v2p) /\ old.key \in Values
        /\ OnePerKey(Tail(m.v2p))
        /\ Items(Tail(m.v2p)) = {e \in Items(m.v2p) : e.key # old.key}
    <3>1. Len(m.v2p) > 0
      BY <1>0, <1>2
    <3> HIDE DEF old
    <3> QED BY <1>0, <3>1, TailShrinks, TailRemoves DEF old
  <2>2. /\ r.v2p = Tail(m.v2p)
        /\ r.p2v = Unbind(m.p2v, old.val)
        /\ r.cf = IF f \in DOMAIN m.cf /\ m.cf[f] = old.val THEN Unbind(m.cf, f) ELSE m.cf
        /\ r.evicted = m.evicted \cup {old.val}
    BY <1>2 DEF EvictIfFull, InstanceOK, EmptyMap
  <2> HIDE DEF old
  <2>3. DOMAIN r.p2v = DOMAIN m.p2v \ {old.val}
    BY <2>2 DEF Unbind
  <2>4. ASSUME NEW e \in Orphans(r)
        PROVE  HasVariant(e.key)
    <3>1. e \in Items(m.v2p) /\ e.key # old.key /\ e.val \notin DOMAIN r.p2v
      BY <2>1, <2>2, <2>4 DEF Orphans
    <3>2. CASE e.val = old.val
      <4>1. /\ [ph |-> e.val, fold |-> Fold[e.key]] \in Claims(m)
            /\ [ph |-> old.val, fold |-> Fold[old.key]] \in Claims(m)
        BY <2>1, <3>1, ClaimsHave
      <4>2. Fold[old.key] = Fold[e.key]
        BY <3>2, <4>1 DEF Agree
      <4> QED BY <2>1, <3>1, <4>2 DEF HasVariant
    <3>3. CASE e.val # old.val
      BY <2>3, <3>1, <3>3 DEF Orphans, Rooted
    <3> QED BY <3>2, <3>3
  <2>5. IndexRooted(r)
    <3> SUFFICES ASSUME NEW x \in DOMAIN r.cf
                 PROVE  \E e \in Items(r.v2p) : Fold[e.key] = x /\ e.val = r.cf[x]
      BY DEF IndexRooted
    <3>1. x \in DOMAIN m.cf /\ r.cf[x] = m.cf[x] /\ (x = f => m.cf[f] # old.val)
      BY <2>2 DEF Unbind
    <3>2. PICK e \in Items(m.v2p) : Fold[e.key] = x /\ e.val = m.cf[x]
      BY <3>1 DEF IndexRooted
    <3>3. e # old
      BY <3>1, <3>2
    <3>4. e.key # old.key
      BY <1>0, <2>1, <3>3, EntryOfKey
    <3> QED BY <2>1, <2>2, <3>1, <3>2, <3>4
  <2> QED BY <2>1, <2>2, <2>3, <2>4, <2>5 DEF Rooted
<1> QED BY <1>1, <1>2

\* Storing a new value makes its placeholder one that restores.
LEMMA StoreKeepsRooted ==
  ASSUME NEW m, InstanceOK(m), Rooted(m), IndexRooted(m),
         NEW v \in Values, NEW l, NEW ph \in Placeholders,
         \A e \in Items(m.v2p) : e.key # v
  PROVE  LET r == Store(m, v, l, ph)
         IN /\ Rooted(r) /\ IndexRooted(r)
            /\ Items(r.v2p) = Items(m.v2p) \cup {[key |-> v, val |-> ph]}
            /\ DOMAIN r.p2v = DOMAIN m.p2v \cup {ph}
            /\ r.evicted = m.evicted
<1> SUFFICES ASSUME NEW r, r = Store(m, v, l, ph)
             PROVE  /\ Rooted(r) /\ IndexRooted(r)
                    /\ Items(r.v2p) = Items(m.v2p) \cup {[key |-> v, val |-> ph]}
                    /\ DOMAIN r.p2v = DOMAIN m.p2v \cup {ph}
                    /\ r.evicted = m.evicted
  OBVIOUS
<1>1. /\ r.v2p = Insert(m.v2p, v, ph)
      /\ r.p2v = Bind(m.p2v, ph, v)
      /\ r.cf = IF l \in CaseSensitive THEN m.cf ELSE Bind(m.cf, Fold[v], ph)
      /\ r.evicted = m.evicted
  BY DEF Store, InstanceOK, EmptyMap
<1>2. /\ OnePerKey(r.v2p)
      /\ Items(r.v2p) = Items(m.v2p) \cup {[key |-> v, val |-> ph]}
  BY <1>1, InsertAdds, InsertOnePerKey DEF InstanceOK, MapOK, Rooted
<1>3. DOMAIN r.p2v = DOMAIN m.p2v \cup {ph}
  BY <1>1 DEF Bind
<1>4. Orphans(r) \subseteq Orphans(m)
  BY <1>2, <1>3 DEF Orphans
<1>5. IndexRooted(r)
  <2> SUFFICES ASSUME NEW f \in DOMAIN r.cf
               PROVE  \E e \in Items(r.v2p) : Fold[e.key] = f /\ e.val = r.cf[f]
    BY DEF IndexRooted
  <2>1. CASE l \notin CaseSensitive /\ f = Fold[v]
    <3> DEFINE b == [key |-> v, val |-> ph]
    <3>1. r.cf[f] = ph
      BY <1>1, <2>1 DEF Bind
    <3>2. b \in Items(r.v2p) /\ Fold[b.key] = f /\ b.val = r.cf[f]
      BY <1>2, <2>1, <3>1
    <3> QED BY <3>2
  <2>2. CASE ~(l \notin CaseSensitive /\ f = Fold[v])
    <3>1. f \in DOMAIN m.cf /\ r.cf[f] = m.cf[f]
      BY <1>1, <2>2 DEF Bind
    <3> QED BY <1>2, <3>1 DEF IndexRooted
  <2> QED BY <2>1, <2>2
<1> QED BY <1>1, <1>2, <1>3, <1>4, <1>5 DEF Rooted

\* The effect of placeholder_for: the answer, and every live entry, can be
\* restored or is accounted for, and nothing that was accounted for is lost.
Restores(v, l, ph) ==
  /\ returned' = returned \cup {[value |-> v, label |-> l, ph |-> ph]}
  /\ Rooted(mem') /\ IndexRooted(mem')
  /\ ph \in Accounted' /\ Accounted \subseteq Accounted'
  /\ \A e \in Items(mem'.v2p) : e.val \in Accounted'

\* Accounted grows with what mem has in p2v and in evicted.
LEMMA AccountedGrows ==
  ASSUME disk' = disk, mem'.created = mem.created,
         DOMAIN mem.p2v \cup mem.evicted \subseteq DOMAIN mem'.p2v \cup mem'.evicted
  PROVE  Accounted \subseteq Accounted' /\ DOMAIN mem'.p2v \subseteq Accounted'
BY DEF Accounted, Orphans

LEMMA ReturnExactRestores ==
  ASSUME TypeOK, Restorable, open, disk' = disk,
         NEW v \in Values, NEW l \in Labels, ReturnExact(v, l)
  PROVE  \E ph : Restores(v, l, ph)
<1> DEFINE ph == Lookup(mem.v2p, v)
<1>1. \E e \in Items(mem.v2p) : e.val = ph
  BY LookupFinds DEF ReturnExact
<1>2. mem' = mem /\ returned' = returned \cup {[value |-> v, label |-> l, ph |-> ph]}
  BY DEF ReturnExact, Return
<1> HIDE DEF ph
<1>3. Accounted' = Accounted
  BY <1>2 DEF Accounted
<1> QED BY <1>1, <1>2, <1>3 DEF Restores, Restorable

\* An alias is another spelling of a live value.
LEMMA ReturnCaseVariantRestores ==
  ASSUME TypeOK, Restorable, open, disk' = disk,
         NEW v \in Values, NEW l \in Labels, ReturnCaseVariant(v, l)
  PROVE  \E ph : Restores(v, l, ph)
<1> DEFINE ph == mem.cf[Fold[v]]
           b == [key |-> v, val |-> ph]
<1>0. /\ InstanceOK(mem) /\ Rooted(mem) /\ IndexRooted(mem)
      /\ \A e \in Items(mem.v2p) : e.val \in Accounted
  BY DEF TypeOK, Restorable
<1>1. Fold[v] \in DOMAIN mem.cf /\ ~HasKey(mem.v2p, v)
  BY DEF ReturnCaseVariant, FoldHit
<1>2. mem' = BindAlias(mem, v, ph) /\ returned' = returned \cup {[value |-> v, label |-> l, ph |-> ph]}
  BY DEF ReturnCaseVariant, Return
<1>3. ph \in Placeholders
  BY <1>0, <1>1 DEF InstanceOK
<1>4. PICK e \in Items(mem.v2p) : Fold[e.key] = Fold[v] /\ e.val = ph
  BY <1>0, <1>1 DEF IndexRooted
<1> HIDE DEF ph
<1>5. CASE Len(mem.v2p) < MaxEntities
  <2>1. /\ mem'.v2p = Insert(mem.v2p, v, ph)
        /\ mem'.p2v = mem.p2v /\ mem'.cf = mem.cf /\ mem'.created = mem.created
        /\ mem'.evicted = mem.evicted
    BY <1>0, <1>2, <1>5 DEF BindAlias, InstanceOK, EmptyMap
  <2>2. \A x \in Items(mem.v2p) : x.key # v
    BY <1>1 DEF HasKey, Items
  <2>3. OnePerKey(mem'.v2p) /\ Items(mem'.v2p) = Items(mem.v2p) \cup {b}
    BY <1>0, <1>3, <2>1, <2>2, InsertAdds, InsertOnePerKey DEF InstanceOK, MapOK, Rooted
  <2>4. HasVariant(v)
    <3>1. e.key \in Values
      BY <1>0, EntryTypes DEF InstanceOK, MapOK
    <3> QED BY <1>4, <2>2, <3>1 DEF HasVariant
  <2>5. Rooted(mem')
    BY <1>0, <2>1, <2>3, <2>4 DEF Rooted, Orphans
  <2>6. IndexRooted(mem')
    BY <1>0, <2>1, <2>3 DEF IndexRooted
  <2>7. Accounted \subseteq Accounted'
    BY <2>1, AccountedGrows
  <2>8. ph \in Accounted
    BY <1>0, <1>4
  <2> QED BY <1>0, <1>2, <2>3, <2>5, <2>6, <2>7, <2>8 DEF Restores
<1>6. CASE ~(Len(mem.v2p) < MaxEntities)
  <2>1. mem' = mem
    BY <1>2, <1>6 DEF BindAlias
  <2>2. Accounted' = Accounted
    BY <2>1 DEF Accounted
  <2> QED BY <1>0, <1>2, <1>4, <2>1, <2>2 DEF Restores
<1> QED BY <1>5, <1>6

LEMMA ReactivateRestores ==
  ASSUME IInv, Restorable, open, disk' = disk,
         NEW v \in Values, NEW l \in Labels, Reactivate(v, l)
  PROVE  \E ph : Restores(v, l, ph)
<1> DEFINE k == TombKey(v, l)
           ph == Lookup(mem.tomb, k)
           room == EvictIfFull(mem)
           back == Store(room, v, l, ph)
<1>0. /\ InstanceOK(mem) /\ Rooted(mem) /\ IndexRooted(mem) /\ Agree(Claims(mem))
      /\ \A e \in Items(mem.v2p) : e.val \in Accounted
  BY FewerClaims DEF IInv, TypeOK, Fresh, KnownInMemory, Restorable
<1>1. /\ ~HasKey(mem.v2p, v) /\ HasKey(mem.tomb, k)
      /\ returned' = returned \cup {[value |-> v, label |-> l, ph |-> ph]}
      /\ mem' = [back EXCEPT !.tomb = Pop(room.tomb, k), !.evicted = room.evicted \ {ph}]
  BY DEF Reactivate, Return
<1>2. ph \in Placeholders
  BY <1>0, <1>1, LookupFinds, EntryTypes DEF InstanceOK, MapOK
<1> HIDE DEF ph, k
<1>3. /\ InstanceOK(room) /\ room.created = mem.created
      /\ Rooted(room) /\ IndexRooted(room)
      /\ Items(room.v2p) \subseteq Items(mem.v2p)
      /\ DOMAIN mem.p2v \cup mem.evicted \subseteq DOMAIN room.p2v \cup room.evicted
  BY <1>0, EvictFacts, EvictKeepsRooted
<1> HIDE DEF room
<1>4. \A e \in Items(room.v2p) : e.key # v
  BY <1>1, <1>3 DEF HasKey, Items
<1>5. /\ InstanceOK(back) /\ back.created = room.created
      /\ Rooted(back) /\ IndexRooted(back)
      /\ Items(back.v2p) = Items(room.v2p) \cup {[key |-> v, val |-> ph]}
      /\ DOMAIN back.p2v = DOMAIN room.p2v \cup {ph}
  BY <1>2, <1>3, <1>4, StoreFacts, StoreKeepsRooted
<1> HIDE DEF back
<1>6. /\ mem'.v2p = back.v2p /\ mem'.p2v = back.p2v /\ mem'.cf = back.cf
      /\ mem'.created = back.created /\ mem'.evicted = room.evicted \ {ph}
  BY <1>1, <1>5 DEF InstanceOK, EmptyMap
<1>7. Rooted(mem') /\ IndexRooted(mem')
  BY <1>5, <1>6 DEF Rooted, IndexRooted, Orphans
<1>8. Accounted \subseteq Accounted' /\ DOMAIN mem'.p2v \subseteq Accounted'
  BY <1>3, <1>5, <1>6, AccountedGrows
<1> QED BY <1>0, <1>1, <1>3, <1>5, <1>6, <1>7, <1>8 DEF Restores

LEMMA MintRestores ==
  ASSUME IInv, Restorable, open, disk' = disk,
         NEW v \in Values, NEW l \in Labels, Mint(v, l)
  PROVE  \E ph : Restores(v, l, ph)
<1> DEFINE ph == [label |-> l, num |-> NextNumber(mem, l)]
           next == [mem EXCEPT !.counters[l] = @ + 1]
           room == EvictIfFull(next)
<1>0. /\ InstanceOK(mem) /\ Rooted(mem) /\ IndexRooted(mem) /\ Agree(Claims(mem))
      /\ mem.counters \in [Labels -> Nat]
      /\ \A e \in Items(mem.v2p) : e.val \in Accounted
  BY FewerClaims DEF IInv, TypeOK, Fresh, KnownInMemory, Restorable, InstanceOK, MapOK
<1>1. /\ ~HasKey(mem.v2p, v)
      /\ returned' = returned \cup {[value |-> v, label |-> l, ph |-> ph]}
      /\ mem' = Store(room, v, l, ph)
  BY DEF Mint, Return
<1>2. ph \in Placeholders
  BY <1>0 DEF Placeholders, NextNumber
<1> HIDE DEF ph
<1>3. /\ DOMAIN next = DOMAIN mem
      /\ next.v2p = mem.v2p /\ next.p2v = mem.p2v /\ next.cf = mem.cf
      /\ next.tomb = mem.tomb /\ next.evicted = mem.evicted
      /\ next.created = mem.created
      /\ next.counters = [mem.counters EXCEPT ![l] = @ + 1]
  BY <1>0 DEF InstanceOK, EmptyMap
<1> HIDE DEF next
<1>4. /\ InstanceOK(next) /\ Rooted(next) /\ IndexRooted(next) /\ Agree(Claims(next))
  <2>1. InstanceOK(next)
    BY <1>0, <1>3 DEF InstanceOK, MapOK
  <2>2. Claims(next) = Claims(mem)
    BY <1>3 DEF Claims
  <2> QED BY <1>0, <1>3, <2>1, <2>2 DEF Rooted, IndexRooted, Orphans
<1>5. /\ InstanceOK(room) /\ room.created = mem.created
      /\ Rooted(room) /\ IndexRooted(room)
      /\ Items(room.v2p) \subseteq Items(mem.v2p)
      /\ DOMAIN mem.p2v \cup mem.evicted \subseteq DOMAIN room.p2v \cup room.evicted
  BY <1>3, <1>4, EvictFacts, EvictKeepsRooted
<1> HIDE DEF room
<1>6. \A e \in Items(room.v2p) : e.key # v
  BY <1>1, <1>5 DEF HasKey, Items
<1>7. /\ mem'.created = room.created
      /\ Rooted(mem') /\ IndexRooted(mem')
      /\ Items(mem'.v2p) = Items(room.v2p) \cup {[key |-> v, val |-> ph]}
      /\ DOMAIN mem'.p2v = DOMAIN room.p2v \cup {ph}
      /\ mem'.evicted = room.evicted
  BY <1>1, <1>2, <1>5, <1>6, StoreFacts, StoreKeepsRooted
<1>8. Accounted \subseteq Accounted' /\ DOMAIN mem'.p2v \subseteq Accounted'
  BY <1>5, <1>7, AccountedGrows
<1> QED BY <1>0, <1>1, <1>5, <1>7, <1>8 DEF Restores

LEMMA PlaceholderForRestores ==
  ASSUME IInv, Restorable, NEW v \in Values, NEW l \in Labels, PlaceholderFor(v, l)
  PROVE  Restorable'
<1>1. open /\ open' = open /\ disk' = disk /\ TypeOK
  BY DEF PlaceholderFor, IInv
<1>2. PICK ph : Restores(v, l, ph)
  BY <1>1, ReturnExactRestores, ReturnCaseVariantRestores, ReactivateRestores, MintRestores
     DEF PlaceholderFor
<1>3. \A r \in returned' : r.ph \in Accounted'
  BY <1>1, <1>2 DEF Restores, Restorable
<1>4. Rooted(disk')
  BY <1>1 DEF Restorable
<1> QED BY <1>1, <1>2, <1>3, <1>4 DEF Restores, Restorable

\* An entry of a loaded map that nothing restores was an orphan on disk.
LEMMA LoadFileRestores ==
  ASSUME IInv, Restorable, LoadFile
  PROVE  Restorable'
<1>1. PICK kept \in Restrictions(disk.v2p, KeptKeys(disk)) :
        mem' = [v2p |-> kept, p2v |-> disk.p2v, cf |-> CasefoldIndex(kept),
                tomb |-> disk.tomb, counters |-> Reconciled(disk),
                created |-> disk.created, evicted |-> {}]
  BY DEF LoadFile
<1>2. /\ disk' = disk /\ returned' = {} /\ Rooted(disk)
      /\ disk.v2p \in Dict(Values, Placeholders)
  BY DEF LoadFile, IInv, TypeOK, Fresh, MapOK, Restorable
<1>3. /\ kept \in Dict(Values, Placeholders) /\ OnePerKey(kept)
      /\ Items(kept) \subseteq Items(disk.v2p)
  BY <1>2, RestrictionShrinks, RestrictionKeeps DEF Rooted
<1>4. /\ mem'.v2p = kept /\ mem'.p2v = disk.p2v /\ mem'.cf = CasefoldIndex(kept)
      /\ mem'.created = disk.created
  BY <1>1
<1>5. Rooted(mem')
  BY <1>2, <1>3, <1>4 DEF Rooted, Orphans
<1>6. IndexRooted(mem')
  BY <1>3, <1>4, IndexRepeats DEF IndexRooted
<1>7. \A e \in Items(mem'.v2p) : e.val \in Accounted'
  BY <1>2, <1>3, <1>4 DEF Accounted, Orphans
<1> QED BY <1>2, <1>5, <1>6, <1>7 DEF Restorable

LEMMA EmptyMapRooted ==
  ASSUME NEW created
  PROVE  /\ Rooted(EmptyMap(created)) /\ IndexRooted(EmptyMap(created))
         /\ Items(EmptyMap(created).v2p) = {}
BY DEF EmptyMap, Rooted, IndexRooted, Orphans, OnePerKey, Items

\* What is written is what was in memory, or what was on disk before.
LEMMA EndRequestRestores ==
  ASSUME Restorable, NEW forwarded \in BOOLEAN, EndRequest(forwarded)
  PROVE  Restorable'
<1>1. Rooted(disk')
  <2>1. CASE disk' = Contents(mem)
    BY <2>1 DEF Restorable, Rooted, Orphans, Contents
  <2>2. CASE disk' = disk
    BY <2>2 DEF Restorable
  <2> QED BY <2>1, <2>2 DEF EndRequest, Save
<1>2. Rooted(mem') /\ IndexRooted(mem') /\ ~open'
  BY EmptyMapRooted DEF EndRequest, Close
<1> QED BY <1>1, <1>2 DEF Restorable

LEMMA InitRestorable == Init => Restorable
<1> SUFFICES ASSUME Init PROVE Rooted(disk) /\ Rooted(mem) /\ IndexRooted(mem) /\ ~open
  BY DEF Restorable
<1>1. Rooted(mem) /\ IndexRooted(mem) /\ ~open
  BY EmptyMapRooted DEF Init
<1>2. Rooted(disk)
  BY <1>1 DEF Init, Rooted, Orphans, Contents
<1> QED BY <1>1, <1>2

LEMMA NextRestorable ==
  ASSUME IInv, Restorable, [Next]_vars
  PROVE  Restorable'
<1>1. CASE LoadEmpty
  <2>1. /\ disk' = disk /\ returned' = {}
        /\ Rooted(mem') /\ IndexRooted(mem') /\ Items(mem'.v2p) = {}
    BY <1>1, EmptyMapRooted DEF LoadEmpty, IInv, Fresh
  <2> QED BY <2>1 DEF Restorable
<1>2. CASE LoadFile
  BY <1>2, LoadFileRestores
<1>3. CASE \E v \in Values, l \in Labels : PlaceholderFor(v, l)
  BY <1>3, PlaceholderForRestores
<1>4. CASE \E forwarded \in BOOLEAN : EndRequest(forwarded)
  BY <1>4, EndRequestRestores
<1>5. CASE Abort
  <2>1. disk' = disk /\ mem' = EmptyMap(0) /\ ~open'
    BY <1>5 DEF Abort, Close
  <2> QED BY <2>1, EmptyMapRooted DEF Restorable
<1>6. CASE UNCHANGED vars
  BY <1>6 DEF vars, Restorable, Accounted
<1> QED BY <1>1, <1>2, <1>3, <1>4, <1>5, <1>6 DEF Next

\* Through every mint, alias, eviction, reactivation and reload, and whatever
\* is lost, each placeholder a request holds restores to its value, or was
\* evicted by that request, or had outlived its way back on disk as only a
\* value with another spelling can.
THEOREM ReturnedAlwaysRestored == Spec => []ReturnedIsRestored
<1>1. IInv /\ Restorable => ReturnedIsRestored
  <2> SUFFICES ASSUME IInv, Restorable, open, NEW r \in returned
               PROVE  \/ r.ph \in DOMAIN mem.p2v /\ Fold[mem.p2v[r.ph]] = Fold[r.value]
                      \/ r.ph \in mem.evicted
                      \/ /\ mem.created = disk.created
                         /\ \E e \in Orphans(disk) : e.val = r.ph /\ HasVariant(e.key)
    BY DEF ReturnedIsRestored
  <2>1. r.ph \in Accounted
    BY DEF Restorable
  <2>2. CASE r.ph \in DOMAIN mem.p2v
    <3>1. [ph |-> r.ph, fold |-> Fold[mem.p2v[r.ph]]] \in KnownInMemory
      BY <2>2, ClaimsHave DEF KnownInMemory
    <3>2. [ph |-> r.ph, fold |-> Fold[r.value]] \in KnownInMemory
      BY DEF KnownInMemory, Told
    <3>3. Agree(KnownInMemory)
      BY DEF IInv, Fresh
    <3>4. Fold[mem.p2v[r.ph]] = Fold[r.value]
      BY <3>1, <3>2, <3>3 DEF Agree
    <3> QED BY <2>2, <3>4
  <2>3. CASE r.ph \in mem.evicted
    BY <2>3
  <2>4. CASE mem.created = disk.created /\ \E e \in Orphans(disk) : e.val = r.ph
    BY <2>4 DEF Restorable, Rooted
  <2> QED BY <2>1, <2>2, <2>3, <2>4 DEF Accounted
<1>2. IInv /\ Restorable /\ [Next]_vars => Restorable'
  BY NextRestorable
<1> QED BY InitRestorable, <1>1, <1>2, Invariance, PTL DEF Spec
-----------------------------------------------------------------------------
(* One binding for each value, where no two values differ by case only *)

\* Map and tombstone together have room for every value and one more.
TombRoom == IsFiniteSet(Values) /\ Cardinality(Values) < MaxEntities + MaxTomb

LEMMA NoFolding ==
  ASSUME NoCaseVariants, NEW v \in Values, NEW l
  PROVE  Fold[v] = v /\ TombKey(v, l) = v
BY FoldAssumption DEF NoCaseVariants, TombKey

\* A value that is bound once has one placeholder.
LEMMA OneOfKey ==
  ASSUME NEW m, BoundOnce(m), NEW a \in Bindings(m), NEW b \in Bindings(m), a.key = b.key
  PROVE  a = b
BY EntryOfKey DEF BoundOnce, Bindings

\* Evicting moves a binding to the tombstone, which forgets one only when it
\* is full.
LEMMA EvictKeepsBindings ==
  ASSUME NoCaseVariants, NEW m, InstanceOK(m), BoundOnce(m), IndexLive(m)
  PROVE  LET r == EvictIfFull(m)
         IN /\ BoundOnce(r) /\ IndexLive(r)
            /\ Items(r.v2p) \subseteq Items(m.v2p)
            /\ Bindings(r) \subseteq Bindings(m)
            /\ TombRoom => Bindings(r) = Bindings(m)
<1> SUFFICES ASSUME NEW r, r = EvictIfFull(m)
             PROVE  /\ BoundOnce(r) /\ IndexLive(r)
                    /\ Items(r.v2p) \subseteq Items(m.v2p)
                    /\ Bindings(r) \subseteq Bindings(m)
                    /\ TombRoom => Bindings(r) = Bindings(m)
  OBVIOUS
<1> DEFINE old == Head(m.v2p)
           t   == PopAndSet(m.tomb, old.key, old.val)
<1>0. /\ m.v2p \in Dict(Values, Placeholders) /\ m.tomb \in Dict(Values, Placeholders)
      /\ Len(m.v2p) \in Nat /\ MaxEntities \in Nat \ {0} /\ MaxTomb \in Nat
      /\ OnePerKey(m.v2p) /\ OnePerKey(m.tomb)
  BY SizeAssumption DEF InstanceOK, MapOK, Dict, BoundOnce
<1>1. CASE Len(m.v2p) < MaxEntities
  BY <1>1 DEF EvictIfFull
<1>2. CASE ~(Len(m.v2p) < MaxEntities)
  <2>1. /\ old \in Items(m.v2p) /\ old.key \in Values /\ old.val \in Placeholders
        /\ Tail(m.v2p) \in Dict(Values, Placeholders)
        /\ OnePerKey(Tail(m.v2p))
        /\ Items(Tail(m.v2p)) = {e \in Items(m.v2p) : e.key # old.key}
    <3>1. Len(m.v2p) > 0
      BY <1>0, <1>2
    <3> HIDE DEF old
    <3> QED BY <1>0, <3>1, TailShrinks, TailRemoves DEF old
  <2>2. old = [key |-> old.key, val |-> old.val]
    <3>1. old \in Entry(Values, Placeholders)
      BY <1>0, <2>1 DEF Items, Dict
    <3> HIDE DEF old
    <3> QED BY <3>1 DEF Entry
  <2>3. /\ r.v2p = Tail(m.v2p)
        /\ r.p2v = Unbind(m.p2v, old.val)
        /\ r.cf = IF old.key \in DOMAIN m.cf /\ m.cf[old.key] = old.val
                  THEN Unbind(m.cf, old.key) ELSE m.cf
        /\ r.tomb = Trimmed(t)
    <3>1. Fold[old.key] = old.key /\ TombKey(old.key, old.val.label) = old.key
      BY <2>1, NoFolding
    <3> QED BY <1>2, <3>1 DEF EvictIfFull, InstanceOK, EmptyMap
  <2> HIDE DEF old
  <2>4. /\ t \in Dict(Values, Placeholders) /\ OnePerKey(t)
        /\ Items(t) = Items(m.tomb) \cup {old}
    <3>1. /\ Pop(m.tomb, old.key) \in Dict(Values, Placeholders)
          /\ OnePerKey(Pop(m.tomb, old.key))
          /\ Items(Pop(m.tomb, old.key)) = {e \in Items(m.tomb) : e.key # old.key}
      BY <1>0, PopShrinks, PopRemoves
    <3>2. Items(Pop(m.tomb, old.key)) = Items(m.tomb)
      BY <2>1, <3>1 DEF BoundOnce
    <3> QED BY <2>1, <2>2, <3>1, <3>2, InsertAdds, InsertOnePerKey DEF PopAndSet
  <2> HIDE DEF t
  <2>5. OnePerKey(r.tomb) /\ Items(r.tomb) \subseteq Items(t)
    <3>1. CASE Len(t) > MaxTomb
      <4>1. Len(t) > 0 /\ r.tomb = Tail(t)
        BY <1>0, <2>3, <2>4, <3>1 DEF Trimmed, Dict
      <4> QED BY <2>4, <4>1, TailRemoves
    <3>2. CASE ~(Len(t) > MaxTomb)
      BY <2>3, <2>4, <3>2 DEF Trimmed
    <3> QED BY <3>1, <3>2
  <2>6. BoundOnce(r)
    <3>1. \A e \in Items(r.v2p) : e.val \in DOMAIN r.p2v /\ r.p2v[e.val] = e.key
      <4> SUFFICES ASSUME NEW e \in Items(m.v2p), e.key # old.key
                   PROVE  e.val \in DOMAIN r.p2v /\ r.p2v[e.val] = e.key
        BY <2>1, <2>3
      <4>1. e.val # old.val
        BY <2>1 DEF BoundOnce
      <4> QED BY <2>3, <4>1 DEF BoundOnce, Unbind
    <3>2. \A e \in Items(r.v2p), u \in Items(r.tomb) : e.key # u.key
      BY <2>1, <2>3, <2>4, <2>5 DEF BoundOnce
    <3> QED BY <2>1, <2>3, <2>5, <3>1, <3>2 DEF BoundOnce
  <2>7. IndexLive(r)
    <3> SUFFICES ASSUME NEW f \in DOMAIN r.cf
                 PROVE  \E e \in Items(r.v2p) : e.key = f /\ e.val = r.cf[f]
      BY DEF IndexLive
    <3>1. f \in DOMAIN m.cf /\ r.cf[f] = m.cf[f]
      BY <2>3 DEF Unbind
    <3>2. PICK e \in Items(m.v2p) : e.key = f /\ e.val = m.cf[f]
      BY <3>1 DEF IndexLive
    <3>3. f # old.key
      <4> SUFFICES ASSUME f = old.key PROVE FALSE
        OBVIOUS
      <4>1. e = old
        BY <1>0, <2>1, <3>2, EntryOfKey
      <4>2. m.cf[old.key] = old.val
        BY <3>2, <4>1
      <4> QED BY <2>3, <3>1, <4>2 DEF Unbind
    <3> QED BY <2>1, <2>3, <3>1, <3>2, <3>3
  <2>8. Items(r.v2p) \subseteq Items(m.v2p) /\ Bindings(r) \subseteq Bindings(m)
    BY <2>1, <2>3, <2>4, <2>5 DEF Bindings
  <2>9. ASSUME TombRoom
        PROVE  Bindings(m) \subseteq Bindings(r)
    <3>1. \A e \in Items(t), u \in Items(Tail(m.v2p)) : e.key # u.key
      BY <2>1, <2>4 DEF BoundOnce
    <3>2. Len(t) + Len(Tail(m.v2p)) <= Cardinality(Values)
      BY <2>1, <2>4, <2>9, <3>1, LengthsBound DEF TombRoom
    <3>3. Len(Tail(m.v2p)) = Len(m.v2p) - 1
      BY <1>0, <1>2, TailShrinks
    <3>4. /\ Cardinality(Values) < MaxEntities + MaxTomb
          /\ Cardinality(Values) \in Nat /\ Len(t) \in Nat
      BY <2>4, <2>9, FS_CardinalityType DEF TombRoom, Dict
    <3>5. r.tomb = t
      BY <1>0, <1>2, <2>3, <3>2, <3>3, <3>4 DEF Trimmed
    <3>6. \A e \in Items(m.v2p) : e.key = old.key => e = old
      BY <1>0, <2>1, EntryOfKey
    <3> QED BY <2>1, <2>3, <2>4, <3>5, <3>6 DEF Bindings
  <2> QED BY <2>6, <2>7, <2>8, <2>9
<1> QED BY <1>1, <1>2

\* Storing a placeholder nothing live has binds one more value.
LEMMA StoreBinds ==
  ASSUME NoCaseVariants, NEW m, InstanceOK(m), BoundOnce(m), IndexLive(m),
         NEW v \in Values, NEW l, NEW ph \in Placeholders,
         \A e \in Items(m.v2p) : e.key # v /\ e.val # ph
  PROVE  LET r == Store(m, v, l, ph)
         IN /\ OnePerKey(r.v2p)
            /\ \A e \in Items(r.v2p) : e.val \in DOMAIN r.p2v /\ r.p2v[e.val] = e.key
            /\ IndexLive(r)
            /\ Items(r.v2p) = Items(m.v2p) \cup {[key |-> v, val |-> ph]}
            /\ r.tomb = m.tomb
<1> SUFFICES ASSUME NEW r, r = Store(m, v, l, ph)
             PROVE  /\ OnePerKey(r.v2p)
                    /\ \A e \in Items(r.v2p) : e.val \in DOMAIN r.p2v /\ r.p2v[e.val] = e.key
                    /\ IndexLive(r)
                    /\ Items(r.v2p) = Items(m.v2p) \cup {[key |-> v, val |-> ph]}
                    /\ r.tomb = m.tomb
  OBVIOUS
<1>1. /\ r.v2p = Insert(m.v2p, v, ph)
      /\ r.p2v = Bind(m.p2v, ph, v)
      /\ r.cf = IF l \in CaseSensitive THEN m.cf ELSE Bind(m.cf, v, ph)
      /\ r.tomb = m.tomb
  BY NoFolding DEF Store, InstanceOK, EmptyMap
<1>2. /\ OnePerKey(r.v2p)
      /\ Items(r.v2p) = Items(m.v2p) \cup {[key |-> v, val |-> ph]}
  BY <1>1, InsertAdds, InsertOnePerKey DEF InstanceOK, MapOK, BoundOnce
<1>3. \A e \in Items(r.v2p) : e.val \in DOMAIN r.p2v /\ r.p2v[e.val] = e.key
  BY <1>1, <1>2 DEF Bind, BoundOnce
<1>4. IndexLive(r)
  <2> SUFFICES ASSUME NEW f \in DOMAIN r.cf
               PROVE  \E e \in Items(r.v2p) : e.key = f /\ e.val = r.cf[f]
    BY DEF IndexLive
  <2>1. CASE l \notin CaseSensitive /\ f = v
    <3>1. r.cf[f] = ph
      BY <1>1, <2>1 DEF Bind
    <3> DEFINE b == [key |-> v, val |-> ph]
    <3>2. b \in Items(r.v2p) /\ b.key = f /\ b.val = r.cf[f]
      BY <1>2, <2>1, <3>1
    <3> QED BY <3>2
  <2>2. CASE ~(l \notin CaseSensitive /\ f = v)
    <3>1. f \in DOMAIN m.cf /\ r.cf[f] = m.cf[f]
      BY <1>1, <2>2 DEF Bind
    <3> QED BY <1>2, <3>1 DEF IndexLive
  <2> QED BY <2>1, <2>2
<1> QED BY <1>1, <1>2, <1>3, <1>4

\* The effect of placeholder_for on the bindings: the answer is live, and with
\* room in the tombstone nothing that was bound is forgotten.
Binds(v, l, ph) ==
  /\ returned' = returned \cup {[value |-> v, label |-> l, ph |-> ph]}
  /\ BoundOnce(mem') /\ IndexLive(mem')
  /\ [key |-> v, val |-> ph] \in Items(mem'.v2p)
  /\ TombRoom => Bindings(mem) \subseteq Bindings(mem')

LEMMA ReturnExactBinds ==
  ASSUME Bound, NEW v \in Values, NEW l \in Labels, ReturnExact(v, l), TypeOK
  PROVE  \E ph : Binds(v, l, ph)
<1> DEFINE ph == Lookup(mem.v2p, v)
<1>1. PICK e \in Items(mem.v2p) : e.key = v /\ e.val = ph
  BY LookupFinds DEF ReturnExact
<1>2. e = [key |-> v, val |-> ph]
  <2>1. e \in Entry(Values, Placeholders)
    BY <1>1 DEF TypeOK, InstanceOK, MapOK, Dict, Items
  <2> QED BY <1>1, <2>1 DEF Entry
<1>3. mem' = mem /\ returned' = returned \cup {[value |-> v, label |-> l, ph |-> ph]}
  BY DEF ReturnExact, Return
<1> HIDE DEF ph
<1> QED BY <1>1, <1>2, <1>3 DEF Binds, Bound

\* No case variant is known, or the value itself would be.
LEMMA NoCaseVariantKnown ==
  ASSUME NoCaseVariants, Bound, NEW v \in Values, NEW l \in Labels, ReturnCaseVariant(v, l)
  PROVE  FALSE
<1>1. v \in DOMAIN mem.cf /\ ~HasKey(mem.v2p, v)
  BY NoFolding DEF ReturnCaseVariant, FoldHit
<1>2. \E e \in Items(mem.v2p) : e.key = v
  BY <1>1 DEF Bound, IndexLive
<1> QED BY <1>1, <1>2 DEF HasKey, Items

\* A reactivated value moves from the tombstone to the live entries.
LEMMA ReactivateBinds ==
  ASSUME NoCaseVariants, IInv, open, Bound,
         NEW v \in Values, NEW l \in Labels, Reactivate(v, l)
  PROVE  \E ph : Binds(v, l, ph)
<1> DEFINE ph == Lookup(mem.tomb, v)
           b == [key |-> v, val |-> ph]
           room == EvictIfFull(mem)
           back == Store(room, v, l, ph)
<1>0. /\ InstanceOK(mem) /\ BoundOnce(mem) /\ IndexLive(mem) /\ Agree(Claims(mem))
      /\ TombKey(v, l) = v
  BY NoFolding, FewerClaims DEF IInv, TypeOK, Fresh, Bound, KnownInMemory
<1>1. /\ ~HasKey(mem.v2p, v) /\ HasKey(mem.tomb, v)
      /\ returned' = returned \cup {[value |-> v, label |-> l, ph |-> ph]}
      /\ mem' = [back EXCEPT !.tomb = Pop(room.tomb, v), !.evicted = room.evicted \ {ph}]
  BY <1>0 DEF Reactivate, Return
<1>2. b \in Items(mem.tomb) /\ ph \in Placeholders
  <2>1. PICK e \in Items(mem.tomb) : e.key = v /\ e.val = ph
    BY <1>1, LookupFinds
  <2>2. e \in Entry(Values, Placeholders)
    BY <1>0, <2>1 DEF InstanceOK, MapOK, Dict, Items
  <2> HIDE DEF ph
  <2> QED BY <2>1, <2>2 DEF Entry
<1> HIDE DEF ph
<1>3. \A e \in Items(mem.v2p) : e.key # v /\ e.val # ph
  <2> TAKE e \in Items(mem.v2p)
  <2>1. e.key # v /\ e.key \in Values
    BY <1>0, <1>1, EntryTypes DEF HasKey, Items, InstanceOK, MapOK
  <2>2. CASE e.val = ph
    <3>1. [ph |-> ph, fold |-> Fold[e.key]] \in Claims(mem)
      BY <2>2, ClaimsHave
    <3>2. [ph |-> ph, fold |-> Fold[v]] \in Claims(mem)
      BY <1>2, ClaimsHave
    <3>3. Fold[e.key] = Fold[v]
      BY <1>0, <3>1, <3>2 DEF Agree
    <3> QED BY <2>1, <3>3 DEF NoCaseVariants
  <2> QED BY <2>1, <2>2
<1>4. /\ InstanceOK(room) /\ BoundOnce(room) /\ IndexLive(room)
      /\ Items(room.v2p) \subseteq Items(mem.v2p)
      /\ Bindings(room) \subseteq Bindings(mem)
      /\ TombRoom => Bindings(room) = Bindings(mem)
  BY <1>0, EvictFacts, EvictKeepsBindings
<1> HIDE DEF room
<1>5. /\ InstanceOK(back) /\ OnePerKey(back.v2p) /\ IndexLive(back)
      /\ \A e \in Items(back.v2p) : e.val \in DOMAIN back.p2v /\ back.p2v[e.val] = e.key
      /\ Items(back.v2p) = Items(room.v2p) \cup {b}
  BY <1>2, <1>3, <1>4, StoreFacts, StoreBinds
<1> HIDE DEF back
<1>6. /\ mem'.v2p = back.v2p /\ mem'.p2v = back.p2v /\ mem'.cf = back.cf
      /\ mem'.tomb = Pop(room.tomb, v)
  BY <1>1, <1>5 DEF InstanceOK, EmptyMap
<1>7. /\ OnePerKey(mem'.tomb)
      /\ Items(mem'.tomb) = {e \in Items(room.tomb) : e.key # v}
  BY <1>4, <1>6, PopRemoves DEF BoundOnce, InstanceOK, MapOK
<1>8. BoundOnce(mem')
  BY <1>4, <1>5, <1>6, <1>7 DEF BoundOnce
<1>9. IndexLive(mem')
  BY <1>5, <1>6 DEF IndexLive
<1>10. TombRoom => Bindings(mem) \subseteq Bindings(mem')
  <2> SUFFICES ASSUME TombRoom, NEW e \in Bindings(mem) PROVE e \in Bindings(mem')
    OBVIOUS
  <2>1. CASE e.key = v
    <3>1. e = b
      BY <1>0, <1>2, <2>1, OneOfKey DEF Bindings
    <3> QED BY <1>5, <1>6, <3>1 DEF Bindings
  <2>2. CASE e.key # v
    BY <1>4, <1>5, <1>6, <1>7, <2>2 DEF Bindings
  <2> QED BY <2>1, <2>2
<1> QED BY <1>1, <1>5, <1>6, <1>8, <1>9, <1>10 DEF Binds

\* A minted placeholder is bound by nothing before.
LEMMA MintBinds ==
  ASSUME NoCaseVariants, IInv, open, Bound,
         NEW v \in Values, NEW l \in Labels, Mint(v, l)
  PROVE  \E ph : Binds(v, l, ph)
<1> DEFINE ph == [label |-> l, num |-> NextNumber(mem, l)]
           b == [key |-> v, val |-> ph]
           next == [mem EXCEPT !.counters[l] = @ + 1]
           room == EvictIfFull(next)
<1>0. /\ InstanceOK(mem) /\ BoundOnce(mem) /\ IndexLive(mem)
      /\ Numbered(Claims(mem), mem.counters) /\ mem.counters \in [Labels -> Nat]
      /\ TombKey(v, l) = v
  BY NoFolding, FewerClaims
     DEF IInv, TypeOK, Fresh, Bound, KnownInMemory, InstanceOK, MapOK
<1>1. /\ ~HasKey(mem.v2p, v) /\ ~HasKey(mem.tomb, v)
      /\ returned' = returned \cup {[value |-> v, label |-> l, ph |-> ph]}
      /\ mem' = Store(room, v, l, ph)
  BY <1>0 DEF Mint, Return
<1>2. ph \in Placeholders /\ ph.label = l /\ ph.num = mem.counters[l] + 1
  BY <1>0 DEF Placeholders, NextNumber
<1> HIDE DEF ph
<1>3. \A e \in Bindings(mem) : e.key # v /\ e.val # ph
  <2> TAKE e \in Bindings(mem)
  <2>1. e.key # v
    BY <1>1 DEF HasKey, Items, Bindings
  <2>2. [ph |-> e.val, fold |-> Fold[e.key]] \in Claims(mem)
    BY ClaimsHave DEF Bindings
  <2>3. e.val.num <= mem.counters[e.val.label]
    BY <1>0, <2>2 DEF Numbered
  <2>4. mem.counters[l] \in Nat
    BY <1>0
  <2> QED BY <1>2, <2>1, <2>3, <2>4
<1>4. /\ DOMAIN next = DOMAIN mem
      /\ next.v2p = mem.v2p /\ next.p2v = mem.p2v /\ next.cf = mem.cf
      /\ next.tomb = mem.tomb /\ next.evicted = mem.evicted
      /\ next.created = mem.created
      /\ next.counters = [mem.counters EXCEPT ![l] = @ + 1]
  BY <1>0 DEF InstanceOK, EmptyMap
<1> HIDE DEF next
<1>5. InstanceOK(next) /\ BoundOnce(next) /\ IndexLive(next) /\ Bindings(next) = Bindings(mem)
  BY <1>0, <1>4 DEF InstanceOK, MapOK, BoundOnce, IndexLive, Bindings
<1>6. /\ InstanceOK(room) /\ BoundOnce(room) /\ IndexLive(room)
      /\ Items(room.v2p) \subseteq Items(mem.v2p)
      /\ Bindings(room) \subseteq Bindings(mem)
      /\ TombRoom => Bindings(room) = Bindings(mem)
  BY <1>4, <1>5, EvictFacts, EvictKeepsBindings
<1> HIDE DEF room
<1>7. /\ OnePerKey(mem'.v2p) /\ IndexLive(mem')
      /\ \A e \in Items(mem'.v2p) : e.val \in DOMAIN mem'.p2v /\ mem'.p2v[e.val] = e.key
      /\ Items(mem'.v2p) = Items(room.v2p) \cup {b}
      /\ mem'.tomb = room.tomb
  <2>1. \A e \in Items(room.v2p) : e.key # v /\ e.val # ph
    BY <1>3, <1>6 DEF Bindings
  <2> QED BY <1>1, <1>2, <1>6, <2>1, StoreBinds
<1>8. BoundOnce(mem')
  BY <1>3, <1>6, <1>7 DEF BoundOnce, Bindings
<1>9. TombRoom => Bindings(mem) \subseteq Bindings(mem')
  BY <1>6, <1>7 DEF Bindings
<1> QED BY <1>1, <1>7, <1>8, <1>9 DEF Binds

LEMMA PlaceholderForBinds ==
  ASSUME NoCaseVariants, IInv, Bound,
         NEW v \in Values, NEW l \in Labels, PlaceholderFor(v, l)
  PROVE  \E ph : Binds(v, l, ph)
<1>1. open /\ TypeOK
  BY DEF PlaceholderFor, IInv
<1> QED
  BY <1>1, ReturnExactBinds, NoCaseVariantKnown, ReactivateBinds, MintBinds
     DEF PlaceholderFor


\* Loading leaves out nothing but aliases, and there are none.
LEMMA LoadFileBinds ==
  ASSUME NoCaseVariants, IInv, Bound, LoadFile
  PROVE  BoundOnce(mem') /\ IndexLive(mem') /\ Bindings(mem') = Bindings(disk)
<1>1. PICK kept \in Restrictions(disk.v2p, KeptKeys(disk)) :
        mem' = [v2p |-> kept, p2v |-> disk.p2v, cf |-> CasefoldIndex(kept),
                tomb |-> disk.tomb, counters |-> Reconciled(disk),
                created |-> disk.created, evicted |-> {}]
  BY DEF LoadFile
<1>2. disk.v2p \in Dict(Values, Placeholders) /\ BoundOnce(disk)
  BY DEF IInv, TypeOK, MapOK, Bound
<1>3. \A e \in Items(disk.v2p) : e.key \in KeptKeys(disk)
  BY <1>2 DEF KeptKeys, BoundOnce
<1>4. /\ kept \in Dict(Values, Placeholders) /\ OnePerKey(kept)
      /\ Items(kept) = Items(disk.v2p)
  <2>1. kept \in Dict(Values, Placeholders)
    BY <1>2, RestrictionShrinks
  <2>2. /\ OnePerKey(kept)
        /\ Items(kept) = {x \in Items(disk.v2p) : x.key \in KeptKeys(disk)}
    BY <1>2, RestrictionKeeps DEF BoundOnce
  <2> QED BY <1>3, <2>1, <2>2
<1>5. /\ mem'.v2p = kept /\ mem'.p2v = disk.p2v /\ mem'.tomb = disk.tomb
      /\ mem'.cf = CasefoldIndex(kept)
  BY <1>1
<1>6. BoundOnce(mem') /\ Bindings(mem') = Bindings(disk)
  BY <1>2, <1>4, <1>5 DEF BoundOnce, Bindings
<1>7. IndexLive(mem')
  <2> SUFFICES ASSUME NEW f \in DOMAIN CasefoldIndex(kept)
               PROVE  \E e \in Items(kept) : e.key = f /\ e.val = CasefoldIndex(kept)[f]
    BY <1>5 DEF IndexLive
  <2>1. PICK e \in Items(kept) : Fold[e.key] = f /\ e.val = CasefoldIndex(kept)[f]
    BY <1>4, IndexRepeats
  <2>2. e.key \in Values
    BY <1>4, EntryTypes
  <2>3. Fold[e.key] = e.key
    BY <2>2, NoFolding
  <2> QED BY <2>1, <2>3
<1> QED BY <1>6, <1>7

\* A map that holds nothing has nothing to lose.
LEMMA EmptyMapBinds ==
  ASSUME NEW created
  PROVE  BoundOnce(EmptyMap(created)) /\ IndexLive(EmptyMap(created))
BY DEF EmptyMap, BoundOnce, IndexLive, OnePerKey, Items

\* What is written is what was in memory, or what was on disk before.
LEMMA EndRequestBinds ==
  ASSUME Bound, NEW forwarded \in BOOLEAN, EndRequest(forwarded)
  PROVE  Bound'
<1>1. BoundOnce(disk')
  <2>1. CASE disk' = Contents(mem)
    BY <2>1 DEF Bound, BoundOnce, Contents
  <2>2. CASE disk' = disk
    BY <2>2 DEF Bound
  <2> QED BY <2>1, <2>2 DEF EndRequest, Save
<1>2. BoundOnce(mem') /\ IndexLive(mem')
  BY EmptyMapBinds DEF EndRequest, Close
<1> QED BY <1>1, <1>2 DEF Bound

LEMMA InitBound == Init => Bound
<1> SUFFICES ASSUME Init PROVE BoundOnce(disk) /\ BoundOnce(mem) /\ IndexLive(mem)
  BY DEF Bound
<1>1. BoundOnce(mem) /\ IndexLive(mem)
  BY EmptyMapBinds DEF Init
<1>2. BoundOnce(disk)
  BY <1>1 DEF Init, BoundOnce, Contents
<1> QED BY <1>1, <1>2

LEMMA NextBound ==
  ASSUME NoCaseVariants, IInv, Bound, [Next]_vars
  PROVE  Bound'
<1>1. CASE LoadEmpty
  <2>1. BoundOnce(mem') /\ IndexLive(mem')
    BY <1>1, EmptyMapBinds DEF LoadEmpty
  <2>2. disk' = disk
    BY <1>1 DEF LoadEmpty
  <2> QED BY <2>1, <2>2 DEF Bound
<1>2. CASE LoadFile
  <2>1. disk' = disk
    BY <1>2 DEF LoadFile
  <2> QED BY <1>2, <2>1, LoadFileBinds DEF Bound
<1>3. ASSUME NEW v \in Values, NEW l \in Labels, PlaceholderFor(v, l)
      PROVE  Bound'
  <2>1. disk' = disk
    BY <1>3 DEF PlaceholderFor
  <2> QED BY <1>3, <2>1, PlaceholderForBinds DEF Bound, Binds
<1>4. CASE \E forwarded \in BOOLEAN : EndRequest(forwarded)
  BY <1>4, EndRequestBinds
<1>5. CASE Abort
  <2>1. disk' = disk /\ mem' = EmptyMap(0)
    BY <1>5 DEF Abort, Close
  <2> QED BY <2>1, EmptyMapBinds DEF Bound
<1>6. CASE UNCHANGED vars
  BY <1>6 DEF vars, Bound
<1> QED BY <1>1, <1>2, <1>3, <1>4, <1>5, <1>6 DEF Next

LEMMA BoundInvariance ==
  ASSUME NoCaseVariants
  PROVE  Spec => []Bound
<1>1. IInv /\ Bound /\ [Next]_vars => Bound'
  BY NextBound
<1> QED BY InitBound, <1>1, Invariance, PTL DEF Spec

\* One more call forgets nothing, and binds what it returns.
LEMMA PlaceholderForForgetsNothing ==
  ASSUME NoCaseVariants, TombRoom, IInv, Bound, NothingForgotten,
         NEW v \in Values, NEW l \in Labels, PlaceholderFor(v, l)
  PROVE  NothingForgotten'
<1>1. PICK ph : Binds(v, l, ph)
  BY PlaceholderForBinds
<1>2. open /\ disk' = disk /\ sent' = sent
  BY DEF PlaceholderFor
<1>3. mem'.created = mem.created
  <2>1. TypeOK
    BY DEF IInv
  <2>2. PICK q \in Placeholders : Answers(v, l, q)
    BY <2>1, PlaceholderForAnswers
  <2> QED BY <2>2 DEF Answers
<1>4. Bindings(mem) \subseteq Bindings(mem')
  BY <1>1 DEF Binds
<1>5. ASSUME NEW r \in returned'
      PROVE  [key |-> r.value, val |-> r.ph] \in Bindings(mem')
  <2>1. CASE r \in returned
    BY <1>2, <1>4, <2>1 DEF NothingForgotten
  <2>2. CASE r = [value |-> v, label |-> l, ph |-> ph]
    BY <1>1, <2>2 DEF Binds, Bindings
  <2> QED BY <1>1, <1>5, <2>1, <2>2 DEF Binds
<1> QED BY <1>2, <1>3, <1>4, <1>5 DEF NothingForgotten

\* What a request takes upstream is bound in the map it saves, and the map of
\* its life on disk is the one it saved.
LEMMA EndRequestForgetsNothing ==
  ASSUME IInv, NothingForgotten, ~SaveMayFail,
         NEW forwarded \in BOOLEAN, EndRequest(forwarded)
  PROVE  NothingForgotten'
<1>1. open /\ ~open'
  BY DEF EndRequest, Close
<1>2. \A s \in sent' : s \in sent \/ (s.gen = mem.created
                        /\ \E r \in returned : s.value = r.value /\ s.ph = r.ph)
  BY DEF EndRequest
<1>3. CASE disk' = Contents(mem)
  <2>1. disk'.created = mem.created /\ Bindings(disk') = Bindings(mem)
    BY <1>3 DEF Contents, Bindings
  <2> QED BY <1>1, <1>2, <2>1 DEF NothingForgotten
<1>4. CASE returned = {} /\ disk' = disk
  BY <1>1, <1>2, <1>4 DEF NothingForgotten
<1> QED BY <1>3, <1>4 DEF EndRequest, Save

\* As long as saves succeed and the tombstone has room, what went upstream
\* stays bound for the rest of the map's life.
LEMMA NothingIsForgotten ==
  ASSUME NoCaseVariants, TombRoom, ~SaveMayFail
  PROVE  Spec => []NothingForgotten
<1>1. Init => NothingForgotten
  BY DEF Init, NothingForgotten
<1>2. IInv /\ Bound /\ NothingForgotten /\ [Next]_vars => NothingForgotten'
  <2> SUFFICES ASSUME IInv, Bound, NothingForgotten, [Next]_vars PROVE NothingForgotten'
    OBVIOUS
  <2>1. CASE LoadEmpty
    <3>1. /\ disk' = disk /\ sent' = sent /\ returned' = returned
          /\ mem'.created = gens + 1 /\ returned = {}
      BY <2>1 DEF LoadEmpty, EmptyMap, IInv, Fresh
    <3>2. \A s \in sent : s.gen \in Nat /\ gens \in Nat /\ s.gen <= gens
      BY DEF IInv, TypeOK, Fresh
    <3>3. \A s \in sent : s.gen # mem'.created
      BY <3>1, <3>2
    <3> QED BY <3>1, <3>3 DEF NothingForgotten
  <2>2. CASE LoadFile
    <3>1. /\ disk' = disk /\ sent' = sent /\ returned' = returned /\ returned = {}
          /\ mem'.created = disk.created
      BY <2>2 DEF LoadFile, IInv, Fresh
    <3> QED BY <2>2, <3>1, LoadFileBinds DEF NothingForgotten
  <2>3. CASE \E v \in Values, l \in Labels : PlaceholderFor(v, l)
    BY <2>3, PlaceholderForForgetsNothing
  <2>4. CASE \E forwarded \in BOOLEAN : EndRequest(forwarded)
    BY <2>4, EndRequestForgetsNothing
  <2>5. CASE Abort
    BY <2>5 DEF Abort, Close, NothingForgotten
  <2>6. CASE UNCHANGED vars
    BY <2>6 DEF vars, NothingForgotten
  <2> QED BY <2>1, <2>2, <2>3, <2>4, <2>5, <2>6 DEF Next
<1> QED BY <1>1, <1>2, Invariance, BoundInvariance, PTL DEF Spec

\* The placeholders one more request takes upstream are those its values
\* already had.
LEMMA EndRequestKeepsPlaceholders ==
  ASSUME Bound, NothingForgotten, SamePlaceholder,
         NEW forwarded \in BOOLEAN, EndRequest(forwarded)
  PROVE  SamePlaceholder'
<1>1. \A s \in sent' : s \in sent \/ (s.gen = mem.created
                        /\ \E r \in returned : s.value = r.value /\ s.ph = r.ph)
  BY DEF EndRequest
<1>2. \A s \in sent' : s.gen = mem.created =>
        [key |-> s.value, val |-> s.ph] \in Bindings(mem)
  BY <1>1 DEF NothingForgotten, EndRequest
<1> SUFFICES ASSUME NEW a \in sent', NEW b \in sent', a.gen = b.gen,
                    a.value = b.value, a.label = b.label
             PROVE  a.ph = b.ph
  BY DEF SamePlaceholder
<1>3. CASE a.gen = mem.created
  <2> DEFINE ea == [key |-> a.value, val |-> a.ph]
             eb == [key |-> b.value, val |-> b.ph]
  <2>1. ea \in Bindings(mem) /\ eb \in Bindings(mem) /\ ea.key = eb.key
    BY <1>2, <1>3
  <2>2. ea = eb
    BY <2>1, OneOfKey DEF Bound
  <2> QED BY <2>2
<1>4. CASE a.gen # mem.created
  BY <1>1, <1>4 DEF SamePlaceholder
<1> QED BY <1>3, <1>4

\* A value goes upstream under the same placeholder each time, as long as
\* saves succeed, the tombstone has room for what is evicted, and no two values
\* differ by case only.  (Where two do, it may not: an alias outlives its
\* placeholder.)
THEOREM PlaceholdersAreStable ==
  ASSUME NoCaseVariants, TombRoom, ~SaveMayFail
  PROVE  Spec => []SamePlaceholder
<1>1. Init => SamePlaceholder
  BY DEF Init, SamePlaceholder
<1>2. Bound /\ NothingForgotten /\ SamePlaceholder /\ [Next]_vars => SamePlaceholder'
  <2> SUFFICES ASSUME Bound, NothingForgotten, SamePlaceholder, [Next]_vars
               PROVE  SamePlaceholder'
    OBVIOUS
  <2>1. CASE \E forwarded \in BOOLEAN : EndRequest(forwarded)
    BY <2>1, EndRequestKeepsPlaceholders
  <2>2. CASE UNCHANGED sent
    BY <2>2 DEF SamePlaceholder
  <2>3. CASE LoadEmpty \/ LoadFile \/ Abort
    BY <2>2, <2>3 DEF LoadEmpty, LoadFile, Abort
  <2>4. CASE \E v \in Values, l \in Labels : PlaceholderFor(v, l)
    BY <2>2, <2>4 DEF PlaceholderFor
  <2> QED BY <2>1, <2>2, <2>3, <2>4 DEF Next, vars
<1> QED BY <1>1, <1>2, BoundInvariance, NothingIsForgotten, PTL DEF Spec
=============================================================================
