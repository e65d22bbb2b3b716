--------------------------- MODULE GatewayProofs ---------------------------
(***************************************************************************)
(* What the routes forward was scanned whole, connections are given back,  *)
(* and the feed tells of each request: for any number of requests, fields, *)
(* texts, gates that fail and sizes of windows and caches.                 *)
(***************************************************************************)
EXTENDS Gateway, WellFoundedInduction, SequenceTheorems, FiniteSetTheorems, TLAPS

-----------------------------------------------------------------------------
(* The entries and lengths of a dict *)

\* The entries of a dict have its keys and values.
LEMMA EntryTypes ==
  ASSUME NEW K, NEW V, NEW d \in Dict(K, V)
  PROVE  /\ \A i \in DOMAIN d : d[i] \in Items(d) /\ d[i].key \in K /\ d[i].val \in V
         /\ \A e \in Items(d) : e.key \in K /\ e.val \in V
<1>1. d \in Seq(Entry(K, V))
  BY DEF Dict
<1>2. \A i \in DOMAIN d : d[i] \in Entry(K, V)
  BY <1>1
<1>3. \A e \in Entry(K, V) : e.key \in K /\ e.val \in V
  BY DEF Entry
<1> QED BY <1>2, <1>3 DEF Items

\* Looking up a key that is present finds the value of an entry with that key.
LEMMA LookupFinds ==
  ASSUME NEW d, NEW k, HasKey(d, k)
  PROVE  \E e \in Items(d) : e.key = k /\ e.val = Lookup(d, k)
<1>1. IndexOf(d, k) \in DOMAIN d /\ d[IndexOf(d, k)].key = k
  BY DEF HasKey, IndexOf
<1> QED
  BY <1>1 DEF Items, Lookup

\* Insertion adds one entry and leaves the others alone.
LEMMA InsertAdds ==
  ASSUME NEW K, NEW V, NEW d \in Dict(K, V), NEW k \in K, NEW v \in V
  PROVE  /\ Insert(d, k, v) \in Dict(K, V)
         /\ Items(Insert(d, k, v)) = Items(d) \cup {[key |-> k, val |-> v]}
         /\ Len(Insert(d, k, v)) = Len(d) + 1
<1> DEFINE e == [key |-> k, val |-> v]
<1>1. e \in Entry(K, V)
  BY DEF Entry
<1>2. d \in Seq(Entry(K, V))
  BY DEF Dict
<1>3. /\ Append(d, e) \in Seq(Entry(K, V))
      /\ Len(Append(d, e)) = Len(d) + 1
  BY <1>1, <1>2
<1>4. Items(Append(d, e)) = Items(d) \cup {e}
  <2>1. DOMAIN Append(d, e) = 1 .. Len(d) + 1 /\ DOMAIN d = 1 .. Len(d) /\ Len(d) \in Nat
    BY <1>1, <1>2
  <2>2. \A i \in 1 .. Len(d) : Append(d, e)[i] = d[i]
    BY <1>1, <1>2
  <2>3. Append(d, e)[Len(d) + 1] = e
    BY <1>1, <1>2
  <2> QED
    BY <2>1, <2>2, <2>3 DEF Items
<1> QED
  BY <1>3, <1>4 DEF Insert, Dict

\* Dropping an entry adds none and shortens the dict by one.
LEMMA DropAtShrinks ==
  ASSUME NEW K, NEW V, NEW d \in Dict(K, V), NEW i \in DOMAIN d
  PROVE  /\ DropAt(d, i) \in Dict(K, V)
         /\ Items(DropAt(d, i)) \subseteq Items(d)
         /\ Len(DropAt(d, i)) = Len(d) - 1
         /\ \A j \in 1 .. Len(d) - 1 :
              DropAt(d, i)[j] = IF j < i THEN d[j] ELSE d[j + 1]
<1> DEFINE S == Entry(K, V)
           a == SubSeq(d, 1, i - 1)
           b == SubSeq(d, i + 1, Len(d))
<1>1. d \in Seq(S) /\ i \in 1 .. Len(d) /\ Len(d) \in Nat /\ DOMAIN d = 1 .. Len(d)
  BY DEF Dict
<1> HIDE DEF S
<1>2. /\ a \in Seq(S) /\ Len(a) = i - 1
      /\ \A j \in 1 .. i - 1 : a[j] = d[j]
  BY <1>1
<1>3. /\ b \in Seq(S) /\ Len(b) = Len(d) - i
      /\ \A j \in 1 .. Len(d) - i : b[j] = d[i + j]
  BY <1>1
<1> HIDE DEF a, b
<1>4. /\ a \o b \in Seq(S)
      /\ Len(a \o b) = Len(d) - 1
      /\ \A j \in 1 .. Len(d) - 1 :
           (a \o b)[j] = IF j <= i - 1 THEN a[j] ELSE b[j - (i - 1)]
  <2>1. /\ a \o b \in Seq(S)
        /\ Len(a \o b) = Len(a) + Len(b)
        /\ \A j \in 1 .. Len(a) + Len(b) :
             (a \o b)[j] = IF j <= Len(a) THEN a[j] ELSE b[j - Len(a)]
    BY <1>2, <1>3, ConcatProperties
  <2>2. Len(a) + Len(b) = Len(d) - 1
    BY <1>1, <1>2, <1>3
  <2> QED BY <1>2, <2>1, <2>2
<1>5. \A j \in 1 .. Len(d) - 1 : \E n \in 1 .. Len(d) : (a \o b)[j] = d[n]
  <2> TAKE j \in 1 .. Len(d) - 1
  <2>1. CASE j <= i - 1
    <3>1. j \in 1 .. i - 1 /\ j \in 1 .. Len(d)
      BY <1>1, <2>1
    <3> QED BY <1>2, <1>4, <3>1, <2>1
  <2>2. CASE ~(j <= i - 1)
    <3>1. j - (i - 1) \in 1 .. Len(d) - i /\ i + (j - (i - 1)) \in 1 .. Len(d)
      BY <1>1, <2>2
    <3>2. b[j - (i - 1)] = d[i + (j - (i - 1))]
      BY <1>3, <3>1
    <3> QED BY <1>4, <3>1, <3>2, <2>2
  <2> QED BY <2>1, <2>2
<1>6. DOMAIN (a \o b) = 1 .. Len(d) - 1
  BY <1>4
<1>7. Items(a \o b) \subseteq Items(d)
  BY <1>1, <1>5, <1>6 DEF Items
<1>8. \A j \in 1 .. Len(d) - 1 : (a \o b)[j] = IF j < i THEN d[j] ELSE d[j + 1]
  <2> TAKE j \in 1 .. Len(d) - 1
  <2>1. CASE j < i
    BY <1>1, <1>2, <1>4, <2>1
  <2>2. CASE ~(j < i)
    <3>1. j - (i - 1) \in 1 .. Len(d) - i /\ i + (j - (i - 1)) = j + 1
      BY <1>1, <2>2
    <3>2. b[j - (i - 1)] = d[j + 1]
      BY <1>3, <3>1
    <3> QED BY <1>1, <1>4, <3>2, <2>2
  <2> QED BY <2>1, <2>2
<1> QED
  BY <1>4, <1>7, <1>8 DEF DropAt, Dict, S, a, b

\* Popping a key adds no entry and does not lengthen the dict.
LEMMA PopShrinks ==
  ASSUME NEW K, NEW V, NEW d \in Dict(K, V), NEW k
  PROVE  /\ Pop(d, k) \in Dict(K, V)
         /\ Items(Pop(d, k)) \subseteq Items(d)
         /\ Len(Pop(d, k)) <= Len(d)
<1>0. Len(d) \in Nat
  BY DEF Dict
<1>1. CASE HasKey(d, k)
  <2>1. IndexOf(d, k) \in DOMAIN d
    BY <1>1 DEF HasKey, IndexOf
  <2>2. Pop(d, k) = DropAt(d, IndexOf(d, k))
    BY <1>1 DEF Pop
  <2> QED BY <1>0, <2>1, <2>2, DropAtShrinks
<1>2. CASE ~HasKey(d, k)
  BY <1>0, <1>2 DEF Pop
<1> QED BY <1>1, <1>2

\* Forgetting the oldest entry of a non-empty dict.
LEMMA TailShrinks ==
  ASSUME NEW K, NEW V, NEW d \in Dict(K, V), Len(d) > 0
  PROVE  /\ Head(d) \in Items(d)
         /\ Head(d).key \in K /\ Head(d).val \in V
         /\ Tail(d) \in Dict(K, V)
         /\ Items(Tail(d)) \subseteq Items(d)
         /\ Len(Tail(d)) = Len(d) - 1
<1>1. d \in Seq(Entry(K, V)) /\ Len(d) \in Nat /\ d # <<>> /\ DOMAIN d = 1 .. Len(d)
  BY DEF Dict
<1>2. Head(d) = d[1] /\ 1 \in DOMAIN d /\ d[1] \in Entry(K, V)
  BY <1>1
<1>3. /\ Tail(d) \in Seq(Entry(K, V))
      /\ Len(Tail(d)) = Len(d) - 1
      /\ DOMAIN Tail(d) = 1 .. Len(d) - 1
      /\ \A j \in 1 .. Len(d) - 1 : Tail(d)[j] = d[j + 1]
  BY <1>1
<1>4. Items(Tail(d)) \subseteq Items(d)
  <2> SUFFICES ASSUME NEW j \in 1 .. Len(d) - 1
               PROVE  Tail(d)[j] \in Items(d)
    BY <1>3 DEF Items
  <2>1. j + 1 \in DOMAIN d
    BY <1>1
  <2> QED BY <1>3, <2>1 DEF Items
<1> QED
  BY <1>2, <1>3, <1>4 DEF Items, Dict, Entry

-----------------------------------------------------------------------------
(* What holds of the tasks *)

\* What the windows scanned so far leave out begins where the next one does.
ReadSoFar(t) ==
  \A a \in 0..Length[Target(t)] : \A b \in a + 1..Length[Target(t)] :
    a < t.at /\ b - a <= Overlap =>
      \E w \in t.windows : w[1] = t.gate /\ w[2] <= a /\ b <= w[3]

\* A task that is not done has a text and, on its second round, a whole scan of
\* it; one that is done has all its scans, or is degraded.
Sound(t) ==
  /\ t.score = RedactScore
  /\ t.stage \notin {"none", "done"} => t.text \in Texts
  /\ t.carrier => NameShaped(t.text) /\ \E s \in t.scans : Covers(s, t.text)
  /\ t.stage = "calling" => ReadSoFar(t)
  /\ t.stage = "done" /\ ~t.degraded /\ t.text # None => ScannedWhole(t.scans, t.text)

ConsoleSound ==
  console.stage = "calling" =>
    console.text \in Texts /\ ~console.carrier /\ ReadSoFar(console)

\* The scan of a key is of its text and has all of it.
WholeScan(key, scan) ==
  /\ scan.key = key
  /\ \A a \in 0..Length[key[1]] : \A b \in a + 1..Length[key[1]] :
       b - a <= Overlap => \E w \in scan.windows : w[1] = scan.gate /\ w[2] <= a /\ b <= w[3]

CacheWhole == \A e \in Items(cache) : WholeScan(e.key, e.val)

\* The queue holds each waiting task once, and no other.
QueueOfWaiting ==
  /\ \A i \in 1..Len(queue) : task[queue[i]].stage = "queued"
  /\ \A i, j \in 1..Len(queue) : queue[i] = queue[j] => i = j

DetectorInv ==
  /\ DetectorTypeOK
  /\ \A k \in Tasks : Sound(task[k])
  /\ ConsoleSound /\ CacheWhole /\ QueueOfWaiting

\* What a request's scans are for, while it scans and once it is forwarded.
ScansFor(r) ==
  /\ stage[r] = "new" => \A p \in Places : task[<<r, p>>].stage = "none"
  /\ stage[r] # "new" => body[r] \in Bodies[r]
  /\ stage[r] = "scanning" =>
       \A p \in Places : body[r].fields[p] # None =>
         task[<<r, p>>].stage # "none" /\ task[<<r, p>>].text = body[r].fields[p]
  /\ r \in forwarded => stage[r] \notin {"new", "scanning"}
  /\ FailClosed /\ r \in forwarded /\ body[r].route.reads =>
       \A p \in Places : body[r].fields[p] # None =>
         task[<<r, p>>].stage = "done" /\ ScannedWhole(task[<<r, p>>].scans, body[r].fields[p])

IInv == TypeOK /\ DetectorInv /\ \A r \in Requests : ScansFor(r)

ConnectionInv ==
  \A r \in Requests : stage[r] \in {"new", "scanning", "left", "over"} => conn[r] # "open"

\* The events of a request follow what has become of it.
Told(r) ==
  /\ r \in forwarded => stage[r] \notin {"new", "scanning"}
  /\ stage[r] \in {"new", "scanning"} => feed[r] = <<>> /\ ~replay[r]
  /\ stage[r] = "scanning" => body[r].route.reads
  /\ stage[r] # "new" /\ ~body[r].route.reads => feed[r] = <<>> /\ ~replay[r]
  /\ stage[r] \in {"sent", "opened", "streaming", "abandoned", "left"} => r \in forwarded
  /\ stage[r] \in {"sent", "opened", "streaming", "abandoned"} /\ body[r].route.reads => feed[r] = <<"request">>
  /\ stage[r] = "left" /\ body[r].route.reads => feed[r] \in {<<"request">>, <<"request", "withheld">>}
  /\ feed[r] \in {<<>>, <<"request">>, <<"request", "response">>, <<"request", "withheld">>,
                  <<"request", "response", "withheld">>, <<"request", "withheld", "response">>}
  /\ r \in forwarded /\ body[r].route.reads => feed[r] # <<>>
  /\ feed[r] \notin {<<>>, <<"request">>} => r \in forwarded
-----------------------------------------------------------------------------
(* The windows of a text *)

\* A set of natural numbers below a bound has a greatest.
LEMMA Greatest ==
  ASSUME NEW n \in Nat, NEW S \in SUBSET (0..n), S # {}
  PROVE  \E m \in S : \A k \in S : k <= m
<1> DEFINE R == OpToRel(<, Nat)
           T == {x \in Nat : n - x \in S}
<1>1. PICK k \in S : TRUE
  OBVIOUS
<1>2. k \in 0..n
  OBVIOUS
<1>3. n - k \in Nat /\ n - (n - k) = k
  BY <1>2
<1>4. T # {} /\ T \subseteq Nat
  BY <1>1, <1>3
<1>5. IsWellFoundedOn(R, Nat)
  BY NatLessThanWellFounded
<1>6. \E x \in T : \A y \in T : ~ (<<y, x>> \in R)
  <2> HIDE DEF R, T
  <2> QED BY <1>4, <1>5, WFMin
<1>7. PICK x \in T : \A y \in T : ~ (<<y, x>> \in R)
  BY <1>6
<1>8. \A y \in Nat, z \in Nat : y < z => <<y, z>> \in R
  BY DEF OpToRel
<1> HIDE DEF R
<1>9. ASSUME NEW y \in T PROVE x <= y
  <2>1. x \in Nat /\ y \in Nat
    OBVIOUS
  <2>2. ~ (<<y, x>> \in R)
    BY <1>7
  <2>3. ~ (y < x)
    BY <1>8, <2>1, <2>2
  <2> QED BY <2>1, <2>3
<1>10. ASSUME NEW j \in S PROVE j <= n - x
  <2>1. j \in 0..n
    OBVIOUS
  <2>2. n - j \in Nat /\ n - (n - j) = j
    BY <2>1
  <2>3. n - j \in T
    BY <2>2
  <2>4. x <= n - j /\ x \in Nat
    BY <1>9, <2>3
  <2> QED BY <2>1, <2>4
<1>11. n - x \in S
  OBVIOUS
<1> QED BY <1>10, <1>11

\* A window that is not the last is longer than twice the overlap.
LEMMA WindowEnd ==
  ASSUME NEW text \in Texts, NEW i \in Nat
  PROVE  /\ ChunkEnd(text, i) \in Nat
         /\ ChunkEnd(text, i) < Length[text] => i + Overlap < ChunkEnd(text, i)
<1> DEFINE L == Length[text]
           end == IF i + ChunkSize < L THEN i + ChunkSize ELSE L
           cuts == {j \in Spaces[text] : i + ChunkSize - Overlap <= j /\ j < end}
           best == CHOOSE j \in cuts : \A k \in cuts : k <= j
<1>1. /\ L \in Nat /\ ChunkSize \in Nat /\ Overlap \in Nat /\ ChunkSize > 2 * Overlap
      /\ Spaces[text] \subseteq Nat
  BY DetectorAssumption
<1>2. end \in Nat /\ (end < L => end = i + ChunkSize)
  BY <1>1
<1>3. ChunkEnd(text, i) = IF end < L /\ cuts # {} THEN best ELSE end
  BY DEF ChunkEnd
<1> HIDE DEF L, end
<1>4. CASE end < L /\ cuts # {}
  <2>1. cuts \in SUBSET (0..end)
    BY <1>1, <1>2
  <2>2. \E j \in cuts : \A k \in cuts : k <= j
    <3> HIDE DEF cuts
    <3> QED BY <1>2, <1>4, <2>1, Greatest
  <2>3. best \in cuts
    BY <2>2
  <2>4. ChunkEnd(text, i) \in cuts
    BY <1>3, <1>4, <2>3
  <2> QED BY <1>1, <1>2, <2>1, <2>4 DEF L
<1>5. CASE ~(end < L /\ cuts # {})
  <2>1. ChunkEnd(text, i) = end
    BY <1>3, <1>5
  <2> QED BY <1>1, <1>2, <2>1 DEF L
<1> QED BY <1>4, <1>5

\* So the next one begins the overlap before its end.
LEMMA WindowsOverlap ==
  ASSUME NEW text \in Texts, NEW i \in Nat, ChunkEnd(text, i) < Length[text]
  PROVE  NextChunk(text, i) \in Nat /\ NextChunk(text, i) = ChunkEnd(text, i) - Overlap
<1>1. /\ Overlap \in Nat /\ ChunkEnd(text, i) \in Nat
      /\ i + Overlap < ChunkEnd(text, i)
  BY DetectorAssumption, WindowEnd
<1> QED BY <1>1 DEF NextChunk

\* A task reads on from where it was.
LEMMA ReadsOn ==
  ASSUME NEW t, NEW u, Target(t) \in Texts, t.at \in Nat, ReadSoFar(t), ~LastChunk(t),
         Target(u) = Target(t), u.gate = t.gate, u.windows = ScannedBy(t),
         u.at = NextChunk(Target(t), t.at)
  PROVE  ReadSoFar(u) /\ u.at \in Nat
<1> DEFINE x == Target(t)
           e == ChunkEnd(x, t.at)
           here == <<t.gate, t.at, e>>
<1>1. Length[x] \in Nat /\ Overlap \in Nat /\ e \in Nat
  BY WindowEnd, DetectorAssumption
<1>2. e < Length[x]
  BY <1>1 DEF LastChunk
<1>3. u.at \in Nat /\ u.at = e - Overlap
  BY <1>2, WindowsOverlap
<1>4. here \in u.windows /\ here[1] = u.gate /\ here[2] = t.at /\ here[3] = e
  BY DEF ScannedBy
<1>5. t.windows \subseteq u.windows
  BY DEF ScannedBy
<1> HIDE DEF e, here
<1> SUFFICES ASSUME NEW a \in 0..Length[x], NEW b \in a + 1..Length[x],
                    a < u.at, b - a <= Overlap
             PROVE  \E w \in u.windows : w[1] = u.gate /\ w[2] <= a /\ b <= w[3]
  BY <1>3 DEF ReadSoFar
<1>6. CASE a < t.at
  <2>1. \E w \in t.windows : w[1] = t.gate /\ w[2] <= a /\ b <= w[3]
    BY <1>6 DEF ReadSoFar
  <2> QED BY <1>5, <2>1
<1>7. CASE t.at <= a
  <2>1. a \in Nat /\ b \in Nat /\ b <= e
    BY <1>1, <1>3
  <2> QED BY <1>4, <1>7, <2>1
<1>8. a \in Nat
  BY <1>1
<1> QED BY <1>6, <1>7, <1>8

\* With the last window the whole text is read.
LEMMA ReadsAll ==
  ASSUME NEW t, Target(t) \in Texts, t.at \in Nat, ReadSoFar(t), LastChunk(t)
  PROVE  WholeScan(CacheKey(t), Scan(t, ScannedBy(t)))
<1> DEFINE x == Target(t)
           e == ChunkEnd(x, t.at)
           here == <<t.gate, t.at, e>>
           scan == Scan(t, ScannedBy(t))
<1>1. Length[x] \in Nat /\ Overlap \in Nat /\ e \in Nat
  BY WindowEnd, DetectorAssumption
<1>2. e >= Length[x]
  BY <1>1 DEF LastChunk
<1>3. /\ scan.key = CacheKey(t) /\ scan.gate = t.gate /\ scan.windows = ScannedBy(t)
      /\ CacheKey(t)[1] = x
  BY DEF Scan, CacheKey
<1>4. here \in ScannedBy(t) /\ here[1] = t.gate /\ here[2] = t.at /\ here[3] = e
  BY DEF ScannedBy
<1>5. t.windows \subseteq ScannedBy(t)
  BY DEF ScannedBy
<1> HIDE DEF e, here, scan
<1>6. ASSUME NEW a \in 0..Length[x], NEW b \in a + 1..Length[x], b - a <= Overlap
      PROVE  \E w \in ScannedBy(t) : w[1] = t.gate /\ w[2] <= a /\ b <= w[3]
  <2>0. a \in Nat /\ b \in Nat /\ b <= e
    BY <1>1, <1>2
  <2>1. CASE a < t.at
    <3>1. \E w \in t.windows : w[1] = t.gate /\ w[2] <= a /\ b <= w[3]
      BY <2>1, <1>6 DEF ReadSoFar
    <3> QED BY <1>5, <3>1
  <2>2. CASE t.at <= a
    BY <1>4, <2>0, <2>2
  <2> QED BY <2>0, <2>1, <2>2
<1> HIDE DEF x
<1>7. WholeScan(CacheKey(t), scan)
  BY <1>3, <1>6 DEF WholeScan
<1> QED BY <1>7 DEF scan

-----------------------------------------------------------------------------
(* One task *)

LEMMA IdleTyped ==
  /\ Idle \in TaskRecords /\ Sound(Idle)
  /\ \A text \in Texts : Wanted(text) \in TaskRecords /\ Sound(Wanted(text))
BY NoneAssumption DEF Idle, Wanted, TaskRecords, Gates, Sound, ReadSoFar

LEMMA CoveringIsWhole ==
  ASSUME NEW scan, NEW text
  PROVE  Covers(scan, text) <=> WholeScan(<<text, RedactScore>>, scan)
BY DEF Covers, WholeScan

LEMMA TargetIsText ==
  ASSUME NEW t \in TaskRecords, Sound(t), t.stage \notin {"none", "done"}
  PROVE  /\ Target(t) \in Texts /\ t.text \in Texts
         /\ CacheKey(t) = <<Target(t), RedactScore>> /\ CacheKey(t) \in Keys
<1>1. t.text \in Texts /\ t.score = RedactScore /\ (t.carrier => NameShaped(t.text))
  BY DEF Sound
<1>2. Target(t) \in Texts
  BY <1>1, DetectorAssumption DEF Target, NameShaped
<1> QED BY <1>1, <1>2 DEF CacheKey, Keys

\* A task that is given a whole scan of what it is at keeps it, and is done or
\* goes on to the carrier.
LEMMA AnsweredByScan ==
  ASSUME NEW t \in TaskRecords, Sound(t), t.stage \notin {"none", "done"},
         NEW scan \in ScanRecords, WholeScan(CacheKey(t), scan)
  PROVE  /\ Answered(t, scan) \in TaskRecords /\ Sound(Answered(t, scan))
         /\ Answered(t, scan).text = t.text
         /\ Answered(t, scan).stage \in {"wanted", "done"}
<1> DEFINE u == Answered(t, scan)
           again == ~t.carrier /\ NameShaped(t.text) /\ ~SeesPerson(scan)
<1>1. /\ t.text \in Texts /\ t.text # None /\ scan # None
      /\ CacheKey(t) = <<Target(t), RedactScore>>
      /\ t.scans \subseteq ScanRecords /\ t.carrier \in BOOLEAN
  BY TargetIsText, NoneAssumption DEF TaskRecords
<1>2. Covers(scan, Target(t))
  BY <1>1, CoveringIsWhole
<1>3. u = [Idle EXCEPT !.text = t.text, !.carrier = again,
                       !.stage = IF again THEN "wanted" ELSE "done",
                       !.scans = t.scans \cup {scan}, !.degraded = FALSE]
  BY <1>1 DEF Answered
<1> HIDE DEF again
<1>4. /\ u.text = t.text /\ u.carrier = again /\ u.score = RedactScore
      /\ u.stage = (IF again THEN "wanted" ELSE "done")
      /\ u.scans = t.scans \cup {scan} /\ ~u.degraded
  BY <1>3 DEF Idle
<1>5. u \in TaskRecords
  <2>1. again \in BOOLEAN
    BY DEF again
  <2>2. u = [stage |-> IF again THEN "wanted" ELSE "done", text |-> t.text, carrier |-> again,
             score |-> RedactScore, gate |-> "primary", at |-> 0, windows |-> {},
             scans |-> t.scans \cup {scan}, degraded |-> FALSE]
    BY <1>3 DEF Idle
  <2>3. t.scans \cup {scan} \subseteq ScanRecords
    BY <1>1
  <2> HIDE DEF u
  <2> QED BY <1>1, <2>1, <2>2, <2>3 DEF TaskRecords, Gates
<1> HIDE DEF u
<1>6. CASE t.carrier
  <2>1. ~again /\ NameShaped(t.text) /\ \E s \in t.scans : Covers(s, t.text)
    BY <1>6 DEF Sound, again
  <2>2. Covers(scan, Carriers[t.text])
    BY <1>2, <1>6 DEF Target
  <2>3. ScannedWhole(u.scans, t.text)
    BY <1>4, <2>1, <2>2 DEF ScannedWhole
  <2> QED BY <1>4, <1>5, <2>1, <2>3 DEF Sound, u
<1>7. CASE ~t.carrier
  <2>1. Covers(scan, t.text)
    BY <1>2, <1>7 DEF Target
  <2>2. CASE again
    BY <1>1, <1>4, <1>5, <2>1, <2>2 DEF Sound, again, u
  <2>3. CASE ~again
    <3>1. ~ (NameShaped(t.text) /\ ~SeesPerson(scan))
      BY <1>7, <2>3 DEF again
    <3>2. ScannedWhole(u.scans, t.text)
      BY <1>4, <2>1, <3>1 DEF ScannedWhole
    <3> QED BY <1>4, <1>5, <2>3, <3>2 DEF Sound, u
  <2> QED BY <2>2, <2>3
<1> QED BY <1>6, <1>7

\* One that is given none is done, and degraded.
LEMMA AnsweredByNone ==
  ASSUME NEW t \in TaskRecords, Sound(t)
  PROVE  /\ Answered(t, None) \in TaskRecords /\ Sound(Answered(t, None))
         /\ Answered(t, None).text = t.text
         /\ Answered(t, None).stage = "done"
<1> DEFINE u == Answered(t, None)
<1>1. u = [Idle EXCEPT !.text = t.text, !.carrier = FALSE, !.stage = "done",
                       !.scans = t.scans, !.degraded = TRUE]
  BY DEF Answered
<1>2. /\ u.text = t.text /\ ~u.carrier /\ u.stage = "done" /\ u.degraded /\ u.score = RedactScore
  BY <1>1 DEF Idle
<1>3. u \in TaskRecords
  <2>1. u = [stage |-> "done", text |-> t.text, carrier |-> FALSE,
             score |-> RedactScore, gate |-> "primary", at |-> 0, windows |-> {},
             scans |-> t.scans, degraded |-> TRUE]
    BY <1>1 DEF Idle
  <2>2. t.text \in Texts \cup {None} /\ t.scans \subseteq ScanRecords
    BY DEF TaskRecords
  <2> HIDE DEF u
  <2> QED BY <2>1, <2>2 DEF TaskRecords, Gates
<1> HIDE DEF u
<1>4. Sound(u)
  BY <1>2 DEF Sound
<1> QED BY <1>2, <1>3, <1>4 DEF u

\* What a step of the task k may do to the tasks.
TaskStep(k) ==
  /\ task' \in [Tasks -> TaskRecords]
  /\ task[k].stage \notin {"none", "done"}
  /\ task'[k].stage # "none" /\ task'[k].text = task[k].text
  /\ \A j \in Tasks \ {k} :
       \/ task'[j] = task[j]
       \/ task[j].stage = "queued" /\ task'[j] = [task[j] EXCEPT !.stage = "holding"]

\* What is to be shown of it.
Kept ==
  /\ free' \in Nat /\ queue' \in Seq(Tasks) /\ QueueOfWaiting'
  /\ \A j \in Tasks : Sound(task'[j])

LEMMA StageOnly ==
  ASSUME NEW t \in TaskRecords, Sound(t), t.stage \notin {"none", "done"},
         NEW s \in {"queued", "holding"}
  PROVE  /\ [t EXCEPT !.stage = s] \in TaskRecords
         /\ Sound([t EXCEPT !.stage = s])
         /\ [t EXCEPT !.stage = s].stage = s
         /\ [t EXCEPT !.stage = s].text = t.text
<1> DEFINE u == [t EXCEPT !.stage = s]
<1>1. /\ u \in TaskRecords
      /\ u.stage = s /\ u.text = t.text /\ u.carrier = t.carrier /\ u.score = t.score
      /\ u.scans = t.scans
  BY DEF TaskRecords
<1>2. t.text \in Texts
  BY DEF Sound
<1> HIDE DEF u
<1>3. Sound(u)
  BY <1>1, <1>2 DEF Sound
<1> QED BY <1>1, <1>3 DEF u

\* The permit is given back, or to the first in the queue.
LEMMA ReleaseStep ==
  ASSUME DetectorInv, NEW k \in Tasks, task[k].stage \in {"holding", "calling"},
         NEW t \in TaskRecords, t.text = task[k].text, Sound(t), t.stage \in {"wanted", "done"},
         Releases(k, t)
  PROVE  TaskStep(k) /\ Kept
<1>1. /\ task \in [Tasks -> TaskRecords] /\ free \in Nat /\ queue \in Seq(Tasks)
      /\ \A j \in Tasks : Sound(task[j])
      /\ QueueOfWaiting
  BY DEF DetectorInv, DetectorTypeOK
<1>2. CASE queue = <<>>
  <2>1. task' = [task EXCEPT ![k] = t] /\ free' = free + 1 /\ queue' = queue
    BY <1>2 DEF Releases
  <2>2. task'[k] = t /\ \A j \in Tasks \ {k} : task'[j] = task[j]
    BY <1>1, <2>1
  <2>3. TaskStep(k)
    BY <1>1, <2>1, <2>2 DEF TaskStep
  <2>4. QueueOfWaiting'
    BY <1>2, <2>1 DEF QueueOfWaiting
  <2> QED BY <1>1, <2>1, <2>2, <2>3, <2>4 DEF Kept
<1>3. CASE queue # <<>>
  <2> DEFINE h == Head(queue)
             u == [task[h] EXCEPT !.stage = "holding"]
  <2>0. /\ Len(queue) \in Nat /\ 1 \in 1..Len(queue) /\ h = queue[1] /\ h \in Tasks
        /\ Tail(queue) \in Seq(Tasks) /\ Len(Tail(queue)) = Len(queue) - 1
        /\ \A i \in 1..Len(queue) - 1 : Tail(queue)[i] = queue[i + 1]
    BY <1>1, <1>3
  <2>1. task[h].stage = "queued" /\ h # k
    BY <1>1, <2>0 DEF QueueOfWaiting
  <2>2. task' = [task EXCEPT ![k] = t, ![h].stage = "holding"] /\ queue' = Tail(queue) /\ free' = free
    BY <1>3 DEF Releases
  <2>3. u \in TaskRecords /\ Sound(u)
    BY <1>1, <2>0, <2>1, StageOnly
  <2>4. /\ task' \in [Tasks -> TaskRecords] /\ task'[k] = t /\ task'[h] = u
        /\ \A j \in Tasks \ {k, h} : task'[j] = task[j]
    BY <1>1, <2>0, <2>1, <2>2, <2>3
  <2> HIDE DEF h
  <2>5. TaskStep(k)
    BY <2>1, <2>4 DEF TaskStep
  <2>6. \A j \in Tasks : Sound(task'[j])
    BY <1>1, <2>3, <2>4
  <2>7. QueueOfWaiting'
    <3>1. ASSUME NEW i \in 1..Len(queue) - 1
          PROVE  /\ i + 1 \in 1..Len(queue) /\ queue'[i] = queue[i + 1]
                 /\ queue[i + 1] \in Tasks \ {k, h} /\ task'[queue'[i]].stage = "queued"
      <4>1. i + 1 \in 1..Len(queue) /\ 1 # i + 1 /\ queue'[i] = queue[i + 1]
        BY <2>0, <2>2
      <4>2. queue[i + 1] \in Tasks /\ task[queue[i + 1]].stage = "queued" /\ queue[i + 1] # h
        BY <1>1, <2>0, <4>1 DEF QueueOfWaiting
      <4> QED BY <2>4, <4>1, <4>2
    <3>2. Len(queue') = Len(queue) - 1
      BY <2>0, <2>2
    <3>3. ASSUME NEW i \in 1..Len(queue) - 1, NEW j \in 1..Len(queue) - 1, queue'[i] = queue'[j]
          PROVE  i = j
      <4>1. i + 1 = j + 1
        BY <1>1, <3>1, <3>3 DEF QueueOfWaiting
      <4> QED BY <2>0, <4>1
    <3> QED BY <3>1, <3>2, <3>3 DEF QueueOfWaiting
  <2> QED BY <1>1, <2>0, <2>2, <2>5, <2>6, <2>7 DEF Kept
<1> QED BY <1>2, <1>3

-----------------------------------------------------------------------------
(* The cache of scans *)

WholeCache(d) == d \in Dict(Keys, ScanRecords) /\ \A e \in Items(d) : WholeScan(e.key, e.val)

LEMMA CacheStores ==
  ASSUME NEW d, WholeCache(d), NEW key \in Keys, NEW scan \in ScanRecords, WholeScan(key, scan)
  PROVE  WholeCache(PopAndSet(d, key, scan)) /\ WholeCache(Stored(d, key, scan))
<1> DEFINE p == Pop(d, key)
           full == PopAndSet(d, key, scan)
<1>1. p \in Dict(Keys, ScanRecords) /\ Items(p) \subseteq Items(d)
  BY PopShrinks DEF WholeCache
<1>2. full = Insert(p, key, scan)
  BY DEF PopAndSet
<1>3. /\ full \in Dict(Keys, ScanRecords)
      /\ Items(full) = Items(p) \cup {[key |-> key, val |-> scan]}
      /\ Len(full) = Len(p) + 1
  <2> HIDE DEF p, full
  <2> QED BY <1>1, <1>2, InsertAdds
<1>4. WholeCache(full)
  <2> HIDE DEF p, full
  <2> QED BY <1>1, <1>3 DEF WholeCache
<1>5. Len(full) > 0
  <2>1. Len(p) \in Nat
    BY <1>1 DEF Dict
  <2> QED BY <1>3, <2>1
<1>6. Tail(full) \in Dict(Keys, ScanRecords) /\ Items(Tail(full)) \subseteq Items(full)
  <2> HIDE DEF full
  <2> QED BY <1>3, <1>5, TailShrinks
<1>7. WholeCache(Tail(full))
  <2> HIDE DEF full
  <2> QED BY <1>4, <1>6 DEF WholeCache
<1> QED BY <1>4, <1>7 DEF Stored

LEMMA CacheFinds ==
  ASSUME NEW d, WholeCache(d), NEW key, HasKey(d, key)
  PROVE  Lookup(d, key) \in ScanRecords /\ WholeScan(key, Lookup(d, key))
<1>1. PICK e \in Items(d) : e.key = key /\ e.val = Lookup(d, key)
  BY LookupFinds
<1>2. e.val \in ScanRecords
  BY EntryTypes DEF WholeCache
<1> QED BY <1>1, <1>2 DEF WholeCache

LEMMA ScanTyped ==
  ASSUME NEW t \in TaskRecords, Target(t) \in Texts, CacheKey(t) \in Keys
  PROVE  Scan(t, ScannedBy(t)) \in ScanRecords /\ ScannedBy(t) \in SUBSET Windows
<1>1. t.gate \in Gates /\ t.at \in Nat /\ t.windows \subseteq Windows
  BY DEF TaskRecords
<1>2. ChunkEnd(Target(t), t.at) \in Nat
  BY <1>1, WindowEnd
<1>3. <<t.gate, t.at, ChunkEnd(Target(t), t.at)>> \in Windows
  BY <1>1, <1>2 DEF Windows
<1>4. ScannedBy(t) \in SUBSET Windows
  BY <1>1, <1>3 DEF ScannedBy
<1> QED BY <1>1, <1>4 DEF Scan, ScanRecords
-----------------------------------------------------------------------------
(* Every step of a task *)

\* A step that changes nothing but the task k, to t.
LEMMA OwnStep ==
  ASSUME DetectorInv, NEW k \in Tasks, task[k].stage \notin {"none", "done", "queued"},
         NEW t \in TaskRecords, t.text = task[k].text, Sound(t), t.stage # "none",
         task' = [task EXCEPT ![k] = t], queue' = queue, free' \in Nat
  PROVE  TaskStep(k) /\ Kept
<1>1. /\ task \in [Tasks -> TaskRecords] /\ queue \in Seq(Tasks)
      /\ \A j \in Tasks : Sound(task[j])
      /\ QueueOfWaiting
  BY DEF DetectorInv, DetectorTypeOK
<1>2. /\ task' \in [Tasks -> TaskRecords] /\ task'[k] = t
      /\ \A j \in Tasks \ {k} : task'[j] = task[j]
  BY <1>1
<1>3. \A i \in 1..Len(queue) : queue[i] \in Tasks /\ queue[i] # k
  BY <1>1 DEF QueueOfWaiting
<1>4. QueueOfWaiting'
  BY <1>1, <1>2, <1>3 DEF QueueOfWaiting
<1> QED BY <1>1, <1>2, <1>4 DEF TaskStep, Kept

LEMMA AskStep ==
  ASSUME DetectorInv, NEW k \in Tasks, Ask(k)
  PROVE  TaskStep(k) /\ Kept
<1>1. /\ task \in [Tasks -> TaskRecords] /\ queue \in Seq(Tasks) /\ free \in Nat
      /\ \A j \in Tasks : Sound(task[j])
      /\ QueueOfWaiting
  BY DEF DetectorInv, DetectorTypeOK
<1>2. task[k].stage = "wanted" /\ task[k] \in TaskRecords /\ Sound(task[k])
  BY <1>1 DEF Ask
<1>3. CASE free > 0 /\ queue = <<>>
  <2> DEFINE t == [task[k] EXCEPT !.stage = "holding"]
  <2>1. t \in TaskRecords /\ Sound(t) /\ t.stage = "holding" /\ t.text = task[k].text
    BY <1>2, StageOnly
  <2>2. task' = [task EXCEPT ![k] = t] /\ queue' = queue /\ free' \in Nat
    BY <1>1, <1>3 DEF Ask
  <2> HIDE DEF t
  <2> QED BY <1>2, <2>1, <2>2, OwnStep
<1>4. CASE ~(free > 0 /\ queue = <<>>)
  <2> DEFINE t == [task[k] EXCEPT !.stage = "queued"]
  <2>1. t \in TaskRecords /\ Sound(t) /\ t.stage = "queued" /\ t.text = task[k].text
    BY <1>2, StageOnly
  <2>2. task' = [task EXCEPT ![k] = t] /\ queue' = Append(queue, k) /\ free' = free
    BY <1>4 DEF Ask
  <2> HIDE DEF t
  <2>3. /\ task' \in [Tasks -> TaskRecords] /\ task'[k] = t
        /\ \A j \in Tasks \ {k} : task'[j] = task[j]
    BY <1>1, <2>1, <2>2
  <2>4. /\ Len(queue) \in Nat /\ queue' \in Seq(Tasks) /\ Len(queue') = Len(queue) + 1
        /\ queue'[Len(queue) + 1] = k
        /\ \A i \in 1..Len(queue) : queue'[i] = queue[i] /\ queue[i] \in Tasks
    BY <1>1, <2>2
  <2>5. \A i \in 1..Len(queue) : queue[i] # k
    BY <1>1, <1>2 DEF QueueOfWaiting
  <2>6. QueueOfWaiting'
    <3>1. ASSUME NEW i \in 1..Len(queue) + 1 PROVE task'[queue'[i]].stage = "queued"
      <4>1. CASE i = Len(queue) + 1  BY <2>1, <2>3, <2>4, <4>1
      <4>2. CASE i \in 1..Len(queue)
        BY <1>1, <2>3, <2>4, <2>5, <4>2 DEF QueueOfWaiting
      <4> QED BY <2>4, <4>1, <4>2
    <3>2. ASSUME NEW i \in 1..Len(queue) + 1, NEW j \in 1..Len(queue) + 1, queue'[i] = queue'[j]
          PROVE  i = j
      <4>1. CASE i \in 1..Len(queue) /\ j \in 1..Len(queue)
        BY <1>1, <2>4, <3>2, <4>1 DEF QueueOfWaiting
      <4>2. CASE ~(i \in 1..Len(queue) /\ j \in 1..Len(queue))
        <5>1. i = Len(queue) + 1 \/ j = Len(queue) + 1
          BY <2>4, <4>2
        <5> QED BY <2>4, <2>5, <3>2, <5>1
      <4> QED BY <4>1, <4>2
    <3> QED BY <2>4, <3>1, <3>2 DEF QueueOfWaiting
  <2>7. TaskStep(k)
    BY <1>2, <2>1, <2>3 DEF TaskStep
  <2>8. \A j \in Tasks : Sound(task'[j])
    BY <1>1, <2>1, <2>3
  <2> QED BY <1>1, <2>2, <2>4, <2>6, <2>7, <2>8 DEF Kept
<1> QED BY <1>3, <1>4

LEMMA HitStep ==
  ASSUME DetectorInv, NEW k \in Tasks, Hit(k)
  PROVE  TaskStep(k) /\ Kept /\ WholeCache(cache')
<1> DEFINE t == task[k]
           key == CacheKey(t)
           scan == Lookup(cache, key)
<1>1. /\ t \in TaskRecords /\ Sound(t) /\ t.stage = "holding" /\ WholeCache(cache)
  BY DEF DetectorInv, DetectorTypeOK, Hit, CacheWhole, WholeCache
<1>2. /\ HasKey(cache, key) /\ cache' = PopAndSet(cache, key, scan)
      /\ Releases(k, Answered(t, scan))
  BY DEF Hit
<1> HIDE DEF t
<1>3. key \in Keys
  BY <1>1, TargetIsText
<1>4. scan \in ScanRecords /\ WholeScan(key, scan)
  BY <1>1, <1>2, CacheFinds
<1> HIDE DEF scan
<1>5. WholeCache(cache')
  <2> HIDE DEF key
  <2> QED BY <1>1, <1>2, <1>3, <1>4, CacheStores
<1> DEFINE u == Answered(t, scan)
<1>6. /\ u \in TaskRecords /\ Sound(u) /\ u.text = t.text /\ u.stage \in {"wanted", "done"}
  BY <1>1, <1>4, AnsweredByScan
<1> HIDE DEF u
<1>7. TaskStep(k) /\ Kept
  BY <1>1, <1>2, <1>6, ReleaseStep DEF u, t
<1> QED BY <1>5, <1>7

LEMMA MissStep ==
  ASSUME DetectorInv, NEW k \in Tasks, Miss(k)
  PROVE  TaskStep(k) /\ Kept
<1> DEFINE t == task[k]
           u == [t EXCEPT !.stage = "calling", !.gate = "primary", !.at = 0, !.windows = {}]
<1>1. t \in TaskRecords /\ Sound(t) /\ t.stage = "holding" /\ free \in Nat
  BY DEF DetectorInv, DetectorTypeOK, Miss
<1>2. task' = [task EXCEPT ![k] = u] /\ queue' = queue /\ free' = free
  BY DEF Miss
<1>3. t.text \in Texts
  BY <1>1 DEF Sound
<1>4. /\ u \in TaskRecords /\ u.stage = "calling" /\ u.at = 0 /\ u.text = t.text
      /\ u.carrier = t.carrier /\ u.score = t.score /\ u.scans = t.scans
  BY <1>1 DEF TaskRecords, Gates
<1> HIDE DEF u
<1>5. ReadSoFar(u)
  <2>1. Target(u) = Target(t)
    BY <1>4 DEF Target
  <2>2. Target(t) \in Texts
    BY <1>1, TargetIsText
  <2>3. Length[Target(u)] \in Nat
    BY <2>1, <2>2, DetectorAssumption
  <2> QED BY <1>4, <2>3 DEF ReadSoFar
<1>6. Sound(u)
  BY <1>1, <1>3, <1>4, <1>5 DEF Sound
<1> QED BY <1>1, <1>2, <1>4, <1>6, OwnStep DEF t

LEMMA ChunkStep ==
  ASSUME DetectorInv, NEW k \in Tasks, Chunk(k)
  PROVE  TaskStep(k) /\ Kept
<1> DEFINE t == task[k]
           u == [t EXCEPT !.windows = ScannedBy(t), !.at = NextChunk(Target(t), t.at)]
<1>1. /\ t \in TaskRecords /\ Sound(t) /\ t.stage = "calling" /\ free \in Nat
      /\ ~LastChunk(t) /\ t.at \in Nat
  BY DEF DetectorInv, DetectorTypeOK, Chunk, TaskRecords
<1>2. task' = [task EXCEPT ![k] = u] /\ queue' = queue /\ free' = free
  BY DEF Chunk
<1> HIDE DEF t
<1>3. t.text \in Texts /\ Target(t) \in Texts /\ CacheKey(t) \in Keys
  BY <1>1, TargetIsText
<1>4. /\ u.stage = "calling" /\ u.text = t.text /\ u.gate = t.gate
      /\ u.at = NextChunk(Target(t), t.at) /\ u.windows = ScannedBy(t)
      /\ u.carrier = t.carrier /\ u.score = t.score /\ u.scans = t.scans
  BY <1>1 DEF TaskRecords
<1>5. Target(u) = Target(t)
  BY <1>4 DEF Target
<1>6. ReadSoFar(t)
  BY <1>1 DEF Sound
<1>7. ReadSoFar(u) /\ u.at \in Nat
  <2> HIDE DEF u
  <2> QED BY <1>1, <1>3, <1>4, <1>5, <1>6, ReadsOn
<1>8. u \in TaskRecords
  <2>1. ScannedBy(t) \in SUBSET Windows /\ NextChunk(Target(t), t.at) \in Nat
    BY <1>1, <1>3, <1>4, <1>7, ScanTyped
  <2> QED BY <1>1, <2>1 DEF TaskRecords
<1> HIDE DEF u
<1>9. Sound(u)
  BY <1>1, <1>3, <1>4, <1>7 DEF Sound
<1> QED BY <1>1, <1>2, <1>4, <1>8, <1>9, OwnStep DEF t

LEMMA WholeStep ==
  ASSUME DetectorInv, NEW k \in Tasks, Whole(k)
  PROVE  TaskStep(k) /\ Kept /\ WholeCache(cache')
<1> DEFINE t == task[k]
           key == CacheKey(t)
           scan == Scan(t, ScannedBy(t))
<1>1. /\ t \in TaskRecords /\ Sound(t) /\ t.stage = "calling" /\ WholeCache(cache)
      /\ LastChunk(t) /\ t.at \in Nat
  BY DEF DetectorInv, DetectorTypeOK, Whole, CacheWhole, WholeCache, TaskRecords
<1>2. cache' = Stored(cache, key, scan) /\ Releases(k, Answered(t, scan))
  BY DEF Whole
<1> HIDE DEF t
<1>3. key \in Keys /\ Target(t) \in Texts
  BY <1>1, TargetIsText
<1>4. ReadSoFar(t)
  BY <1>1 DEF Sound
<1>5. scan \in ScanRecords /\ WholeScan(key, scan)
  BY <1>1, <1>3, <1>4, ReadsAll, ScanTyped
<1> HIDE DEF scan
<1>6. WholeCache(cache')
  <2> HIDE DEF key
  <2> QED BY <1>1, <1>2, <1>3, <1>5, CacheStores
<1> DEFINE u == Answered(t, scan)
<1>7. /\ u \in TaskRecords /\ Sound(u) /\ u.text = t.text /\ u.stage \in {"wanted", "done"}
  BY <1>1, <1>5, AnsweredByScan
<1> HIDE DEF u
<1>8. TaskStep(k) /\ Kept
  BY <1>1, <1>2, <1>7, ReleaseStep DEF u, t
<1> QED BY <1>6, <1>8

\* The scan is given up, or begun again against the fallback.
LEMMA GivenUpStep ==
  ASSUME DetectorInv, NEW k \in Tasks, task[k].stage = "calling",
         Releases(k, Answered(task[k], None))
  PROVE  TaskStep(k) /\ Kept
<1> DEFINE t == task[k]
           u == Answered(t, None)
<1>1. t \in TaskRecords /\ Sound(t)
  BY DEF DetectorInv, DetectorTypeOK
<1>2. u \in TaskRecords /\ Sound(u) /\ u.text = t.text /\ u.stage = "done"
  BY <1>1, AnsweredByNone
<1> HIDE DEF u
<1> QED BY <1>2, ReleaseStep DEF u

LEMMA FailoverStep ==
  ASSUME DetectorInv, NEW k \in Tasks, task[k].stage = "calling",
         task' = [task EXCEPT ![k] = OnFallback(@)], UNCHANGED <<free, queue>>
  PROVE  TaskStep(k) /\ Kept
<1> DEFINE t == task[k]
           u == OnFallback(t)
<1>1. t \in TaskRecords /\ Sound(t) /\ free \in Nat /\ task \in [Tasks -> TaskRecords]
  BY DEF DetectorInv, DetectorTypeOK
<1>2. task' = [task EXCEPT ![k] = u] /\ queue' = queue /\ free' = free
  BY <1>1
<1>3. t.text \in Texts /\ Target(t) \in Texts
  BY <1>1, TargetIsText
<1>4. /\ u \in TaskRecords /\ u.stage = "calling" /\ u.at = 0 /\ u.text = t.text
      /\ u.carrier = t.carrier /\ u.score = t.score /\ u.scans = t.scans
  BY <1>1 DEF TaskRecords, Gates, OnFallback
<1> HIDE DEF u
<1>5. ReadSoFar(u)
  <2>1. Target(u) = Target(t)
    BY <1>4 DEF Target
  <2>2. Length[Target(u)] \in Nat
    BY <1>3, <2>1, DetectorAssumption
  <2> QED BY <1>4, <2>2 DEF ReadSoFar
<1>6. Sound(u)
  BY <1>1, <1>3, <1>4, <1>5 DEF Sound
<1> QED BY <1>1, <1>2, <1>4, <1>6, OwnStep DEF t

\* Whatever a task does, it does to itself and to the first in the queue.
LEMMA FieldStepKeeps ==
  ASSUME DetectorInv, NEW k \in Tasks, FieldStep(k)
  PROVE  TaskStep(k) /\ Kept /\ WholeCache(cache') /\ UNCHANGED console
<1>0. WholeCache(cache)
  BY DEF DetectorInv, DetectorTypeOK, CacheWhole, WholeCache
<1>1. CASE Ask(k)
  BY <1>0, <1>1, AskStep DEF Ask
<1>2. CASE Hit(k)
  BY <1>2, HitStep DEF Hit
<1>3. CASE Miss(k)
  BY <1>0, <1>3, MissStep DEF Miss
<1>4. CASE Chunk(k)
  BY <1>0, <1>4, ChunkStep DEF Chunk
<1>5. CASE Whole(k)
  BY <1>5, WholeStep DEF Whole
<1>6. CASE Unreachable(k)
  <2>1. task[k].stage = "calling" /\ UNCHANGED <<cache, console>>
    BY <1>6 DEF Unreachable
  <2>2. CASE FailsOver(task[k])
    BY <1>0, <1>6, <2>1, <2>2, FailoverStep DEF Unreachable
  <2>3. CASE ~FailsOver(task[k])
    BY <1>0, <1>6, <2>1, <2>3, GivenUpStep DEF Unreachable
  <2> QED BY <2>2, <2>3
<1>7. CASE HttpFault(k)
  BY <1>0, <1>7, GivenUpStep DEF HttpFault
<1> QED BY <1>1, <1>2, <1>3, <1>4, <1>5, <1>6, <1>7 DEF FieldStep

-----------------------------------------------------------------------------
(* The console's scans *)

LEMMA ConsoleAsking ==
  ASSUME DetectorInv, NEW text \in ConsoleTexts, NEW score \in Scores, ConsoleAsks(text, score)
  PROVE  console' \in TaskRecords /\ ConsoleSound' /\ WholeCache(cache')
<1> DEFINE key == <<text, score>>
<1>1. WholeCache(cache) /\ text \in Texts /\ key \in Keys
  BY DetectorAssumption DEF DetectorInv, DetectorTypeOK, CacheWhole, WholeCache, Keys
<1>2. CASE HasKey(cache, key)
  <2> DEFINE u == [Idle EXCEPT !.stage = "done"]
  <2>1. console' = u /\ cache' = PopAndSet(cache, key, Lookup(cache, key))
    BY <1>2 DEF ConsoleAsks
  <2>2. u \in TaskRecords /\ u.stage = "done"
    BY IdleTyped DEF TaskRecords, Idle
  <2>3. Lookup(cache, key) \in ScanRecords /\ WholeScan(key, Lookup(cache, key))
    <3> HIDE DEF key
    <3> QED BY <1>1, <1>2, CacheFinds
  <2>4. WholeCache(cache')
    <3> HIDE DEF key
    <3> QED BY <1>1, <2>1, <2>3, CacheStores
  <2> HIDE DEF u
  <2> QED BY <2>1, <2>2, <2>4 DEF ConsoleSound
<1>3. CASE ~HasKey(cache, key)
  <2> DEFINE u == [Wanted(text) EXCEPT !.stage = "calling", !.score = score]
  <2>1. console' = u /\ cache' = cache
    BY <1>3 DEF ConsoleAsks
  <2>2. /\ u.text = text /\ ~u.carrier /\ u.at = 0 /\ Target(u) = text
    BY DEF Wanted, Idle, Target
  <2>3. Wanted(text) \in TaskRecords
    BY <1>1, IdleTyped
  <2>4. u \in TaskRecords
    BY <2>3 DEF TaskRecords
  <2> HIDE DEF u
  <2>5. Length[Target(u)] \in Nat
    BY <1>1, <2>2, DetectorAssumption
  <2>6. ReadSoFar(u)
    BY <2>2, <2>5 DEF ReadSoFar
  <2>7. ConsoleSound'
    <3>1. console'.text \in Texts /\ ~console'.carrier
      BY <1>1, <2>1, <2>2
    <3>2. ReadSoFar(console')
      BY <2>1, <2>6
    <3>3. ReadSoFar(console)'
      BY <3>2 DEF ReadSoFar, Target
    <3> QED BY <3>1, <3>3 DEF ConsoleSound
  <2> QED BY <1>1, <2>1, <2>4, <2>7
<1> QED BY <1>2, <1>3

LEMMA ConsoleAnswer ==
  ASSUME DetectorInv, ConsoleAnswered
  PROVE  console' \in TaskRecords /\ ConsoleSound' /\ WholeCache(cache')
<1> DEFINE t == console
<1>1. /\ WholeCache(cache) /\ t \in TaskRecords /\ t.stage = "calling"
      /\ t.text \in Texts /\ ~t.carrier /\ ReadSoFar(t) /\ t.at \in Nat
  BY DEF DetectorInv, DetectorTypeOK, CacheWhole, WholeCache, ConsoleSound, ConsoleAnswered, TaskRecords
<1>2. Target(t) = t.text /\ CacheKey(t) \in Keys
  BY <1>1 DEF Target, CacheKey, Keys, TaskRecords
<1>3. CASE LastChunk(t)
  <2> DEFINE u == [Idle EXCEPT !.stage = "done"]
             scan == Scan(t, ScannedBy(t))
             key == CacheKey(t)
  <2>1. console' = u /\ cache' = Stored(cache, key, scan)
    BY <1>3 DEF ConsoleAnswered
  <2>2. u \in TaskRecords /\ u.stage = "done"
    BY IdleTyped DEF TaskRecords, Idle
  <2>3. scan \in ScanRecords /\ WholeScan(key, scan) /\ key \in Keys
    <3> HIDE DEF t
    <3> QED BY <1>1, <1>2, <1>3, ReadsAll, ScanTyped
  <2> HIDE DEF u, scan, key
  <2>4. WholeCache(cache')
    BY <1>1, <2>1, <2>3, CacheStores
  <2> QED BY <2>1, <2>2, <2>4 DEF ConsoleSound
<1>4. CASE ~LastChunk(t)
  <2> DEFINE u == [t EXCEPT !.windows = ScannedBy(t), !.at = NextChunk(t.text, t.at)]
  <2>1. console' = u /\ cache' = cache
    BY <1>4 DEF ConsoleAnswered
  <2> HIDE DEF t
  <2>2. /\ u.text = t.text /\ u.carrier = t.carrier /\ u.gate = t.gate
        /\ u.windows = ScannedBy(t) /\ u.at = NextChunk(Target(t), t.at)
    BY <1>1, <1>2 DEF TaskRecords
  <2>3. Target(u) = Target(t)
    BY <2>2 DEF Target
  <2>4. ReadSoFar(u) /\ u.at \in Nat
    <3> HIDE DEF u
    <3> QED BY <1>1, <1>2, <1>4, <2>2, <2>3, ReadsOn
  <2>5. u \in TaskRecords
    <3>1. ScannedBy(t) \in SUBSET Windows /\ NextChunk(t.text, t.at) \in Nat
      BY <1>1, <1>2, <2>2, <2>4, ScanTyped
    <3> QED BY <1>1, <3>1 DEF TaskRecords
  <2> HIDE DEF u
  <2>6. ReadSoFar(console)'
    BY <2>1, <2>4 DEF ReadSoFar, Target
  <2>7. ConsoleSound'
    BY <1>1, <2>1, <2>2, <2>6 DEF ConsoleSound
  <2> QED BY <1>1, <2>1, <2>5, <2>7
<1> QED BY <1>3, <1>4

LEMMA ConsoleFailing ==
  ASSUME DetectorInv, ConsoleFails
  PROVE  console' \in TaskRecords /\ ConsoleSound' /\ WholeCache(cache')
<1> DEFINE t == console
<1>1. /\ WholeCache(cache) /\ t \in TaskRecords /\ t.stage = "calling"
      /\ t.text \in Texts /\ ~t.carrier /\ cache' = cache
  BY DEF DetectorInv, DetectorTypeOK, CacheWhole, WholeCache, ConsoleSound, ConsoleFails
<1>2. CASE FailsOver(t)
  <2> DEFINE u == OnFallback(t)
  <2>1. console' = u
    BY <1>2 DEF ConsoleFails
  <2> HIDE DEF t
  <2>2. /\ u \in TaskRecords /\ u.at = 0 /\ u.text = t.text /\ u.carrier = t.carrier
    BY <1>1 DEF OnFallback, TaskRecords, Gates
  <2> HIDE DEF u
  <2>3. Length[Target(u)] \in Nat
    BY <1>1, <2>2, DetectorAssumption DEF Target
  <2>4. ReadSoFar(u)
    BY <2>2, <2>3 DEF ReadSoFar
  <2>5. ReadSoFar(console)'
    BY <2>1, <2>4 DEF ReadSoFar, Target
  <2> QED BY <1>1, <2>1, <2>2, <2>5 DEF ConsoleSound
<1>3. CASE ~FailsOver(t)
  <2>1. console' = [Idle EXCEPT !.stage = "done"]
    BY <1>3 DEF ConsoleFails
  <2>2. console' \in TaskRecords /\ console'.stage = "done"
    BY <2>1, IdleTyped DEF TaskRecords, Idle
  <2> QED BY <1>1, <2>2 DEF ConsoleSound
<1> QED BY <1>2, <1>3


LEMMA ConsoleKeeps ==
  ASSUME DetectorInv, Console
  PROVE  DetectorInv' /\ UNCHANGED <<task, request>>
<1>1. /\ console' \in TaskRecords /\ ConsoleSound' /\ WholeCache(cache')
      /\ UNCHANGED <<task, free, queue>>
  <2>1. CASE \E text \in ConsoleTexts, score \in Scores : ConsoleAsks(text, score)
    BY <2>1, ConsoleAsking DEF ConsoleAsks
  <2>2. CASE ConsoleAnswered
    BY <2>2, ConsoleAnswer DEF ConsoleAnswered
  <2>3. CASE ConsoleFails
    BY <2>3, ConsoleFailing DEF ConsoleFails
  <2> QED BY <2>1, <2>2, <2>3 DEF Console
<1>2. /\ task' = task /\ task \in [Tasks -> TaskRecords] /\ queue' = queue /\ free' = free
      /\ \A k \in Tasks : Sound(task[k])
  BY <1>1 DEF DetectorInv, DetectorTypeOK
<1>3. DetectorTypeOK' /\ CacheWhole'
  BY <1>1 DEF DetectorInv, DetectorTypeOK, WholeCache, CacheWhole
<1>4. \A k \in Tasks : Sound(task'[k])
  BY <1>2
<1>5. QueueOfWaiting'
  BY <1>2 DEF DetectorInv, QueueOfWaiting
<1> QED BY <1>1, <1>3, <1>4, <1>5 DEF DetectorInv, Console

LEMMA ScanStepInv ==
  ASSUME DetectorInv, NEW k \in Tasks, FieldStep(k)
  PROVE  DetectorInv' /\ TaskStep(k)
<1>1. TaskStep(k) /\ Kept /\ WholeCache(cache') /\ console' = console
  BY FieldStepKeeps
<1>2. ConsoleSound'
  BY <1>1 DEF DetectorInv, ConsoleSound, ReadSoFar, Target
<1>3. DetectorTypeOK' /\ CacheWhole'
  BY <1>1 DEF DetectorInv, DetectorTypeOK, WholeCache, CacheWhole, Kept, TaskStep
<1> QED BY <1>1, <1>2, <1>3 DEF DetectorInv, Kept
-----------------------------------------------------------------------------
(* The requests *)

\* What a step of the request r leaves to the others.
Own(r) ==
  \A q \in Requests \ {r} :
    /\ stage'[q] = stage[q] /\ body'[q] = body[q] /\ conn'[q] = conn[q]
    /\ replay'[q] = replay[q] /\ feed'[q] = feed[q]
    /\ q \in forwarded' <=> q \in forwarded
    /\ \A p \in Places : task'[<<q, p>>] = task[<<q, p>>]

LEMMA ProceedsOwn ==
  ASSUME RequestTypeOK, NEW r \in Requests, NEW b \in Bodies[r], NEW d \in BOOLEAN, NEW m \in BOOLEAN,
         Proceeds(r, b, d, m),
         body' = [body EXCEPT ![r] = b] \/ body' = body, known' \in BOOLEAN,
         \A q \in Requests \ {r} : \A p \in Places : task'[<<q, p>>] = task[<<q, p>>]
  PROVE  RequestTypeOK' /\ Own(r)
<1>1. body' \in [Requests -> (UNION {Bodies[q] : q \in Requests}) \cup {None}]
  <2>1. b \in UNION {Bodies[q] : q \in Requests}
    BY Zenon
  <2> DEFINE B == UNION {Bodies[q] : q \in Requests}
  <2>2. b \in B /\ body \in [Requests -> B \cup {None}]
    BY <2>1 DEF RequestTypeOK
  <2> HIDE DEF B
  <2>3. body' \in [Requests -> B \cup {None}]
    BY <2>2
  <2> QED BY <2>3, Zenon DEF B
<1>2. feed' \in [Requests -> Seq({"request", "response", "withheld"})]
      /\ \A q \in Requests \ {r} : feed'[q] = feed[q]
  BY DEF RequestTypeOK, Proceeds
<1>3. replay' \in [Requests -> BOOLEAN] /\ \A q \in Requests \ {r} : replay'[q] = replay[q]
  <2>1. (m /\ b.route.restores) \in BOOLEAN
    OBVIOUS
  <2> QED BY <2>1 DEF RequestTypeOK, Proceeds
<1>4. /\ stage' \in [Requests -> {"new", "scanning", "sent", "opened", "abandoned", "streaming", "left", "over"}]
      /\ answer' \in [Requests -> {None, "413", "400", "redaction_failed", "pii_gate_unavailable", "dryrun",
                                    "error", "restored", "verbatim", "stream"}]
      /\ \A q \in Requests \ {r} : stage'[q] = stage[q]
  BY ZenonT(60) DEF RequestTypeOK, Proceeds, Answers
<1>5. /\ conn' \in [Requests -> {"none", "open", "closed"}] /\ forwarded' \subseteq Requests
      /\ \A q \in Requests \ {r} : conn'[q] = conn[q] /\ (q \in forwarded' <=> q \in forwarded)
  BY DEF RequestTypeOK, Proceeds
<1>6. \A q \in Requests \ {r} : body'[q] = body[q]
  BY DEF RequestTypeOK
<1> QED BY <1>1, <1>2, <1>3, <1>4, <1>5, <1>6 DEF RequestTypeOK, Own


\* What ends or goes on with the request r: all but its body may change.
LEMMA MovesOwn ==
  ASSUME RequestTypeOK, NEW r \in Requests,
         NEW s \in {"scanning", "sent", "opened", "abandoned", "streaming", "left", "over"},
         NEW c \in {"none", "open", "closed"},
         NEW e \in Seq({"request", "response", "withheld"}),
         stage' = [stage EXCEPT ![r] = s],
         body' = body \/ \E b \in Bodies[r] : body' = [body EXCEPT ![r] = b],
         answer' = answer
           \/ \E a \in {"413", "400", "redaction_failed", "error", "restored", "verbatim", "stream"} :
                answer' = [answer EXCEPT ![r] = a],
         conn' = [conn EXCEPT ![r] = c], feed' = [feed EXCEPT ![r] = e],
         UNCHANGED <<known, replay, forwarded>>,
         \A q \in Requests \ {r} : \A p \in Places : task'[<<q, p>>] = task[<<q, p>>]
  PROVE  RequestTypeOK' /\ Own(r)
<1> DEFINE B == UNION {Bodies[q] : q \in Requests}
<1>1. body' \in [Requests -> B \cup {None}] /\ \A q \in Requests \ {r} : body'[q] = body[q]
  <2>1. \A b \in Bodies[r] : b \in B
    BY Zenon
  <2>2. body \in [Requests -> B \cup {None}]
    BY DEF RequestTypeOK
  <2> HIDE DEF B
  <2> QED BY <2>1, <2>2
<1>2. feed' \in [Requests -> Seq({"request", "response", "withheld"})]
      /\ \A q \in Requests \ {r} : feed'[q] = feed[q]
  BY DEF RequestTypeOK
<1>3. /\ stage' \in [Requests -> {"new", "scanning", "sent", "opened", "abandoned", "streaming", "left", "over"}]
      /\ \A q \in Requests \ {r} : stage'[q] = stage[q]
  BY DEF RequestTypeOK
<1>4. answer' \in [Requests -> {None, "413", "400", "redaction_failed", "pii_gate_unavailable", "dryrun",
                                "error", "restored", "verbatim", "stream"}]
  BY DEF RequestTypeOK
<1>5. /\ conn' \in [Requests -> {"none", "open", "closed"}]
      /\ \A q \in Requests \ {r} : conn'[q] = conn[q]
  BY DEF RequestTypeOK
<1>6. known' \in BOOLEAN /\ replay' \in [Requests -> BOOLEAN] /\ forwarded' \subseteq Requests
  BY DEF RequestTypeOK
<1>7. RequestTypeOK'
  BY <1>1, <1>2, <1>3, <1>4, <1>5, <1>6 DEF RequestTypeOK
<1> QED BY <1>1, <1>2, <1>3, <1>5, <1>7 DEF Own

\* The events reported are events of the feed.
LEMMA ReportsTyped ==
  ASSUME RequestTypeOK, NEW r \in Requests,
         NEW e \in {<<>>, <<"response">>, <<"withheld">>, <<"response", "withheld">>}
  PROVE  feed[r] \o e \in Seq({"request", "response", "withheld"})
<1>1. feed[r] \in Seq({"request", "response", "withheld"})
  BY DEF RequestTypeOK
<1>2. e \in Seq({"request", "response", "withheld"})
  <2>1. <<>> \in Seq({"request", "response", "withheld"})
    OBVIOUS
  <2>2. <<"response">> \in Seq({"request", "response", "withheld"})
    OBVIOUS
  <2>3. <<"withheld">> \in Seq({"request", "response", "withheld"})
    OBVIOUS
  <2>4. <<"response", "withheld">> \in Seq({"request", "response", "withheld"})
    OBVIOUS
  <2> QED BY <2>1, <2>2, <2>3, <2>4
<1> QED BY <1>1, <1>2

LEMMA RedactsOwn ==
  ASSUME RequestTypeOK, NEW r \in Requests, body[r] \in Bodies[r], Redacts(r)
  PROVE  RequestTypeOK' /\ Own(r)
<1>1. /\ known' \in BOOLEAN /\ task' = task /\ body' = body
  BY DEF Redacts, RequestTypeOK, detector
<1>2. Proceeds(r, body[r], Degraded(r), known')
  BY DEF Redacts
<1>3. Degraded(r) \in BOOLEAN
  BY DEF Degraded
<1> QED BY <1>1, <1>2, <1>3, ProceedsOwn

LEMMA ArrivalOwn ==
  ASSUME RequestTypeOK, NEW r \in Requests, NEW b \in Bodies[r], Arrival(r, b)
  PROVE  RequestTypeOK' /\ Own(r)
<1>0. /\ conn = [conn EXCEPT ![r] = conn[r]] /\ feed = [feed EXCEPT ![r] = feed[r]]
      /\ conn[r] \in {"none", "open", "closed"}
      /\ feed[r] \in Seq({"request", "response", "withheld"})
      /\ known \in BOOLEAN
  BY DEF RequestTypeOK
<1>1. CASE Rejects(r, b)
  <2>1. /\ task' = task /\ conn' = conn /\ feed' = feed /\ UNCHANGED <<known, replay, forwarded>>
        /\ body' = [body EXCEPT ![r] = b] /\ stage' = [stage EXCEPT ![r] = "over"]
    BY <1>1 DEF Rejects, Answers, detector
  <2>2. \E a \in {"413", "400"} : answer' = [answer EXCEPT ![r] = a]
    BY <1>1 DEF Rejects, Answers
  <2> QED BY <1>0, <2>1, <2>2, MovesOwn
<1>2. CASE Bootstrap(r, b)
  BY <1>0, <1>2, ProceedsOwn DEF Bootstrap, detector
<1>3. CASE Refuses(r, b)
  BY <1>0, <1>3, MovesOwn DEF Refuses, Accepts, Answers, detector
<1>4. CASE Scans(r, b)
  <2>1. \A q \in Requests \ {r} : \A p \in Places : task'[<<q, p>>] = task[<<q, p>>]
    BY <1>4 DEF Scans, Tasks
  <2>2. /\ answer' = answer /\ conn' = conn /\ feed' = feed /\ UNCHANGED <<known, replay, forwarded>>
        /\ body' = [body EXCEPT ![r] = b] /\ stage' = [stage EXCEPT ![r] = "scanning"]
    BY <1>4 DEF Scans, Accepts
  <2> QED BY <1>0, <2>1, <2>2, MovesOwn
<1>5. CASE Sweeps(r, b)
  BY <1>0, <1>5, MovesOwn DEF Sweeps, Accepts, detector
<1>6. CASE Skips(r, b)
  <2>1. CASE b.hidden
    BY <1>0, <1>6, <2>1, MovesOwn, ZenonT(60) DEF Skips, Accepts, Answers, detector
  <2>2. CASE ~b.hidden
    BY <1>0, <1>6, <2>2, ProceedsOwn DEF Skips, Accepts, detector
  <2> QED BY <2>1, <2>2
<1> QED BY <1>1, <1>2, <1>3, <1>4, <1>5, <1>6 DEF Arrival


LEMMA AnswerOwn ==
  ASSUME RequestTypeOK, NEW r \in Requests, RedactionFails(r) \/ Upstream(r) \/ Client(r)
  PROVE  RequestTypeOK' /\ Own(r)
<1> DEFINE E == {<<>>, <<"response">>, <<"withheld">>, <<"response", "withheld">>}
<1>0. /\ conn = [conn EXCEPT ![r] = conn[r]] /\ feed = [feed EXCEPT ![r] = feed[r]]
      /\ conn[r] \in {"none", "open", "closed"}
      /\ feed[r] \in Seq({"request", "response", "withheld"})
      /\ \A e \in E : feed[r] \o e \in Seq({"request", "response", "withheld"})
      /\ AnswerEvents(r) \subseteq E
      /\ \A e \in E : Reports(r, e) => feed' = [feed EXCEPT ![r] = feed[r] \o e]
  <2>1. /\ conn = [conn EXCEPT ![r] = conn[r]] /\ feed = [feed EXCEPT ![r] = feed[r]]
        /\ conn[r] \in {"none", "open", "closed"}
        /\ feed[r] \in Seq({"request", "response", "withheld"})
    BY DEF RequestTypeOK
  <2>2. AnswerEvents(r) \subseteq E
    BY DEF AnswerEvents
  <2>3. \A e \in E : feed[r] \o e \in Seq({"request", "response", "withheld"})
    BY ReportsTyped
  <2>4. \A e \in E : Reports(r, e) => feed' = [feed EXCEPT ![r] = feed[r] \o e]
    BY DEF Reports, RequestTypeOK
  <2> HIDE DEF E
  <2> QED BY <2>1, <2>2, <2>3, <2>4
<1>1. ASSUME UNCHANGED <<known, replay, forwarded>>, task' = task, body' = body,
             conn' = conn \/ Closes(r),
             feed' = feed \/ \E e \in E : Reports(r, e),
             \E s \in {"opened", "abandoned", "streaming", "left", "over"} :
               stage' = [stage EXCEPT ![r] = s],
             answer' = answer \/ \E a \in {"redaction_failed", "error", "restored", "verbatim", "stream"} :
               answer' = [answer EXCEPT ![r] = a]
      PROVE  RequestTypeOK' /\ Own(r)
  <2>1. PICK c \in {"none", "open", "closed"} : conn' = [conn EXCEPT ![r] = c]
    BY <1>0, <1>1 DEF Closes
  <2>2. PICK f \in Seq({"request", "response", "withheld"}) : feed' = [feed EXCEPT ![r] = f]
    <3> HIDE DEF E
    <3> QED BY <1>0, <1>1
  <2> HIDE DEF E
  <2> QED BY <1>1, <2>1, <2>2, MovesOwn, ZenonT(60)
<1>2. <<>> \in E /\ <<"response">> \in E /\ <<"withheld">> \in E
  OBVIOUS
<1> HIDE DEF E
<1>3. CASE RedactionFails(r)
  BY <1>1, <1>3 DEF RedactionFails, Answers, detector
<1>4. CASE UpstreamFails(r)
  BY <1>1, <1>4 DEF UpstreamFails, Answers, detector
<1>5. CASE WholeAnswer(r)
  <2>1. \E e \in E : Reports(r, e)
    BY <1>0, <1>5 DEF WholeAnswer
  <2> QED BY <1>1, <1>5, <2>1 DEF WholeAnswer, Answers, detector
<1>6. CASE Opens(r)
  BY <1>1, <1>6 DEF Opens, detector
<1>7. CASE Starts(r)
  BY <1>1, <1>7 DEF Starts, detector
<1>8. CASE LeftBefore(r)
  BY <1>1, <1>8 DEF LeftBefore, detector
<1>9. CASE Drained(r)
  <2>1. \E e \in E : Reports(r, e)
    BY <1>0, <1>9 DEF Drained
  <2> QED BY <1>1, <1>9, <2>1 DEF Drained, detector
<1>10. CASE Leaves(r)
  <2>1. \E e \in E : Reports(r, e)
    BY <1>2, <1>10 DEF Leaves
  <2> QED BY <1>1, <1>10, <2>1 DEF Leaves, detector
<1>11. CASE Collected(r)
  <2>1. \E e \in E : Reports(r, e)
    BY <1>2, <1>11 DEF Collected
  <2> QED BY <1>1, <1>11, <2>1 DEF Collected, detector
<1> QED BY <1>3, <1>4, <1>5, <1>6, <1>7, <1>8, <1>9, <1>10, <1>11 DEF Upstream, Client

-----------------------------------------------------------------------------
(* What is forwarded was scanned *)

LEMMA OthersScans ==
  ASSUME NEW r \in Requests, Own(r), NEW q \in Requests \ {r}, ScansFor(q)
  PROVE  ScansFor(q)'
BY DEF Own, ScansFor

\* The step of a task spoils no request's scans.
LEMMA TaskStepScans ==
  ASSUME DetectorInv, NEW k \in Tasks, TaskStep(k), UNCHANGED request,
         NEW r \in Requests, ScansFor(r)
  PROVE  ScansFor(r)'
<1>1. /\ stage' = stage /\ body' = body /\ forwarded' = forwarded
  BY DEF request
<1>2. ASSUME NEW p \in Places
      PROVE  /\ task[<<r, p>>].stage \in {"none", "done"} => task'[<<r, p>>] = task[<<r, p>>]
             /\ task[<<r, p>>].stage # "none" =>
                  task'[<<r, p>>].stage # "none" /\ task'[<<r, p>>].text = task[<<r, p>>].text
  <2> DEFINE j == <<r, p>>
  <2>1. j \in Tasks
    BY DEF Tasks
  <2>2. task[j] \in TaskRecords
    BY <2>1 DEF DetectorInv, DetectorTypeOK
  <2> HIDE DEF j
  <2>3. \/ task[j].stage \notin {"none", "done"} /\ task'[j].stage # "none" /\ task'[j].text = task[j].text
        \/ task'[j] = task[j]
        \/ task[j].stage = "queued" /\ task'[j] = [task[j] EXCEPT !.stage = "holding"]
    BY <2>1 DEF TaskStep
  <2>4. ASSUME task'[j] = [task[j] EXCEPT !.stage = "holding"]
        PROVE  task'[j].stage = "holding" /\ task'[j].text = task[j].text
    BY <2>2, <2>4 DEF TaskRecords
  <2>5. task[j].stage \in {"none", "done"} => task'[j] = task[j]
    BY <2>3
  <2>6. task[j].stage # "none" => task'[j].stage # "none" /\ task'[j].text = task[j].text
    BY <2>3, <2>4
  <2> QED BY <2>5, <2>6 DEF j
<1>3. stage[r] = "new" => \A p \in Places : task'[<<r, p>>].stage = "none"
  BY <1>2 DEF ScansFor
<1>4. stage[r] = "scanning" =>
        \A p \in Places : body[r].fields[p] # None =>
          task'[<<r, p>>].stage # "none" /\ task'[<<r, p>>].text = body[r].fields[p]
  BY <1>2 DEF ScansFor
<1>5. FailClosed /\ r \in forwarded /\ body[r].route.reads =>
        \A p \in Places : body[r].fields[p] # None =>
          task'[<<r, p>>].stage = "done" /\ ScannedWhole(task'[<<r, p>>].scans, body[r].fields[p])
  BY <1>2 DEF ScansFor
<1> QED BY <1>1, <1>3, <1>4, <1>5 DEF ScansFor

\* A request that was not forwarded with this step.
LEMMA MineUnsent ==
  ASSUME RequestTypeOK, NEW r \in Requests, ScansFor(r), forwarded' = forwarded,
         stage'[r] \notin {"new", "scanning"}, body'[r] \in Bodies[r],
         r \notin forwarded \/ (body' = body /\ task' = task)
  PROVE  ScansFor(r)'
BY DEF ScansFor

\* One that was: its fields are scanned, or none of them has text, or no body
\* is redacted on its route.
LEMMA MineSent ==
  ASSUME RequestTypeOK, NEW r \in Requests, ScansFor(r), stage[r] \in {"new", "scanning"},
         NEW b \in Bodies[r], body'[r] = b, NEW d, NEW m, Proceeds(r, b, d, m),
         FailClosed /\ ~d /\ b.route.reads =>
           \A p \in Places : b.fields[p] # None =>
             task'[<<r, p>>].stage = "done" /\ ScannedWhole(task'[<<r, p>>].scans, b.fields[p])
  PROVE  ScansFor(r)'
<1>1. stage'[r] \in {"sent", "over"}
  BY DEF Proceeds, Answers, RequestTypeOK
<1>2. r \notin forwarded
  BY DEF ScansFor
<1>3. r \in forwarded' => ~(DryRun /\ b.route.reads) /\ ~(FailClosed /\ d)
  BY <1>2 DEF Proceeds
<1> QED BY <1>1, <1>3 DEF ScansFor

LEMMA ArrivalScans ==
  ASSUME RequestTypeOK, NEW r \in Requests, NEW b \in Bodies[r], Arrival(r, b), ScansFor(r)
  PROVE  ScansFor(r)'
<1>0. stage[r] = "new" /\ body'[r] = b /\ r \notin forwarded
  BY DEF Arrival, Rejects, Bootstrap, Refuses, Scans, Sweeps, Skips, Accepts, RequestTypeOK, ScansFor
<1>1. ASSUME stage' = [stage EXCEPT ![r] = "over"], forwarded' = forwarded
      PROVE  ScansFor(r)'
  BY <1>0, <1>1, MineUnsent DEF RequestTypeOK
<1>2. ASSUME Proceeds(r, b, FALSE, FALSE), ~b.route.reads \/ ~Scannable(b)
      PROVE  ScansFor(r)'
  BY <1>0, <1>2, MineSent DEF Scannable
<1>3. CASE Rejects(r, b)
  BY <1>1, <1>3 DEF Rejects, Answers
<1>4. CASE Bootstrap(r, b)
  BY <1>2, <1>4 DEF Bootstrap
<1>5. CASE Refuses(r, b)
  BY <1>1, <1>5 DEF Refuses, Answers
<1>6. CASE Scans(r, b)
  <2>1. stage'[r] = "scanning" /\ forwarded' = forwarded
    BY <1>6 DEF Scans, RequestTypeOK
  <2>2. ASSUME NEW p \in Places, b.fields[p] # None
        PROVE  task'[<<r, p>>] = Wanted(b.fields[p])
    BY <1>6, <2>2 DEF Scans, Tasks
  <2>3. \A text : Wanted(text).stage = "wanted" /\ Wanted(text).text = text
    BY DEF Wanted, Idle
  <2> QED BY <1>0, <2>1, <2>2, <2>3 DEF ScansFor
<1>7. CASE Sweeps(r, b)
  <2>1. stage'[r] = "scanning" /\ forwarded' = forwarded /\ \A p \in Places : b.fields[p] = None
    BY <1>7 DEF Sweeps, Accepts, Scannable, RequestTypeOK
  <2> QED BY <1>0, <2>1 DEF ScansFor
<1>8. CASE Skips(r, b)
  BY <1>1, <1>2, <1>8 DEF Skips, Answers, Accepts
<1> QED BY <1>3, <1>4, <1>5, <1>6, <1>7, <1>8 DEF Arrival

\* A request is redacted when all its fields are scanned; none is degraded.
LEMMA RedactsScans ==
  ASSUME RequestTypeOK, DetectorInv, NEW r \in Requests, Redacts(r), ScansFor(r)
  PROVE  ScansFor(r)'
<1> DEFINE b == body[r]
<1>1. /\ stage[r] = "scanning" /\ b \in Bodies[r] /\ body'[r] = b /\ task' = task
      /\ Proceeds(r, b, Degraded(r), known')
      /\ \A p \in Places : task[<<r, p>>].stage \in {"none", "done"}
  BY DEF Redacts, Scanned, ScansFor, detector
<1>2. ASSUME ~Degraded(r), NEW p \in Places, b.fields[p] # None
      PROVE  task[<<r, p>>].stage = "done" /\ ScannedWhole(task[<<r, p>>].scans, b.fields[p])
  <2> DEFINE t == task[<<r, p>>]
  <2>1. t.stage = "done" /\ t.text = b.fields[p]
    BY <1>1, <1>2 DEF ScansFor
  <2>2. ~t.degraded
    BY <1>2 DEF Degraded
  <2>3. Sound(t)
    BY DEF DetectorInv, Tasks
  <2> HIDE DEF t, b
  <2>4. ScannedWhole(t.scans, t.text)
    BY <1>2, <2>1, <2>2, <2>3 DEF Sound
  <2> QED BY <2>1, <2>4 DEF t
<1> HIDE DEF b
<1> QED BY <1>1, <1>2, MineSent

LEMMA AnswerScans ==
  ASSUME RequestTypeOK, NEW r \in Requests, RedactionFails(r) \/ Upstream(r) \/ Client(r), ScansFor(r)
  PROVE  ScansFor(r)' /\ task' = task
<1>1. /\ stage[r] # "new" /\ body' = body /\ task' = task /\ forwarded' = forwarded
      /\ stage'[r] \notin {"new", "scanning"}
  BY DEF RedactionFails, Scanned, Upstream, Client, UpstreamFails, WholeAnswer, Opens, Starts, LeftBefore,
         Drained, Leaves, Collected, Answers, RequestTypeOK, detector
<1>2. body'[r] \in Bodies[r]
  BY <1>1 DEF ScansFor
<1> QED BY <1>1, <1>2, MineUnsent

\* A request that arrives adds tasks that nobody waits for.
LEMMA ArrivalDetector ==
  ASSUME DetectorInv, NEW r \in Requests, NEW b \in Bodies[r], Scans(r, b), ScansFor(r)
  PROVE  DetectorInv'
<1>1. /\ task \in [Tasks -> TaskRecords] /\ queue \in Seq(Tasks) /\ queue' = queue
      /\ free' = free /\ cache' = cache /\ console' = console
      /\ \A k \in Tasks : Sound(task[k])
  BY DEF DetectorInv, DetectorTypeOK, Scans
<1>2. ASSUME NEW k \in Tasks
      PROVE  /\ task'[k] \in TaskRecords /\ Sound(task'[k])
             /\ task[k].stage = "queued" => task'[k] = task[k]
  <2>1. PICK q \in Requests, p \in Places : k = <<q, p>>
    BY DEF Tasks
  <2>2. CASE q = r /\ b.fields[p] # None
    <3>1. task'[k] = Wanted(b.fields[p])
      BY <2>1, <2>2 DEF Scans
    <3>2. b.fields[p] \in Texts
      BY <2>2, BodyAssumption
    <3>3. task[k].stage = "none"
      BY <2>1, <2>2 DEF ScansFor, Scans, Accepts
    <3> QED BY <3>1, <3>2, <3>3, IdleTyped
  <2>3. CASE ~(q = r /\ b.fields[p] # None)
    BY <1>1, <2>1, <2>3 DEF Scans
  <2> QED BY <2>2, <2>3
<1>3. task' \in [Tasks -> TaskRecords]
  <2>1. task' = [k \in Tasks |-> task'[k]]
    BY DEF Scans
  <2> QED BY <1>2, <2>1
<1>4. QueueOfWaiting'
  <2>1. \A i \in 1..Len(queue) : queue[i] \in Tasks
    BY <1>1
  <2> QED BY <1>1, <1>2, <2>1 DEF DetectorInv, QueueOfWaiting
<1>5. DetectorTypeOK' /\ CacheWhole' /\ ConsoleSound'
  BY <1>1, <1>3 DEF DetectorInv, DetectorTypeOK, CacheWhole, ConsoleSound, ReadSoFar, Target
<1> QED BY <1>2, <1>4, <1>5 DEF DetectorInv

LEMMA DetectorUnchanged ==
  ASSUME DetectorInv, UNCHANGED detector
  PROVE  DetectorInv'
BY DEF detector, DetectorInv, DetectorTypeOK, CacheWhole, ConsoleSound, ReadSoFar, Target, QueueOfWaiting

-----------------------------------------------------------------------------
LEMMA InitInv == Init => IInv
<1> SUFFICES ASSUME Init PROVE IInv
  OBVIOUS
<1>1. /\ task \in [Tasks -> TaskRecords] /\ \A k \in Tasks : task[k] = Idle /\ Sound(task[k])
      /\ console \in TaskRecords /\ console.stage = "none"
  BY IdleTyped DEF Init, Idle
<1>2. free \in Nat /\ queue \in Seq(Tasks)
  BY DetectorAssumption DEF Init
<1>3. cache \in Dict(Keys, ScanRecords) /\ Items(cache) = {}
  BY DEF Init, Dict, Items
<1>4. QueueOfWaiting
  BY DEF Init, QueueOfWaiting
<1>5. DetectorInv
  BY <1>1, <1>2, <1>3, <1>4 DEF DetectorInv, DetectorTypeOK, ConsoleSound, CacheWhole
<1>6. <<>> \in Seq({"request", "response", "withheld"})
  OBVIOUS
<1>7. RequestTypeOK
  BY <1>6 DEF Init, RequestTypeOK
<1>8. \A r \in Requests : ScansFor(r)
  BY <1>1 DEF Init, ScansFor, Tasks, Idle
<1> QED BY <1>5, <1>7, <1>8 DEF IInv, TypeOK, DetectorInv

\* A step of one request.
RequestStep(r) ==
  (\E b \in Bodies[r] : Arrival(r, b)) \/ Redaction(r) \/ Upstream(r) \/ Client(r)

LEMMA RequestStepInv ==
  ASSUME IInv, NEW r \in Requests, RequestStep(r)
  PROVE  IInv' /\ Own(r)
<1>1. RequestTypeOK /\ DetectorInv /\ \A q \in Requests : ScansFor(q)
  BY DEF IInv, TypeOK
<1>2. CASE \E b \in Bodies[r] : Arrival(r, b)
  <2>1. PICK b \in Bodies[r] : Arrival(r, b)
    BY <1>2
  <2>2. RequestTypeOK' /\ Own(r) /\ ScansFor(r)'
    BY <1>1, <2>1, ArrivalOwn, ArrivalScans
  <2>3. DetectorInv'
    BY <1>1, <2>1, ArrivalDetector, DetectorUnchanged
       DEF Arrival, Rejects, Bootstrap, Refuses, Sweeps, Skips
  <2>4. \A q \in Requests : ScansFor(q)'
    BY <1>1, <2>2, OthersScans
  <2> QED BY <2>2, <2>3, <2>4 DEF IInv, TypeOK, DetectorInv
<1>3. CASE Redacts(r)
  <2>1. body[r] \in Bodies[r]
    BY <1>1, <1>3 DEF ScansFor, Redacts, Scanned
  <2>2. RequestTypeOK' /\ Own(r) /\ ScansFor(r)'
    BY <1>1, <1>3, <2>1, RedactsOwn, RedactsScans
  <2>3. DetectorInv'
    BY <1>1, <1>3, DetectorUnchanged DEF Redacts
  <2>4. \A q \in Requests : ScansFor(q)'
    BY <1>1, <2>2, OthersScans
  <2> QED BY <2>2, <2>3, <2>4 DEF IInv, TypeOK, DetectorInv
<1>4. CASE RedactionFails(r) \/ Upstream(r) \/ Client(r)
  <2>1. RequestTypeOK' /\ Own(r) /\ ScansFor(r)'
    BY <1>1, <1>4, AnswerOwn, AnswerScans
  <2>2. DetectorInv'
    BY <1>1, <1>4, DetectorUnchanged
       DEF RedactionFails, Upstream, Client, UpstreamFails, WholeAnswer, Opens, Starts, LeftBefore,
           Drained, Leaves, Collected
  <2>3. \A q \in Requests : ScansFor(q)'
    BY <1>1, <2>1, OthersScans
  <2> QED BY <2>1, <2>2, <2>3 DEF IInv, TypeOK, DetectorInv
<1> QED BY <1>2, <1>3, <1>4 DEF RequestStep, Redaction

LEMMA NextInv == IInv /\ [Next]_vars => IInv'
<1> SUFFICES ASSUME IInv, [Next]_vars PROVE IInv'
  OBVIOUS
<1>1. RequestTypeOK /\ DetectorInv /\ \A q \in Requests : ScansFor(q)
  BY DEF IInv, TypeOK
<1>2. UNCHANGED request => RequestTypeOK'
  BY <1>1 DEF request, RequestTypeOK
<1>3. ASSUME NEW k \in Tasks, ScanStep(k) PROVE IInv'
  <2>1. DetectorInv' /\ TaskStep(k) /\ UNCHANGED request
    BY <1>1, <1>3, ScanStepInv DEF ScanStep
  <2>2. \A q \in Requests : ScansFor(q)'
    BY <1>1, <2>1, TaskStepScans
  <2> QED BY <1>2, <2>1, <2>2 DEF IInv, TypeOK, DetectorInv
<1>4. CASE Console
  <2>1. DetectorInv' /\ UNCHANGED <<task, request>>
    BY <1>1, <1>4, ConsoleKeeps
  <2>2. \A q \in Requests : ScansFor(q)'
    BY <1>1, <2>1 DEF ScansFor, request
  <2> QED BY <1>2, <2>1, <2>2 DEF IInv, TypeOK, DetectorInv
<1>5. ASSUME NEW r \in Requests, RequestStep(r) PROVE IInv'
  BY <1>5, RequestStepInv
<1>6. CASE UNCHANGED vars
  <2>1. DetectorInv' /\ UNCHANGED <<task, request>>
    BY <1>1, <1>6, DetectorUnchanged DEF vars, detector
  <2>2. \A q \in Requests : ScansFor(q)'
    BY <1>1, <2>1 DEF ScansFor, request
  <2> QED BY <1>2, <2>1, <2>2 DEF IInv, TypeOK, DetectorInv
<1> QED BY <1>3, <1>4, <1>5, <1>6 DEF Next, RequestStep

\* The variables of the detector's client and of the routes keep their types:
\* a field's task is one of those _scan_for_placement makes, the semaphore's
\* count and the place in a text never fall below zero (_chunks always moves
\* forward), and a cached scan is a scan of its key's kind.
THEOREM GatewayTyped == Spec => []TypeOK
<1>1. IInv => TypeOK
  BY DEF IInv
<1> QED BY <1>1, InitInv, NextInv, PTL DEF Spec

\* Unless the operator chose to fail open, whatever body the routes send
\* upstream had each of its fields scanned whole by one gate, or found such a
\* scan in the cache, and a bare name in which nobody was found was scanned
\* again in its carrier: for any sizes of windows, overlap, cache and permits,
\* and whatever answers fail (redact_body, _detect_neural, _degraded_block).
THEOREM ForwardedIsScanned == Spec => []ScannedOrRefused
<1>1. IInv => ScannedOrRefused
  <2> SUFFICES ASSUME IInv, FailClosed, NEW r \in forwarded, NEW p \in Places,
                      body[r].fields[p] # None, body[r].route.reads
               PROVE  ScannedWhole(task[<<r, p>>].scans, body[r].fields[p])
    BY DEF ScannedOrRefused
  <2>1. r \in Requests
    BY DEF IInv, TypeOK, RequestTypeOK
  <2> QED BY <2>1 DEF IInv, ScansFor
<1> QED BY <1>1, InitInv, NextInv, PTL DEF Spec

-----------------------------------------------------------------------------
(* Connections are given back *)

LEMMA ConnectionStep ==
  ASSUME RequestTypeOK, NEW r \in Requests, RequestStep(r),
         stage[r] \in {"new", "scanning", "left", "over"} => conn[r] # "open"
  PROVE  stage'[r] \in {"new", "scanning", "left", "over"} => conn'[r] # "open"
<1>1. ASSUME NEW b, NEW d, NEW m, Proceeds(r, b, d, m), stage[r] \in {"new", "scanning"}
      PROVE  stage'[r] \in {"new", "scanning", "left", "over"} => conn'[r] # "open"
  BY <1>1 DEF Proceeds, Answers, RequestTypeOK
<1>2. ASSUME NEW b \in Bodies[r], Arrival(r, b)
      PROVE  stage'[r] \in {"new", "scanning", "left", "over"} => conn'[r] # "open"
  <2>1. CASE Bootstrap(r, b)
    BY <1>1, <2>1 DEF Bootstrap
  <2>2. CASE Skips(r, b) /\ ~b.hidden
    BY <1>1, <2>2 DEF Skips, Accepts
  <2>3. CASE Rejects(r, b) \/ Refuses(r, b) \/ Scans(r, b) \/ Sweeps(r, b) \/ (Skips(r, b) /\ b.hidden)
    <3>1. stage[r] = "new" /\ conn' = conn
      BY <2>3 DEF Rejects, Refuses, Scans, Sweeps, Skips, Accepts
    <3> QED BY <3>1
  <2> QED BY <1>2, <2>1, <2>2, <2>3 DEF Arrival
<1>3. CASE Redaction(r)
  <2>1. CASE Redacts(r)
    BY <1>1, <2>1 DEF Redacts, Scanned
  <2>2. CASE RedactionFails(r)
    BY <2>2 DEF RedactionFails, Scanned
  <2> QED BY <1>3, <2>1, <2>2 DEF Redaction
<1>4. CASE Closes(r)
  BY <1>4 DEF Closes, RequestTypeOK
<1>5. CASE Upstream(r)
  <2>1. CASE Opens(r)
    BY <2>1 DEF Opens, RequestTypeOK
  <2> QED BY <1>4, <1>5, <2>1 DEF Upstream, UpstreamFails, WholeAnswer
<1>6. CASE Client(r)
  <2>1. CASE Starts(r) \/ LeftBefore(r)
    BY <2>1 DEF Starts, LeftBefore, RequestTypeOK
  <2>2. CASE Collected(r)
    BY <2>2 DEF Collected
  <2> QED BY <1>4, <1>6, <2>1, <2>2 DEF Client, Drained, Leaves
<1> QED BY <1>2, <1>3, <1>5, <1>6 DEF RequestStep

\* A request whose work has ended holds no upstream connection, whichever side
\* ended it and whatever failed (the finally clauses of the routes).
THEOREM ConnectionsComeBack == Spec => []NoConnectionLeft
<1>1. Init => ConnectionInv
  BY DEF Init, ConnectionInv
<1>2. IInv /\ ConnectionInv /\ [Next]_vars => ConnectionInv'
  <2> SUFFICES ASSUME IInv, ConnectionInv, [Next]_vars PROVE ConnectionInv'
    OBVIOUS
  <2>1. CASE UNCHANGED request
    BY <2>1 DEF request, ConnectionInv
  <2>2. ASSUME NEW r \in Requests, RequestStep(r) PROVE ConnectionInv'
    <3>1. Own(r)
      BY <2>2, RequestStepInv
    <3>2. stage'[r] \in {"new", "scanning", "left", "over"} => conn'[r] # "open"
      BY <2>2, ConnectionStep DEF IInv, TypeOK, ConnectionInv
    <3> QED BY <3>1, <3>2 DEF Own, ConnectionInv
  <2> QED BY <2>1, <2>2 DEF Next, ScanStep, Console, RequestStep, vars, request
<1>3. ConnectionInv => NoConnectionLeft
  BY DEF ConnectionInv, NoConnectionLeft
<1> QED BY <1>1, <1>2, <1>3, InitInv, NextInv, PTL DEF Spec
-----------------------------------------------------------------------------
(* The feed tells of each request *)

\* Two sequences, one after the other.
LEMMA SideBySide ==
  ASSUME NEW S, NEW s \in Seq(S), NEW t \in Seq(S), NEW u \in Seq(S),
         Len(u) = Len(s) + Len(t),
         \A i \in 1..Len(s) : u[i] = s[i], \A i \in 1..Len(t) : u[Len(s) + i] = t[i]
  PROVE  s \o t = u
<1>1. s \o t \in Seq(S) /\ Len(s \o t) = Len(u) /\ Len(s) \in Nat /\ Len(t) \in Nat
  OBVIOUS
<1>2. ASSUME NEW i \in 1..Len(s \o t) PROVE (s \o t)[i] = u[i]
  <2>1. CASE i <= Len(s)
    BY <2>1
  <2>2. CASE i > Len(s)
    <3>1. i - Len(s) \in 1..Len(t) /\ Len(s) + (i - Len(s)) = i
      BY <1>1, <2>2
    <3>2. (s \o t)[i] = t[i - Len(s)]
      BY <1>1, <2>2
    <3> QED BY <3>1, <3>2
  <2> QED BY <1>1, <2>1, <2>2
<1> QED BY <1>1, <1>2, SeqEqual

LEMMA OneAndOne ==
  ASSUME NEW a, NEW b
  PROVE  <<a>> \o <<b>> = <<a, b>>
<1> DEFINE S == {a, b}
           s == <<a>>
           t == <<b>>
           u == <<a, b>>
<1>1. s \in Seq(S) /\ t \in Seq(S) /\ u \in Seq(S)
  OBVIOUS
<1>2. /\ Len(s) = 1 /\ Len(t) = 1 /\ Len(u) = 2
      /\ \A i \in 1..1 : u[i] = s[i]
      /\ \A i \in 1..1 : u[1 + i] = t[i]
  OBVIOUS
<1> HIDE DEF S, s, t, u
<1>3. /\ Len(u) = Len(s) + Len(t)
      /\ \A i \in 1..Len(s) : u[i] = s[i]
      /\ \A i \in 1..Len(t) : u[Len(s) + i] = t[i]
  BY <1>2
<1>4. s \o t = u
  BY <1>1, <1>3, SideBySide
<1> QED BY <1>4 DEF s, t, u

LEMMA OneAndTwo ==
  ASSUME NEW a, NEW b, NEW c
  PROVE  <<a>> \o <<b, c>> = <<a, b, c>>
<1> DEFINE S == {a, b, c}
           s == <<a>>
           t == <<b, c>>
           u == <<a, b, c>>
<1>1. s \in Seq(S) /\ t \in Seq(S) /\ u \in Seq(S)
  OBVIOUS
<1>2. /\ Len(s) = 1 /\ Len(t) = 2 /\ Len(u) = 3
      /\ \A i \in 1..1 : u[i] = s[i]
      /\ \A i \in 1..2 : u[1 + i] = t[i]
  OBVIOUS
<1> HIDE DEF S, s, t, u
<1>3. /\ Len(u) = Len(s) + Len(t)
      /\ \A i \in 1..Len(s) : u[i] = s[i]
      /\ \A i \in 1..Len(t) : u[Len(s) + i] = t[i]
  BY <1>2
<1>4. s \o t = u
  BY <1>1, <1>3, SideBySide
<1> QED BY <1>4 DEF s, t, u

LEMMA TwoAndOne ==
  ASSUME NEW a, NEW b, NEW c
  PROVE  <<a, b>> \o <<c>> = <<a, b, c>>
<1> DEFINE S == {a, b, c}
           s == <<a, b>>
           t == <<c>>
           u == <<a, b, c>>
<1>1. s \in Seq(S) /\ t \in Seq(S) /\ u \in Seq(S)
  OBVIOUS
<1>2. /\ Len(s) = 2 /\ Len(t) = 1 /\ Len(u) = 3
      /\ \A i \in 1..2 : u[i] = s[i]
      /\ \A i \in 1..1 : u[2 + i] = t[i]
  OBVIOUS
<1> HIDE DEF S, s, t, u
<1>3. /\ Len(u) = Len(s) + Len(t)
      /\ \A i \in 1..Len(s) : u[i] = s[i]
      /\ \A i \in 1..Len(t) : u[Len(s) + i] = t[i]
  BY <1>2
<1>4. s \o t = u
  BY <1>1, <1>3, SideBySide
<1> QED BY <1>4 DEF s, t, u

LEMMA Concatenations ==
  /\ Append(<<>>, "request") = <<"request">>
  /\ <<>> \o <<>> = <<>>
  /\ <<"request">> \o <<>> = <<"request">>
  /\ <<"request">> \o <<"response">> = <<"request", "response">>
  /\ <<"request">> \o <<"withheld">> = <<"request", "withheld">>
  /\ <<"request">> \o <<"response", "withheld">> = <<"request", "response", "withheld">>
  /\ <<"request", "withheld">> \o <<>> = <<"request", "withheld">>
  /\ <<"request", "withheld">> \o <<"response">> = <<"request", "withheld", "response">>
<1> DEFINE S == {"request", "response", "withheld"}
<1>1. Append(<<>>, "request") = <<"request">> /\ <<>> \o <<>> = <<>>
  OBVIOUS
<1>2. /\ <<"request">> \in Seq(S) /\ <<"response">> \in Seq(S) /\ <<"withheld">> \in Seq(S)
      /\ <<"request", "withheld">> \in Seq(S) /\ <<"response", "withheld">> \in Seq(S)
      /\ <<"request", "response">> \in Seq(S) /\ <<"request", "response", "withheld">> \in Seq(S)
      /\ <<"request", "withheld", "response">> \in Seq(S)
  OBVIOUS
<1>3. <<"request">> \o <<>> = <<"request">> /\ <<"request", "withheld">> \o <<>> = <<"request", "withheld">>
  BY <1>2, ConcatEmptySeq
<1> HIDE DEF S
<1> QED BY <1>1, <1>3, OneAndOne, OneAndTwo, TwoAndOne

\* No kind of event is told twice.
LEMMA ToldOnce ==
  ASSUME NEW r, Told(r), NEW i \in DOMAIN feed[r], NEW j \in DOMAIN feed[r], feed[r][i] = feed[r][j]
  PROVE  i = j
BY DEF Told

LEMMA ToldProceeds ==
  ASSUME RequestTypeOK, NEW r \in Requests, Told(r), stage[r] \in {"new", "scanning"},
         NEW b, body'[r] = b, NEW d, NEW m, Proceeds(r, b, d, m), b.route.reads \/ ~m
  PROVE  Told(r)'
<1>1. feed[r] = <<>> /\ r \notin forwarded
  BY DEF Told
<1>2. feed'[r] = IF b.route.reads THEN <<"request">> ELSE <<>>
  BY <1>1, Concatenations DEF Proceeds, RequestTypeOK
<1>3. ~b.route.reads => ~replay'[r]
  BY DEF Proceeds, RequestTypeOK
<1>4. \/ stage'[r] = "over" /\ r \notin forwarded'
      \/ stage'[r] = "sent" /\ r \in forwarded'
  BY <1>1 DEF Proceeds, Answers, RequestTypeOK
<1>5. <<"request">> # <<>>
  OBVIOUS
<1> QED BY <1>2, <1>3, <1>4, <1>5 DEF Told


\* The events of an answer.
LEMMA ToldAnswer ==
  ASSUME RequestTypeOK, NEW r \in Requests, Told(r), stage[r] \in {"sent", "streaming"},
         \E events \in AnswerEvents(r) : Reports(r, events),
         stage'[r] = "over", UNCHANGED <<body, replay, forwarded>>
  PROVE  Told(r)'
<1>1. PICK e \in AnswerEvents(r) : feed'[r] = feed[r] \o e
  BY DEF Reports, RequestTypeOK
<1>2. r \in forwarded
  BY DEF Told
<1>3. CASE ~body[r].route.reads
  <2>1. feed[r] = <<>> /\ ~replay[r]
    BY <1>3 DEF Told
  <2>2. feed'[r] = <<>>
    BY <1>1, <2>1, Concatenations DEF AnswerEvents
  <2> QED BY <1>2, <1>3, <2>1, <2>2 DEF Told
<1>4. CASE body[r].route.reads
  <2>1. feed[r] = <<"request">>
    BY <1>4 DEF Told
  <2>2. e \in {<<>>, <<"response">>, <<"response", "withheld">>}
    BY <1>1 DEF AnswerEvents
  <2>3. feed'[r] \in {<<"request">>, <<"request", "response">>, <<"request", "response", "withheld">>}
    BY <1>1, <2>1, <2>2, Concatenations
  <2>4. feed'[r] # <<>>
    BY <2>3
  <2> QED BY <1>2, <1>4, <2>3, <2>4 DEF Told
<1> QED BY <1>3, <1>4

\* The client leaves, and what it left is collected.
LEMMA ToldLeft ==
  ASSUME RequestTypeOK, NEW r \in Requests, Told(r), Leaves(r) \/ Collected(r)
  PROVE  Told(r)'
<1>0. /\ body' = body /\ replay' = replay /\ forwarded' = forwarded /\ r \in forwarded
      /\ ~body[r].route.reads => feed[r] = <<>> /\ ~replay[r]
  BY DEF Leaves, Collected, Told
<1>1. CASE Leaves(r)
  <2>1. stage[r] = "streaming" /\ stage'[r] = "left"
    BY <1>1 DEF Leaves, RequestTypeOK
  <2>2. PICK e \in {<<>>} \cup (IF replay[r] THEN {<<"withheld">>} ELSE {}) : feed'[r] = feed[r] \o e
    BY <1>1 DEF Leaves, Reports, RequestTypeOK
  <2>3. CASE ~body[r].route.reads
    <3>1. feed'[r] = <<>>
      BY <1>0, <2>2, <2>3, Concatenations
    <3> QED BY <1>0, <2>1, <2>3, <3>1 DEF Told
  <2>4. CASE body[r].route.reads
    <3>1. feed[r] = <<"request">>
      BY <2>1, <2>4 DEF Told
    <3>2. feed'[r] \in {<<"request">>, <<"request", "withheld">>}
      BY <2>2, <3>1, Concatenations
    <3>3. feed'[r] # <<>>
      BY <3>2
    <3> QED BY <1>0, <2>1, <2>4, <3>2, <3>3 DEF Told
  <2> QED BY <2>3, <2>4
<1>2. CASE Collected(r)
  <2>1. stage[r] = "left" /\ stage'[r] = "over"
    BY <1>2 DEF Collected, RequestTypeOK
  <2>2. PICK e \in {<<>>} \cup (IF replay[r] THEN {<<"response">>} ELSE {}) : feed'[r] = feed[r] \o e
    BY <1>2 DEF Collected, Reports, RequestTypeOK
  <2>3. CASE ~body[r].route.reads
    <3>1. feed'[r] = <<>>
      BY <1>0, <2>2, <2>3, Concatenations
    <3> QED BY <1>0, <2>1, <2>3, <3>1 DEF Told
  <2>4. CASE body[r].route.reads
    <3>1. feed[r] \in {<<"request">>, <<"request", "withheld">>}
      BY <2>1, <2>4 DEF Told
    <3>2. feed'[r] \in {<<"request">>, <<"request", "withheld">>, <<"request", "response">>,
                        <<"request", "withheld", "response">>}
      BY <2>2, <3>1, Concatenations
    <3>3. feed'[r] # <<>>
      BY <3>2
    <3> QED BY <1>0, <2>1, <2>4, <3>2, <3>3 DEF Told
  <2> QED BY <2>3, <2>4
<1> QED BY <1>1, <1>2

LEMMA ToldStep ==
  ASSUME RequestTypeOK, NEW r \in Requests, Told(r), RequestStep(r)
  PROVE  Told(r)'
<1>1. ASSUME NEW b \in Bodies[r], Arrival(r, b) PROVE Told(r)'
  <2>1. stage[r] = "new" /\ body'[r] = b /\ feed[r] = <<>> /\ ~replay[r] /\ r \notin forwarded
    BY <1>1 DEF Arrival, Rejects, Bootstrap, Refuses, Scans, Sweeps, Skips, Accepts, RequestTypeOK, Told
  <2>2. CASE Bootstrap(r, b) \/ (Skips(r, b) /\ ~b.hidden)
    BY <2>1, <2>2, ToldProceeds DEF Bootstrap, Skips
  <2>3. CASE Rejects(r, b) \/ Refuses(r, b) \/ Scans(r, b) \/ Sweeps(r, b) \/ (Skips(r, b) /\ b.hidden)
    <3>1. /\ feed' = feed /\ replay' = replay /\ forwarded' = forwarded /\ b.route.reads
          /\ stage'[r] \in {"scanning", "over"}
      BY <2>3 DEF Rejects, Refuses, Scans, Sweeps, Skips, Accepts, Answers, RequestTypeOK
    <3> QED BY <2>1, <3>1 DEF Told
  <2> QED BY <1>1, <2>2, <2>3 DEF Arrival
<1>2. CASE Redacts(r)
  BY <1>2, ToldProceeds DEF Redacts, Scanned, Told
<1>3. CASE RedactionFails(r)
  <2>1. /\ stage[r] = "scanning" /\ stage'[r] = "over"
        /\ UNCHANGED <<feed, body, replay, forwarded>>
    BY <1>3 DEF RedactionFails, Scanned, Answers, RequestTypeOK
  <2> QED BY <2>1 DEF Told
<1>4. CASE UpstreamFails(r)
  <2>1. /\ stage[r] = "sent" /\ stage'[r] = "over"
        /\ UNCHANGED <<feed, body, replay, forwarded>>
    BY <1>4 DEF UpstreamFails, Answers, RequestTypeOK
  <2> QED BY <2>1 DEF Told
<1>5. CASE WholeAnswer(r) \/ Drained(r)
  BY <1>5, ToldAnswer DEF WholeAnswer, Drained, Answers, RequestTypeOK
<1>6. CASE Opens(r) \/ Starts(r) \/ LeftBefore(r)
  <2>1. /\ stage[r] \in {"sent", "opened"} /\ stage'[r] \in {"opened", "streaming", "abandoned"}
        /\ UNCHANGED <<feed, body, replay, forwarded>>
    BY <1>6 DEF Opens, Starts, LeftBefore, RequestTypeOK
  <2> QED BY <2>1 DEF Told
<1>7. CASE Leaves(r) \/ Collected(r)
  BY <1>7, ToldLeft
<1> QED BY <1>1, <1>2, <1>3, <1>4, <1>5, <1>6, <1>7 DEF RequestStep, Redaction, Upstream, Client

\* The live feed tells of a request before it leaves, once, and of its answer
\* after, once, on every route and however the answer ends (_live_request,
\* _tally_rehydrations, withheld arguments).
THEOREM FeedIsTold == Spec => []FeedTellsAll
<1> DEFINE AllTold == \A r \in Requests : Told(r)
<1>1. Init => AllTold
  BY DEF Init, Told
<1>2. IInv /\ AllTold /\ [Next]_vars => AllTold'
  <2> SUFFICES ASSUME IInv, AllTold, [Next]_vars PROVE AllTold'
    OBVIOUS
  <2>1. CASE UNCHANGED request
    BY <2>1 DEF request, Told
  <2>2. ASSUME NEW r \in Requests, RequestStep(r) PROVE AllTold'
    <3>1. Own(r)
      BY <2>2, RequestStepInv
    <3>2. Told(r)'
      BY <2>2, ToldStep DEF IInv, TypeOK
    <3>3. ASSUME NEW q \in Requests \ {r} PROVE Told(q)'
      BY <3>1 DEF Own, Told
    <3> QED BY <3>2, <3>3
  <2> QED BY <2>1, <2>2 DEF Next, ScanStep, Console, RequestStep, vars, request
<1>3. AllTold => FeedTellsAll
  <2> SUFFICES ASSUME AllTold, NEW r \in Requests
               PROVE  LET At(kind) == {i \in DOMAIN feed[r] : feed[r][i] = kind}
                      IN  /\ \A kind \in {"request", "response", "withheld"} : Cardinality(At(kind)) <= 1
                          /\ r \in forwarded /\ body[r].route.reads => At("request") = {1}
                          /\ At("response") \cup At("withheld") # {} => r \in forwarded /\ At("request") = {1}
    BY DEF FeedTellsAll
  <2> DEFINE At(kind) == {i \in DOMAIN feed[r] : feed[r][i] = kind}
  <2>0. Told(r)
    OBVIOUS
  <2>1. ASSUME NEW kind PROVE Cardinality(At(kind)) <= 1
    <3>1. CASE At(kind) = {}
      BY <3>1, FS_EmptySet
    <3>2. CASE At(kind) # {}
      <4>1. PICK i \in At(kind) : TRUE
        BY <3>2
      <4>2. At(kind) = {i}
        BY <2>0, <4>1, ToldOnce
      <4> QED BY <4>2, FS_Singleton
    <3> QED BY <3>1, <3>2
  <2>2. feed[r] # <<>> => At("request") = {1}
    <3>1. feed[r] # <<>> => 1 \in DOMAIN feed[r] /\ feed[r][1] = "request"
      BY <2>0 DEF Told
    <3> QED BY <2>0, <3>1, ToldOnce
  <2>3. At("response") \cup At("withheld") # {} => feed[r] \notin {<<>>, <<"request">>}
    OBVIOUS
  <2>4. r \in forwarded /\ body[r].route.reads => feed[r] # <<>>
    BY <2>0 DEF Told
  <2>5. feed[r] \notin {<<>>, <<"request">>} => r \in forwarded /\ feed[r] # <<>>
    BY <2>0 DEF Told
  <2> QED BY <2>1, <2>2, <2>3, <2>4, <2>5
<1> HIDE DEF AllTold
<1> QED BY <1>1, <1>2, <1>3, InitInv, NextInv, PTL DEF Spec
=============================================================================
