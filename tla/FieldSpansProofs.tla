------------------------- MODULE FieldSpansProofs -------------------------
(***************************************************************************)
(* The span pipeline is well typed, its spans never overlap when they are  *)
(* replaced, the merge gives the components of the spans, a deterministic  *)
(* floor hit is always masked under a floor label, and nothing detected is *)
(* masked in part, for all labels, texts, policies and dictionaries.       *)
(***************************************************************************)
EXTENDS FieldSpans, TLAPS

(* The type invariant *)

LEMMA SoftNotSticky ==
  \A l \in Soft : l \in Labels /\ l \notin Sticky
  BY LabelAssumption

LEMMA IntervalType ==
  ASSUME NEW n \in Nat, NEW i \in Interval(n)
  PROVE  i[1] \in Nat /\ i[2] \in Nat /\ i[1] < i[2]
  BY DEF Interval

LEMMA DetectionsTyped ==
  ASSUME text \in Texts
  PROVE  Detections \subseteq RawSpans /\ \A s \in Detections : s.start < s.end
<1>1. text.length \in Nat
  BY TextAssumption
<1> SUFFICES ASSUME NEW i \in Interval(text.length), NEW k \in text.kinds
             PROVE  LET s == [start |-> i[1], end |-> i[2], label |-> k.label,
                              tier |-> k.tier, conf |-> k.conf]
                    IN s \in RawSpans /\ s.start < s.end
  BY DEF Detections
<1>2. i[1] \in Nat /\ i[2] \in Nat /\ i[1] < i[2]
  BY <1>1, IntervalType
<1>3. k \in [label : Labels, tier : {0, 2}, conf : 0 .. Certain]
  BY ConfAssumption
<1> QED BY <1>2, <1>3 DEF RawSpans

LEMMA MovedTyped ==
  ASSUME NEW s \in RawSpans, NEW a \in Nat, NEW b \in Nat
  PROVE  Moved(s, a, b) \in RawSpans /\ Moved(s, a, b).start = a /\ Moved(s, a, b).end = b
  BY DEF Moved, RawSpans

LEMMA RelabelledTyped ==
  ASSUME NEW s \in RawSpans, NEW l \in Labels
  PROVE  /\ Relabelled(s, l) \in RawSpans
         /\ Relabelled(s, l).start = s.start /\ Relabelled(s, l).end = s.end
  BY DEF Relabelled, RawSpans

LEMMA DemotedTyped ==
  ASSUME NEW s \in RawSpans, s.start < s.end, NEW d \in Demoted(s)
  PROVE  d = None \/ (d \in RawSpans /\ d.start < d.end)
  BY SoftNotSticky DEF Demoted, ModelCredentialVerdicts, Relabelled, RawSpans, Soft

LEMMA NarrowedTyped ==
  ASSUME text \in Texts, NEW s \in RawSpans, s.start < s.end
  PROVE  Narrowed(s) = None \/ (Narrowed(s) \in RawSpans /\ Narrowed(s).start < Narrowed(s).end)
<1> DEFINE Homes == {u \in text.users : s.start <= u.root /\ u.name[2] <= s.end}
           home  == CHOOSE u \in Homes : TRUE
<1>1. CASE ~PathLike(s)
  BY <1>1 DEF Narrowed
<1>2. CASE Homes = {} \/ home.name \in text.tokens
  BY <1>2 DEF Narrowed
<1>3. CASE PathLike(s) /\ Homes # {} /\ home.name \notin text.tokens
  <2>1. home \in text.users
    BY <1>3
  <2>2. text.length \in Nat /\ home.name \in Interval(text.length)
    BY <2>1, TextAssumption
  <2>3. PICK a \in Nat, b \in Nat : home.name[1] = a /\ home.name[2] = b /\ a < b
    BY <2>2, IntervalType
  <2>4. Narrowed(s) = Relabelled(Moved(s, a, b), "file_path")
    <3>1. Narrowed(s) = Relabelled(Moved(s, home.name[1], home.name[2]), "file_path")
      BY <1>3 DEF Narrowed
    <3> HIDE DEF home
    <3> QED BY <3>1, <2>3
  <2>5. "file_path" \in Labels
    BY SoftNotSticky DEF Soft
  <2>6. Moved(s, a, b) \in RawSpans /\ Moved(s, a, b).start = a /\ Moved(s, a, b).end = b
    BY MovedTyped
  <2>7. /\ Narrowed(s) \in RawSpans
        /\ Narrowed(s).start = a /\ Narrowed(s).end = b
    BY <2>4, <2>5, <2>6, RelabelledTyped
  <2> QED BY <2>3, <2>7
<1> QED BY <1>1, <1>2, <1>3

LEMMA ExpandedTyped ==
  ASSUME text \in Texts, NEW s \in RawSpans, s.start < s.end
  PROVE  Expanded(s) \in RawSpans /\ Expanded(s).start < Expanded(s).end
<1> DEFINE Left  == {w \in text.words : w[1] < s.start /\ s.start <= w[2]}
           Right == {w \in text.words : w[1] <= s.end /\ s.end < w[2]}
           left  == IF Left = {} THEN s.start ELSE (CHOOSE w \in Left : TRUE)[1]
           right == IF Right = {} THEN s.end ELSE (CHOOSE w \in Right : TRUE)[2]
<1>1. \A w \in text.words : w[1] \in Nat /\ w[2] \in Nat
  BY TextAssumption, IntervalType
<1>2. left \in Nat /\ left <= s.start
  <2>1. CASE Left = {}  BY <2>1 DEF RawSpans
  <2>2. CASE Left # {}
    <3>1. (CHOOSE w \in Left : TRUE) \in Left
      BY <2>2
    <3> QED BY <2>2, <3>1, <1>1 DEF RawSpans
  <2> QED BY <2>1, <2>2
<1>3. right \in Nat /\ s.end <= right
  <2>1. CASE Right = {}  BY <2>1 DEF RawSpans
  <2>2. CASE Right # {}
    <3>1. (CHOOSE w \in Right : TRUE) \in Right
      BY <2>2
    <3> QED BY <2>2, <3>1, <1>1 DEF RawSpans
  <2> QED BY <2>1, <2>2
<1>4. Expanded(s) = IF s.tier = 0 THEN s ELSE Moved(s, left, right)
  BY DEF Expanded
<1>5. s.start \in Nat /\ s.end \in Nat
  BY DEF RawSpans
<1> HIDE DEF left, right
<1>6. left < right
  BY <1>2, <1>3, <1>5
<1>7. /\ Moved(s, left, right) \in RawSpans
      /\ Moved(s, left, right).start = left /\ Moved(s, left, right).end = right
  BY <1>2, <1>3, MovedTyped
<1> QED BY <1>4, <1>6, <1>7
-----------------------------------------------------------------------------
(* The loop bodies *)

LEMMA NewClusterTyped ==
  ASSUME NEW s \in Spans
  PROVE  /\ NewCluster(s) \in Clusters
         /\ NewCluster(s).start = s.start /\ NewCluster(s).end = s.end
         /\ NewCluster(s).label = s.label
         /\ NewCluster(s).floor = IF s.label \in Sticky THEN s ELSE None
  BY ConfAssumption DEF NewCluster, Spans, Clusters

LEMMA AbsorbedTyped ==
  ASSUME NEW c \in Clusters, NEW s \in Spans
  PROVE  /\ Absorbed(c, s) \in Clusters
         /\ Absorbed(c, s).start = c.start
         /\ c.end <= Absorbed(c, s).end /\ s.end <= Absorbed(c, s).end
         /\ Absorbed(c, s).label \in {c.label, s.label}
         /\ Absorbed(c, s).floor \in {c.floor, s}
         /\ Absorbed(c, s).floor = s => s.label \in Sticky \/ c.floor = s
         /\ s.label \in Sticky \/ c.floor # None => Absorbed(c, s).floor # None
<1> DEFINE end   == Higher(c.end, s.end)
           conf  == Higher(c.conf, s.conf)
           label == IF Outranks(s, c) THEN s.label ELSE c.label
           best  == IF Outranks(s, c) THEN s.conf ELSE c.bestConf
           len   == IF Outranks(s, c) THEN s.end - s.start ELSE c.bestLen
           floor == IF s.label \in Sticky /\ (c.floor = None \/ s.conf > c.floor.conf)
                    THEN s ELSE c.floor
<1>1. /\ Absorbed(c, s) = [c EXCEPT !.end = end, !.conf = conf, !.label = label,
                                   !.bestConf = best, !.bestLen = len, !.floor = floor]
  BY DEF Absorbed
<1>2. /\ c = [start |-> c.start, end |-> c.end, label |-> c.label, conf |-> c.conf,
              bestConf |-> c.bestConf, bestLen |-> c.bestLen, floor |-> c.floor]
      /\ c.start \in Nat /\ c.end \in Nat /\ c.label \in Labels /\ c.conf \in 0 .. Certain
      /\ c.bestConf \in 0 .. Certain /\ c.bestLen \in Int /\ c.floor \in Spans \cup {None}
  BY DEF Clusters
<1>3. /\ s.start \in Nat /\ s.end \in Nat /\ s.label \in Labels /\ s.conf \in 0 .. Certain
  BY DEF Spans
<1>4. end \in Nat /\ c.end <= end /\ s.end <= end
  BY <1>2, <1>3 DEF Higher
<1>5. conf \in 0 .. Certain
  BY <1>2, <1>3 DEF Higher
<1>6. label \in {c.label, s.label} /\ label \in Labels
  BY <1>2, <1>3
<1>7. best \in 0 .. Certain /\ len \in Int
  BY <1>2, <1>3
<1>8. /\ floor \in {c.floor, s} /\ floor \in Spans \cup {None}
      /\ floor = s => s.label \in Sticky \/ c.floor = s
      /\ s.label \in Sticky \/ c.floor # None => floor # None
  <2>1. s # None
    BY NoneAssumption
  <2> QED BY <2>1, <1>2
<1> HIDE DEF end, conf, label, best, len, floor
<1>9. Absorbed(c, s) = [start |-> c.start, end |-> end, label |-> label, conf |-> conf,
                        bestConf |-> best, bestLen |-> len, floor |-> floor]
  BY <1>1, <1>2
<1>10. Absorbed(c, s) \in Clusters
  BY <1>9, <1>2, <1>4, <1>5, <1>6, <1>7, <1>8 DEF Clusters
<1> QED BY <1>9, <1>10, <1>4, <1>6, <1>8

LEMMA AbsorbedEnd ==
  ASSUME NEW c \in Clusters, NEW s \in Spans
  PROVE  Absorbed(c, s).end \in {c.end, s.end}
  BY DEF Absorbed, Higher, Clusters

LEMMA FinishedTyped ==
  ASSUME NEW c \in Clusters
  PROVE  /\ Finished(c) \in Spans
         /\ Finished(c).start = c.start /\ Finished(c).end = c.end
         /\ c.label \in Sticky => Finished(c).label \in Sticky
         /\ c.floor # None /\ c.floor.label \in Sticky => Finished(c).label \in Sticky
  BY DEF Finished, Span, Spans, Clusters

LEMMA JoinedTyped ==
  ASSUME NEW a \in Spans, NEW s \in Spans
  PROVE  /\ Joined(a, s) \in Spans
         /\ Joined(a, s).start = a.start /\ Joined(a, s).end = s.end
         /\ Joined(a, s).label = a.label
  BY ConfAssumption DEF Joined, Lower, Spans

LEMMA DeniedTyped ==
  ASSUME text \in Texts, config \in Configs
  PROVE  Denied \subseteq Spans /\ \A s \in Denied : s.start < s.end
<1>1. config.deny \subseteq Interval(text.length) /\ text.length \in Nat
  BY ConfigAssumption, TextAssumption
<1>2. Deny \in Labels
  BY SoftNotSticky DEF Soft
<1> SUFFICES ASSUME NEW i \in config.deny
             PROVE  /\ Span(i[1], i[2], Deny, Certain) \in Spans
                    /\ Span(i[1], i[2], Deny, Certain).start < Span(i[1], i[2], Deny, Certain).end
  BY DEF Denied
<1>3. i[1] \in Nat /\ i[2] \in Nat /\ i[1] < i[2]
  BY <1>1, IntervalType
<1> HIDE DEF Deny
<1> QED BY <1>2, <1>3, ConfAssumption DEF Span, Spans
-----------------------------------------------------------------------------
(* The two loops keep their spans in order *)

Loops == {"merge", "stitch", "remerge", "restitch"}

Apart(S) == \A a, b \in S : a = b \/ a.end <= b.start \/ b.end <= a.start

NoneEmpty ==
  /\ \A s \in raw \cup found \cup todo \cup out : s.start < s.end
  /\ cur # None => cur.start < cur.end

\* Outside its loop nothing is left of it.
LoopLocal ==
  /\ stage \notin Loops => cur = None /\ out = {}
  /\ stage \notin {"redact", "done"} => last = 0 /\ masked = {}
  /\ stage = "done" => todo = {}

\* What a loop has finished lies before what it is building.
Behind ==
  /\ Apart(out)
  /\ IF cur = None THEN out = {} ELSE \A o \in out : o.end <= cur.start

\* What it is building lies before what it has not come to.
Ahead ==
  /\ stage \in {"merge", "remerge"} /\ cur # None =>
       /\ \A t \in todo : cur.start <= t.start
       /\ cur.floor # None => cur.floor.label \in Sticky
  /\ stage \in {"stitch", "restitch"} =>
       Apart(todo) /\ (cur # None => \A t \in todo : cur.end <= t.start)
  /\ stage = "redact" => Apart(todo) /\ \A t \in todo : last <= t.start

Order == NoneEmpty /\ LoopLocal /\ Behind /\ Ahead

LEMMA StitchedApart ==
  ASSUME TypeOK, Order, stage \in {"stitch", "restitch"}
  PROVE  /\ Stitched \subseteq Spans /\ Apart(Stitched)
         /\ \A s \in Stitched : s.start < s.end
<1>1. out \subseteq Spans /\ cur \in Spans \cup {None}
  BY DEF TypeOK
<1>2. Apart(out) /\ (cur # None => \A o \in out : o.end <= cur.start)
  BY DEF Order, Behind
<1>3. (\A s \in out : s.start < s.end) /\ (cur # None => cur.start < cur.end)
  BY DEF Order, NoneEmpty
<1>4. CASE cur = None  BY <1>1, <1>2, <1>3, <1>4 DEF Stitched
<1>5. CASE cur # None  BY <1>1, <1>2, <1>3, <1>5 DEF Stitched, Apart
<1> QED BY <1>4, <1>5

LEMMA MergedApart ==
  ASSUME TypeOK, Order, stage \in {"merge", "remerge"}
  PROVE  LET M == IF cur = None THEN out ELSE out \cup {Finished(cur)}
         IN M \subseteq Spans /\ Apart(M) /\ \A s \in M : s.start < s.end
<1>1. out \subseteq Spans /\ cur \in Clusters \cup {None}
  BY DEF TypeOK
<1>2. Apart(out) /\ (cur # None => \A o \in out : o.end <= cur.start)
  BY DEF Order, Behind
<1>3. (\A s \in out : s.start < s.end) /\ (cur # None => cur.start < cur.end)
  BY DEF Order, NoneEmpty
<1>4. CASE cur = None  BY <1>1, <1>2, <1>3, <1>4
<1>5. CASE cur # None
  <2>1. /\ Finished(cur) \in Spans
        /\ Finished(cur).start = cur.start /\ Finished(cur).end = cur.end
    BY <1>1, <1>5, FinishedTyped
  <2>2. \A o \in out : o.end <= Finished(cur).start
    BY <1>2, <1>5, <2>1
  <2>3. Finished(cur).start < Finished(cur).end
    BY <1>3, <1>5, <2>1
  <2> QED BY <1>1, <1>2, <1>3, <1>5, <2>1, <2>2, <2>3 DEF Apart
<1> QED BY <1>4, <1>5

\* The steps of the first stages.
LEMMA PreparedTyped ==
  ASSUME TypeOK, Order, NEW s \in todo, Prepare(s)
  PROVE  found' \subseteq Spans /\ \A f \in found' : f.start < f.end
<1>1. s \in RawSpans /\ s.start < s.end /\ text \in Texts
  BY DEF TypeOK, Order, NoneEmpty, Prepare
<1>2. PICK d \in Demoted(s) :
        LET n == IF d = None THEN None ELSE Narrowed(d)
            e == Expanded(n)
        IN found' = IF n = None THEN found
                    ELSE found \cup {Span(e.start, e.end, e.label, e.conf)}
  BY DEF Prepare
<1>3. found \subseteq Spans /\ \A f \in found : f.start < f.end
  BY DEF TypeOK, Order, NoneEmpty
<1>4. CASE d = None \/ Narrowed(d) = None
  BY <1>2, <1>3, <1>4
<1>5. CASE d # None /\ Narrowed(d) # None
  <2> DEFINE e == Expanded(Narrowed(d))
  <2>1. d \in RawSpans /\ d.start < d.end
    BY <1>1, <1>5, DemotedTyped
  <2>2. Narrowed(d) \in RawSpans /\ Narrowed(d).start < Narrowed(d).end
    BY <1>1, <1>5, <2>1, NarrowedTyped
  <2>3. e \in RawSpans /\ e.start < e.end
    BY <1>1, <2>2, ExpandedTyped
  <2>4. found' = found \cup {Span(e.start, e.end, e.label, e.conf)}
    BY <1>2, <1>5
  <2> HIDE DEF e
  <2>5. /\ Span(e.start, e.end, e.label, e.conf) \in Spans
        /\ Span(e.start, e.end, e.label, e.conf).start < Span(e.start, e.end, e.label, e.conf).end
    BY <2>3 DEF Span, Spans, RawSpans
  <2> QED BY <1>3, <2>4, <2>5
<1> QED BY <1>4, <1>5
-----------------------------------------------------------------------------
(* One step of each kind *)

Sound == TypeOK /\ Order

LEMMA DetectSound ==
  ASSUME Sound, Detect \/ Detected
  PROVE  Sound'
<1>1. /\ stage = "detect" /\ text \in Texts
      /\ stage' \in {"detect", "prepare"} /\ raw' \subseteq RawSpans
      /\ \A s \in raw' : s.start < s.end
      /\ todo' \in {todo, raw}
  BY DetectionsTyped DEF Sound, TypeOK, Order, NoneEmpty, Detect, Detected
<1>2. UNCHANGED <<text, config, found, cur, out, masked, last>>
  BY DEF Detect, Detected
<1>3. stage' = "prepare" => todo' = raw
  BY DEF Sound, Order, LoopLocal, Detect, Detected
<1>4. stage' = "detect" => todo' = todo
  BY DEF Detect, Detected
<1>5. TypeOK'
  BY <1>1, <1>2, <1>3, <1>4 DEF Sound, TypeOK
<1>6. NoneEmpty'
  BY <1>1, <1>2 DEF Sound, Order, NoneEmpty
<1>7. LoopLocal' /\ Behind' /\ Ahead'
  BY <1>1, <1>2 DEF Sound, Order, LoopLocal, Loops, Behind, Ahead
<1> QED BY <1>5, <1>6, <1>7 DEF Sound, Order

LEMMA PrepareSound ==
  ASSUME Sound, NEW s \in todo, Prepare(s)
  PROVE  Sound'
<1>1. found' \subseteq Spans /\ \A f \in found' : f.start < f.end
  BY PreparedTyped DEF Sound
<1>2. /\ stage = "prepare" /\ todo' = todo \ {s}
      /\ UNCHANGED <<stage, text, config, raw, cur, out, masked, last>>
  BY DEF Prepare
<1>3. TypeOK'
  BY <1>1, <1>2 DEF Sound, TypeOK
<1>4. NoneEmpty'
  BY <1>1, <1>2 DEF Sound, Order, NoneEmpty
<1>5. LoopLocal' /\ Behind' /\ Ahead'
  BY <1>2 DEF Sound, Order, LoopLocal, Behind, Ahead
<1> QED BY <1>3, <1>4, <1>5 DEF Sound, Order

LEMMA StartMergeSound ==
  ASSUME Sound, StartMerge
  PROVE  Sound'
<1>1. /\ stage = "prepare" /\ stage' = "merge" /\ todo' = found
      /\ UNCHANGED <<text, config, raw, found, cur, out, masked, last>>
  BY DEF StartMerge
<1>2. cur = None /\ out = {}
  BY <1>1 DEF Sound, Order, LoopLocal, Loops
<1>3. TypeOK'
  BY <1>1, <1>2 DEF Sound, TypeOK
<1>4. NoneEmpty'
  BY <1>1, <1>2 DEF Sound, Order, NoneEmpty
<1>5. LoopLocal' /\ Behind' /\ Ahead'
  BY <1>1, <1>2 DEF Sound, Order, LoopLocal, Loops, Behind, Ahead, Apart
<1> QED BY <1>3, <1>4, <1>5 DEF Sound, Order

LEMMA MergeSound ==
  ASSUME Sound, NEW s \in todo, Merge(s)
  PROVE  Sound'
<1>1. /\ stage \in {"merge", "remerge"} /\ todo' = todo \ {s}
      /\ UNCHANGED <<stage, text, config, raw, found, masked, last>>
  BY DEF Merge
<1>2. /\ todo \subseteq Spans /\ out \subseteq Spans /\ cur \in Clusters \cup {None}
      /\ None \notin Spans \cup Clusters
  BY <1>1, NoneAssumption DEF Sound, TypeOK
<1>3. s \in Spans /\ s.start \in Nat /\ s.end \in Nat /\ s.start < s.end
  BY <1>2 DEF Sound, Order, NoneEmpty, Spans
<1>4. \A t \in todo' : s.start <= t.start
  <2> SUFFICES ASSUME NEW t \in todo' PROVE s.start <= t.start
    OBVIOUS
  <2>1. t \in todo /\ t.start \in Nat
    BY <1>1, <1>2 DEF Spans
  <2> QED BY <2>1, <1>3 DEF Merge, First
<1>5. (\A t \in raw \cup found \cup todo \cup out : t.start < t.end)
      /\ (cur # None => cur.start < cur.end /\ cur.start \in Nat /\ cur.end \in Nat)
  BY <1>2 DEF Sound, Order, NoneEmpty, Clusters
<1>6. CASE cur # None /\ s.start < cur.end
  <2> DEFINE c == Absorbed(cur, s)
  <2>1. cur' = c /\ out' = out
    BY <1>6 DEF Merge
  <2>2. /\ c \in Clusters /\ c.start = cur.start
        /\ cur.end <= c.end /\ c.floor \in {cur.floor, s}
        /\ c.floor = s => s.label \in Sticky \/ cur.floor = s
    BY <1>2, <1>3, <1>6, AbsorbedTyped
  <2>3. c.start \in Nat /\ c.end \in Nat
    BY <2>2 DEF Clusters
  <2> HIDE DEF c
  <2>4. TypeOK'
    BY <1>1, <2>1, <2>2 DEF Sound, TypeOK
  <2>5. NoneEmpty'
    <3>1. c.start < c.end
      BY <1>5, <1>6, <2>2, <2>3
    <3> QED BY <1>1, <1>5, <2>1, <3>1 DEF NoneEmpty
  <2>6. LoopLocal'
    BY <1>1 DEF Sound, Order, LoopLocal, Loops
  <2>7. Behind'
    BY <1>2, <1>6, <2>1, <2>2 DEF Sound, Order, Behind
  <2>8. Ahead'
    <3>1. \A t \in todo : cur.start <= t.start
      BY <1>1, <1>6 DEF Sound, Order, Ahead
    <3>2. cur.floor # None => cur.floor.label \in Sticky
      BY <1>1, <1>6 DEF Sound, Order, Ahead
    <3>3. c.floor # None => c.floor.label \in Sticky
      BY <3>2, <2>2, <1>2, <1>3
    <3> QED BY <1>1, <2>1, <2>2, <3>1, <3>3 DEF Ahead
  <2> QED BY <2>4, <2>5, <2>6, <2>7, <2>8 DEF Sound, Order
<1>7. CASE ~(cur # None /\ s.start < cur.end)
  <2> DEFINE M == IF cur = None THEN out ELSE out \cup {Finished(cur)}
             c == NewCluster(s)
  <2>1. cur' = c /\ out' = M
    BY <1>7 DEF Merge
  <2>2. M \subseteq Spans /\ Apart(M) /\ \A o \in M : o.start < o.end
    BY <1>1, MergedApart DEF Sound
  <2>3. /\ c \in Clusters /\ c.start = s.start /\ c.end = s.end
        /\ c.floor = IF s.label \in Sticky THEN s ELSE None
    BY <1>3, NewClusterTyped
  <2>4. \A o \in M : o.end <= s.start
    <3>1. CASE cur = None
      BY <3>1 DEF Sound, Order, Behind
    <3>2. CASE cur # None
      <4>1. cur.end <= s.start /\ cur.start <= s.start
        BY <3>2, <1>7, <1>3, <1>5
      <4>2. Finished(cur).end = cur.end
        BY <3>2, <1>2, FinishedTyped
      <4>3. \A o \in out : o.end <= cur.start /\ o.end \in Nat
        BY <3>2, <1>2 DEF Sound, Order, Behind, Spans
      <4>4. \A o \in out : o.end <= s.start
        BY <4>1, <4>3, <3>2, <1>5, <1>3
      <4> QED BY <3>2, <4>1, <4>2, <4>4
    <3> QED BY <3>1, <3>2
  <2> HIDE DEF M, c
  <2>5. TypeOK'
    BY <1>1, <2>1, <2>2, <2>3 DEF Sound, TypeOK
  <2>6. NoneEmpty'
    BY <1>1, <1>3, <1>5, <2>1, <2>2, <2>3 DEF NoneEmpty
  <2>7. LoopLocal'
    BY <1>1 DEF Sound, Order, LoopLocal, Loops
  <2>8. c # None
    BY <1>2, <2>3
  <2>9. Behind'
    BY <2>1, <2>2, <2>3, <2>4, <2>8 DEF Behind
  <2>10. Ahead'
    BY <1>1, <1>4, <2>1, <2>3 DEF Ahead
  <2> QED BY <2>5, <2>6, <2>7, <2>9, <2>10 DEF Sound, Order
<1> QED BY <1>6, <1>7

LEMMA MergeDoneSound ==
  ASSUME Sound, MergeDone
  PROVE  Sound'
<1> DEFINE M == IF cur = None THEN out ELSE out \cup {Finished(cur)}
<1>1. /\ stage \in {"merge", "remerge"} /\ stage' \in {"stitch", "restitch"}
      /\ todo' = M /\ cur' = None /\ out' = {}
      /\ UNCHANGED <<text, config, raw, found, masked, last>>
  BY DEF MergeDone
<1>2. M \subseteq Spans /\ Apart(M) /\ \A s \in M : s.start < s.end
  BY <1>1, MergedApart DEF Sound
<1> HIDE DEF M
<1>3. TypeOK'
  BY <1>1, <1>2 DEF Sound, TypeOK
<1>4. NoneEmpty'
  BY <1>1, <1>2 DEF Sound, Order, NoneEmpty
<1>5. LoopLocal' /\ Behind' /\ Ahead'
  BY <1>1, <1>2 DEF Sound, Order, LoopLocal, Loops, Behind, Ahead, Apart
<1> QED BY <1>3, <1>4, <1>5 DEF Sound, Order

LEMMA StitchSound ==
  ASSUME Sound, NEW s \in todo, Stitch(s)
  PROVE  Sound'
<1>1. /\ stage \in {"stitch", "restitch"} /\ todo' = todo \ {s}
      /\ UNCHANGED <<stage, text, config, raw, found, masked, last>>
  BY DEF Stitch
<1>2. /\ todo \subseteq Spans /\ out \subseteq Spans /\ cur \in Spans \cup {None}
      /\ None \notin Spans
  BY <1>1, NoneAssumption DEF Sound, TypeOK
<1>3. s \in Spans /\ s.start \in Nat /\ s.end \in Nat /\ s.start < s.end
  BY <1>2 DEF Sound, Order, NoneEmpty, Spans
<1>4. Apart(todo) /\ (cur # None => \A t \in todo : cur.end <= t.start)
  BY <1>1 DEF Sound, Order, Ahead
<1>5. (\A t \in raw \cup found \cup todo \cup out : t.start < t.end)
      /\ (cur # None => cur.start < cur.end /\ cur.start \in Nat /\ cur.end \in Nat)
  BY <1>2 DEF Sound, Order, NoneEmpty, Spans
<1>6. \A t \in todo' : s.end <= t.start
  <2> SUFFICES ASSUME NEW t \in todo' PROVE s.end <= t.start
    OBVIOUS
  <2>1. t \in todo /\ t # s /\ t.start \in Nat /\ t.end \in Nat /\ t.start < t.end
    BY <1>1, <1>2, <1>5 DEF Spans
  <2>2. s.start <= t.start
    BY <2>1, <1>3 DEF Stitch, First
  <2>3. s.end <= t.start \/ t.end <= s.start
    BY <2>1, <1>4 DEF Apart
  <2> QED BY <2>1, <2>2, <2>3, <1>3
<1>7. Apart(todo')
  BY <1>1, <1>4 DEF Apart
<1>8. CASE cur # None /\ Stitches(cur, s)
  <2> DEFINE c == Joined(cur, s)
  <2>1. cur' = c /\ out' = out
    BY <1>8 DEF Stitch
  <2>2. c \in Spans /\ c.start = cur.start /\ c.end = s.end
    BY <1>2, <1>3, <1>8, JoinedTyped
  <2> HIDE DEF c
  <2>3. c.start < c.end
    BY <2>2, <1>3, <1>4, <1>5, <1>8
  <2>4. TypeOK'
    BY <1>1, <2>1, <2>2 DEF Sound, TypeOK
  <2>5. NoneEmpty'
    BY <1>1, <1>5, <2>1, <2>3 DEF NoneEmpty
  <2>6. LoopLocal'
    BY <1>1 DEF Sound, Order, LoopLocal, Loops
  <2>7. Behind'
    BY <1>2, <1>8, <2>1, <2>2 DEF Sound, Order, Behind
  <2>8. Ahead'
    BY <1>1, <1>6, <1>7, <2>1, <2>2 DEF Ahead
  <2> QED BY <2>4, <2>5, <2>6, <2>7, <2>8 DEF Sound, Order
<1>9. CASE ~(cur # None /\ Stitches(cur, s))
  <2>1. cur' = s /\ out' = Stitched
    BY <1>9 DEF Stitch, Stitched
  <2>2. Stitched \subseteq Spans /\ Apart(Stitched) /\ \A o \in Stitched : o.start < o.end
    BY <1>1, StitchedApart DEF Sound
  <2>3. \A o \in Stitched : o.end <= s.start
    <3>1. CASE cur = None
      BY <3>1 DEF Sound, Order, Behind, Stitched
    <3>2. CASE cur # None
      <4>1. cur.end <= s.start
        BY <3>2, <1>4
      <4>2. \A o \in out : o.end <= cur.start /\ o.end \in Nat
        BY <3>2, <1>2 DEF Sound, Order, Behind, Spans
      <4>3. \A o \in out : o.end <= s.start
        BY <4>1, <4>2, <3>2, <1>5, <1>3
      <4> QED BY <3>2, <4>1, <4>3 DEF Stitched
    <3> QED BY <3>1, <3>2
  <2>4. TypeOK'
    BY <1>1, <1>3, <2>1, <2>2 DEF Sound, TypeOK
  <2>5. NoneEmpty'
    BY <1>1, <1>3, <1>5, <2>1, <2>2 DEF NoneEmpty
  <2>6. LoopLocal'
    BY <1>1 DEF Sound, Order, LoopLocal, Loops
  <2>7. Behind'
    BY <1>2, <1>3, <2>1, <2>2, <2>3 DEF Behind
  <2>8. Ahead'
    BY <1>1, <1>6, <1>7, <2>1 DEF Ahead
  <2> QED BY <2>4, <2>5, <2>6, <2>7, <2>8 DEF Sound, Order
<1> QED BY <1>8, <1>9

LEMMA FilterSound ==
  ASSUME Sound, Filter
  PROVE  Sound'
<1>1. /\ stage = "stitch" /\ stage' = IF Denied = {} THEN "redact" ELSE "remerge"
      /\ todo' = Kept \cup Denied /\ cur' = None /\ out' = {}
      /\ UNCHANGED <<text, config, raw, found, masked, last>>
  BY DEF Filter
<1>2. Stitched \subseteq Spans /\ Apart(Stitched) /\ \A s \in Stitched : s.start < s.end
  BY <1>1, StitchedApart DEF Sound
<1>3. Kept \subseteq Stitched
  BY DEF Kept
<1>4. Denied \subseteq Spans /\ \A s \in Denied : s.start < s.end
  BY DeniedTyped DEF Sound, TypeOK
<1>5. last = 0 /\ masked = {}
  BY <1>1 DEF Sound, Order, LoopLocal
<1>6. TypeOK'
  BY <1>1, <1>2, <1>3, <1>4 DEF Sound, TypeOK
<1>7. NoneEmpty'
  BY <1>1, <1>2, <1>3, <1>4 DEF Sound, Order, NoneEmpty
<1>8. LoopLocal'
  BY <1>1, <1>5 DEF LoopLocal, Loops
<1>9. Behind'
  BY <1>1 DEF Behind, Apart
<1>10. Ahead'
  <2>1. CASE Denied = {}
    <3>1. todo' \subseteq Stitched /\ stage' = "redact"
      BY <2>1, <1>1, <1>3
    <3>2. Apart(todo')
      BY <3>1, <1>2 DEF Apart
    <3>3. \A t \in todo' : last' <= t.start
      BY <3>1, <1>1, <1>2, <1>5 DEF Spans
    <3> QED BY <3>1, <3>2, <3>3 DEF Ahead
  <2>2. CASE Denied # {}
    BY <2>2, <1>1 DEF Ahead
  <2> QED BY <2>1, <2>2
<1> QED BY <1>6, <1>7, <1>8, <1>9, <1>10 DEF Sound, Order

LEMMA RestitchDoneSound ==
  ASSUME Sound, RestitchDone
  PROVE  Sound'
<1>1. /\ stage = "restitch" /\ stage' = "redact"
      /\ todo' = Stitched /\ cur' = None /\ out' = {}
      /\ UNCHANGED <<text, config, raw, found, masked, last>>
  BY DEF RestitchDone
<1>2. Stitched \subseteq Spans /\ Apart(Stitched) /\ \A s \in Stitched : s.start < s.end
  BY <1>1, StitchedApart DEF Sound
<1>3. last = 0 /\ masked = {}
  BY <1>1 DEF Sound, Order, LoopLocal
<1>4. TypeOK'
  BY <1>1, <1>2 DEF Sound, TypeOK
<1>5. NoneEmpty'
  BY <1>1, <1>2 DEF Sound, Order, NoneEmpty
<1>6. LoopLocal' /\ Behind'
  BY <1>1 DEF LoopLocal, Loops, Behind, Apart
<1>7. Ahead'
  BY <1>1, <1>2, <1>3 DEF Ahead, Spans
<1> QED BY <1>4, <1>5, <1>6, <1>7 DEF Sound, Order

LEMMA RedactSound ==
  ASSUME Sound, NEW s \in todo, Redact(s)
  PROVE  Sound'
<1>1. /\ stage = "redact" /\ todo' = todo \ {s}
      /\ masked' \in {masked, masked \cup {s}} /\ last' \in {last, s.end}
      /\ UNCHANGED <<stage, text, config, raw, found, cur, out>>
  BY DEF Redact
<1>2. todo \subseteq Spans
  BY <1>1 DEF Sound, TypeOK
<1>3. s \in Spans /\ s.start \in Nat /\ s.end \in Nat /\ s.start < s.end
  BY <1>2 DEF Sound, Order, NoneEmpty, Spans
<1>4. Apart(todo) /\ \A t \in todo : last <= t.start
  BY <1>1 DEF Sound, Order, Ahead
<1>5. \A t \in todo' : s.end <= t.start
  <2> SUFFICES ASSUME NEW t \in todo' PROVE s.end <= t.start
    OBVIOUS
  <2>1. t \in todo /\ t # s /\ t.start \in Nat /\ t.end \in Nat /\ t.start < t.end
    BY <1>1, <1>2 DEF Sound, Order, NoneEmpty, Spans
  <2>2. s.start <= t.start
    BY <2>1, <1>3 DEF Redact, First
  <2>3. s.end <= t.start \/ t.end <= s.start
    BY <2>1, <1>4 DEF Apart
  <2> QED BY <2>1, <2>2, <2>3, <1>3
<1>6. TypeOK'
  BY <1>1, <1>2, <1>3 DEF Sound, TypeOK
<1>7. NoneEmpty'
  BY <1>1 DEF Sound, Order, NoneEmpty
<1>8. LoopLocal' /\ Behind'
  BY <1>1 DEF Sound, Order, LoopLocal, Loops, Behind
<1>9. Ahead'
  BY <1>1, <1>4, <1>5 DEF Ahead, Apart
<1> QED BY <1>6, <1>7, <1>8, <1>9 DEF Sound, Order

LEMMA RedactDoneSound ==
  ASSUME Sound, RedactDone
  PROVE  Sound'
<1>1. /\ stage = "redact" /\ todo = {} /\ stage' = "done"
      /\ UNCHANGED <<text, config, raw, found, todo, cur, out, masked, last>>
  BY DEF RedactDone
<1>2. TypeOK'
  BY <1>1 DEF Sound, TypeOK
<1>3. Order'
  BY <1>1 DEF Sound, Order, NoneEmpty, LoopLocal, Loops, Behind, Ahead
<1> QED BY <1>2, <1>3 DEF Sound

LEMMA InitSound ==
  ASSUME Init
  PROVE  Sound
<1>1. TypeOK
  BY DEF Init, TypeOK
<1>2. Order
  BY DEF Init, Order, NoneEmpty, LoopLocal, Loops, Behind, Ahead, Apart
<1> QED BY <1>1, <1>2 DEF Sound

LEMMA NextSound ==
  ASSUME Sound, [Next]_vars
  PROVE  Sound'
<1>1. CASE Detect \/ Detected
  BY <1>1, DetectSound
<1>2. CASE StartMerge
  BY <1>2, StartMergeSound
<1>3. CASE MergeDone
  BY <1>3, MergeDoneSound
<1>4. CASE Filter
  BY <1>4, FilterSound
<1>5. CASE RestitchDone
  BY <1>5, RestitchDoneSound
<1>6. CASE RedactDone
  BY <1>6, RedactDoneSound
<1>7. ASSUME NEW s \in todo, Prepare(s) \/ Merge(s) \/ Stitch(s) \/ Redact(s)
      PROVE  Sound'
  BY <1>7, PrepareSound, MergeSound, StitchSound, RedactSound
<1>8. CASE UNCHANGED vars
  BY <1>8 DEF vars, Sound, TypeOK, Order, NoneEmpty, LoopLocal, Behind, Ahead
<1> QED BY <1>1, <1>2, <1>3, <1>4, <1>5, <1>6, <1>7, <1>8 DEF Next

\* Whatever the detectors say and however their spans overlap, every stage of
\* process_field hands the next one spans with a known label and a confidence
\* between 0 and 1.
THEOREM TypeCorrect == Spec => []TypeOK
<1>1. Init => Sound
  BY InitSound
<1>2. Sound /\ [Next]_vars => Sound'
  BY NextSound
<1>3. Sound => TypeOK
  BY DEF Sound
<1> QED BY <1>1, <1>2, <1>3, PTL DEF Spec
-----------------------------------------------------------------------------
(* A floor hit is never lost on the way *)

Holds(S, h) == \E s \in S : s.label \in Sticky /\ Inside(At(h), At(s))

Exempt(h) == text.tokens # {} \/ \E i \in text.hashes : Inside(At(h), i)

Carried(h) ==
  /\ cur # None /\ Inside(At(h), At(cur))
  /\ IF stage \in {"merge", "remerge"} THEN cur.floor # None ELSE cur.label \in Sticky

HeldHit(h) ==
  /\ stage = "prepare" => h \in todo \/ Holds(found, h)
  /\ stage \in Loops => Holds(todo, h) \/ Holds(out, h) \/ Carried(h)
  /\ stage \in {"redact", "done"} => Holds(todo, h) \/ Holds(masked, h)

Held == \A h \in FloorHits : Exempt(h) \/ HeldHit(h)

LEMMA InsideTransitive ==
  ASSUME NEW h, NEW s, NEW c,
         h.start \in Int, h.end \in Int, s.start \in Int, s.end \in Int,
         c.start \in Int, c.end \in Int,
         Inside(At(h), At(s)), c.start <= s.start, s.end <= c.end
  PROVE  Inside(At(h), At(c))
  BY DEF Inside, At

LEMMA HitsFixed ==
  ASSUME UNCHANGED <<raw, text>>
  PROVE  FloorHits' = FloorHits /\ \A h : Exempt(h)' <=> Exempt(h)
  BY DEF FloorHits, Exempt, At

LEMMA HitsTyped ==
  ASSUME TypeOK, NEW h \in FloorHits
  PROVE  h \in raw /\ h \in RawSpans /\ h.start \in Nat /\ h.end \in Nat
  BY DEF TypeOK, FloorHits, RawSpans

LEMMA PrepareHeld ==
  ASSUME Sound, Held, NEW s \in todo, Prepare(s)
  PROVE  Held'
<1>1. /\ stage = "prepare" /\ todo' = todo \ {s}
      /\ UNCHANGED <<stage, text, raw>>
  BY DEF Prepare
<1>2. found \subseteq found'
  BY DEF Prepare
<1> SUFFICES ASSUME NEW h \in FloorHits, ~Exempt(h)
             PROVE  h \in todo' \/ Holds(found', h)
  BY <1>1, HitsFixed DEF Held, HeldHit, Loops, Holds
<1>3. h \in todo \/ Holds(found, h)
  BY <1>1 DEF Held, HeldHit
<1>4. CASE Holds(found, h)
  BY <1>2, <1>4 DEF Holds
<1>5. CASE h \in todo /\ h # s
  BY <1>1, <1>5
<1>6. CASE h = s
  <2>1. /\ h \in RawSpans /\ h.tier = 0 /\ h.label \in Sticky
        /\ ~(h.label \in UuidRelabel /\ At(h) \in text.uuids)
    BY HitsTyped DEF Sound, FloorHits
  <2>2. Demoted(h) = {h}
    BY <2>1 DEF Demoted
  <2>3. ~PathLike(h)
    BY <2>1, SoftNotSticky DEF PathLike, Soft
  <2>4. Narrowed(h) = h
    BY <2>3 DEF Narrowed
  <2>5. Expanded(h) = h
    BY <2>1 DEF Expanded
  <2>6. h # None
    BY <2>1, NoneAssumption
  <2>7. Span(h.start, h.end, h.label, h.conf) \in found'
    BY <1>6, <2>2, <2>4, <2>5, <2>6 DEF Prepare
  <2>8. /\ Span(h.start, h.end, h.label, h.conf).label = h.label
        /\ At(Span(h.start, h.end, h.label, h.conf)) = At(h)
    BY DEF Span, At
  <2>9. Inside(At(h), At(h))
    BY <2>1 DEF Inside, At, RawSpans
  <2> QED BY <2>1, <2>7, <2>8, <2>9 DEF Holds
<1> QED BY <1>3, <1>4, <1>5, <1>6

LEMMA MergeHeld ==
  ASSUME Sound, Held, NEW s \in todo, Merge(s)
  PROVE  Held'
<1>1. /\ stage \in {"merge", "remerge"} /\ todo' = todo \ {s}
      /\ UNCHANGED <<stage, text, raw>>
  BY DEF Merge
<1> SUFFICES ASSUME NEW h \in FloorHits, ~Exempt(h)
             PROVE  Holds(todo', h) \/ Holds(out', h) \/ Carried(h)'
  BY <1>1, HitsFixed DEF Held, HeldHit, Loops
<1>2. /\ todo \subseteq Spans /\ out \subseteq Spans /\ cur \in Clusters \cup {None}
      /\ None \notin Spans \cup Clusters
  BY <1>1, NoneAssumption DEF Sound, TypeOK
<1>3. s \in Spans /\ s.start \in Nat /\ s.end \in Nat
  BY <1>2 DEF Spans
<1>4. h.start \in Nat /\ h.end \in Nat
  BY HitsTyped DEF Sound
<1>5. cur # None => /\ cur \in Clusters /\ cur.start \in Nat /\ cur.end \in Nat
                    /\ cur.start <= s.start
                    /\ cur.floor # None => cur.floor.label \in Sticky
  BY <1>1, <1>2 DEF Sound, Order, Ahead, Clusters
<1>6. Holds(todo, h) \/ Holds(out, h) \/ Carried(h)
  BY <1>1 DEF Held, HeldHit, Loops
<1>7. out \subseteq out'
  BY DEF Merge
<1>8. CASE Holds(out, h)
  BY <1>7, <1>8 DEF Holds
<1>9. CASE Holds(todo', h)
  BY <1>9
<1>10. CASE s.label \in Sticky /\ Inside(At(h), At(s))
  <2>1. CASE cur # None /\ s.start < cur.end
    <3> DEFINE c == Absorbed(cur, s)
    <3>1. cur' = c
      BY <2>1 DEF Merge
    <3>2. /\ c \in Clusters /\ c.start = cur.start /\ s.end <= c.end /\ c.floor # None
      BY <2>1, <1>3, <1>5, <1>10, AbsorbedTyped
    <3>3. c.start \in Nat /\ c.end \in Nat /\ c # None
      BY <3>2, <1>2 DEF Clusters
    <3> HIDE DEF c
    <3>4. Inside(At(h), At(c))
      BY <3>2, <3>3, <2>1, <1>3, <1>4, <1>5, <1>10, InsideTransitive
    <3> QED BY <1>1, <3>1, <3>2, <3>3, <3>4 DEF Carried, At
  <2>2. CASE ~(cur # None /\ s.start < cur.end)
    <3> DEFINE c == NewCluster(s)
    <3>1. cur' = c
      BY <2>2 DEF Merge
    <3>2. c \in Clusters /\ c.start = s.start /\ c.end = s.end /\ c.floor = s
      BY <1>3, <1>10, NewClusterTyped
    <3> HIDE DEF c
    <3>3. At(c) = At(s) /\ c # None /\ c.floor # None
      BY <3>2, <1>2, <1>3 DEF At
    <3> QED BY <1>1, <1>10, <3>1, <3>3 DEF Carried, At
  <2> QED BY <2>1, <2>2
<1>11. CASE Carried(h)
  <2>1. cur # None /\ Inside(At(h), At(cur)) /\ cur.floor # None
    BY <1>1, <1>11 DEF Carried
  <2>2. CASE s.start < cur.end
    <3> DEFINE c == Absorbed(cur, s)
    <3>1. cur' = c
      BY <2>1, <2>2 DEF Merge
    <3>2. /\ c \in Clusters /\ c.start = cur.start /\ cur.end <= c.end /\ c.floor # None
      BY <2>1, <1>3, <1>5, AbsorbedTyped
    <3>3. c.start \in Nat /\ c.end \in Nat /\ c # None
      BY <3>2, <1>2 DEF Clusters
    <3> HIDE DEF c
    <3>4. Inside(At(h), At(c))
      BY <3>2, <3>3, <2>1, <1>4, <1>5, InsideTransitive
    <3> QED BY <1>1, <3>1, <3>2, <3>3, <3>4 DEF Carried, At
  <2>3. CASE ~(s.start < cur.end)
    <3> DEFINE f == Finished(cur)
    <3>1. f \in out'
      BY <2>1, <2>3 DEF Merge
    <3>2. f.start = cur.start /\ f.end = cur.end /\ f.label \in Sticky
      BY <2>1, <1>5, FinishedTyped
    <3> HIDE DEF f
    <3>3. At(f) = At(cur)
      BY <3>2 DEF At
    <3> QED BY <2>1, <3>1, <3>2, <3>3 DEF Holds
  <2> QED BY <2>2, <2>3
<1>12. CASE Holds(todo, h)
  BY <1>1, <1>9, <1>10, <1>12 DEF Holds
<1> QED BY <1>6, <1>8, <1>11, <1>12

LEMMA MergeDoneHeld ==
  ASSUME Sound, Held, MergeDone
  PROVE  Held'
<1>1. /\ stage \in {"merge", "remerge"} /\ stage' \in {"stitch", "restitch"} /\ todo = {}
      /\ todo' = IF cur = None THEN out ELSE out \cup {Finished(cur)}
      /\ UNCHANGED <<text, raw>>
  BY DEF MergeDone
<1> SUFFICES ASSUME NEW h \in FloorHits, ~Exempt(h)
             PROVE  Holds(todo', h)
  BY <1>1, HitsFixed DEF Held, HeldHit, Loops, Holds
<1>2. Holds(out, h) \/ Carried(h)
  BY <1>1 DEF Held, HeldHit, Loops, Holds
<1>3. CASE Holds(out, h)
  BY <1>1, <1>3 DEF Holds
<1>4. CASE Carried(h)
  <2>1. cur # None /\ Inside(At(h), At(cur)) /\ cur.floor # None
    BY <1>1, <1>4 DEF Carried
  <2>2. cur \in Clusters /\ cur.floor.label \in Sticky
    BY <1>1, <2>1 DEF Sound, TypeOK, Order, Ahead
  <2> DEFINE f == Finished(cur)
  <2>3. f \in todo'
    BY <1>1, <2>1
  <2>4. f.start = cur.start /\ f.end = cur.end /\ f.label \in Sticky
    BY <2>1, <2>2, FinishedTyped
  <2> HIDE DEF f
  <2>5. At(f) = At(cur)
    BY <2>4 DEF At
  <2> QED BY <2>1, <2>3, <2>4, <2>5 DEF Holds
<1> QED BY <1>2, <1>3, <1>4

LEMMA StitchHeld ==
  ASSUME Sound, Held, NEW s \in todo, Stitch(s)
  PROVE  Held'
<1>1. /\ stage \in {"stitch", "restitch"} /\ todo' = todo \ {s}
      /\ UNCHANGED <<stage, text, raw>>
  BY DEF Stitch
<1> SUFFICES ASSUME NEW h \in FloorHits, ~Exempt(h)
             PROVE  Holds(todo', h) \/ Holds(out', h) \/ Carried(h)'
  BY <1>1, HitsFixed DEF Held, HeldHit, Loops
<1>2. s \in Spans /\ None \notin Spans
  BY <1>1, NoneAssumption DEF Sound, TypeOK
<1>3. Holds(todo, h) \/ Holds(out, h) \/ Carried(h)
  BY <1>1 DEF Held, HeldHit, Loops
<1>4. out \subseteq out'
  BY DEF Stitch
<1>5. CASE cur # None /\ Stitches(cur, s)
  <2>1. cur.label = "address" /\ s.label \in {"address", "postal_code"}
    BY <1>5 DEF Stitches
  <2>2. cur.label \notin Sticky /\ s.label \notin Sticky
    BY <2>1, SoftNotSticky DEF Soft
  <2>3. ~Carried(h)
    BY <1>1, <2>2 DEF Carried
  <2>4. Holds(todo, h) => Holds(todo', h)
    BY <1>1, <2>2 DEF Holds
  <2> QED BY <1>3, <1>4, <2>3, <2>4 DEF Holds
<1>6. CASE ~(cur # None /\ Stitches(cur, s))
  <2>1. cur' = s /\ out' = Stitched
    BY <1>6 DEF Stitch, Stitched
  <2>2. CASE Carried(h)
    <3>1. cur \in Stitched
      BY <2>2 DEF Carried, Stitched
    <3>2. cur.label \in Sticky /\ Inside(At(h), At(cur))
      BY <1>1, <2>2 DEF Carried
    <3> QED BY <2>1, <3>1, <3>2 DEF Holds
  <2>3. CASE Holds(out, h)
    BY <1>4, <2>3 DEF Holds
  <2>4. CASE s.label \in Sticky /\ Inside(At(h), At(s))
    BY <1>1, <1>2, <2>1, <2>4 DEF Carried, At
  <2>5. CASE Holds(todo, h)
    BY <1>1, <2>4, <2>5 DEF Holds
  <2> QED BY <1>3, <2>2, <2>3, <2>5
<1> QED BY <1>5, <1>6

LEMMA StitchedHeld ==
  ASSUME Held, stage \in {"stitch", "restitch"}, todo = {},
         NEW h \in FloorHits, ~Exempt(h)
  PROVE  Holds(Stitched, h)
<1>1. Holds(out, h) \/ Carried(h)
  BY DEF Held, HeldHit, Loops, Holds
<1>2. CASE Holds(out, h)
  BY <1>2 DEF Holds, Stitched
<1>3. CASE Carried(h)
  BY <1>3 DEF Carried, Holds, Stitched
<1> QED BY <1>1, <1>2, <1>3

LEMMA FilterHeld ==
  ASSUME Sound, Held, Filter
  PROVE  Held'
<1>1. /\ stage = "stitch" /\ todo = {} /\ stage' \in {"redact", "remerge"}
      /\ todo' = Kept \cup Denied /\ UNCHANGED <<text, raw>>
  BY DEF Filter
<1> SUFFICES ASSUME NEW h \in FloorHits, ~Exempt(h)
             PROVE  Holds(todo', h)
  BY <1>1, HitsFixed DEF Held, HeldHit, Loops, Holds
<1>2. PICK s \in Stitched : s.label \in Sticky /\ Inside(At(h), At(s))
  BY <1>1, StitchedHeld DEF Holds
<1>3. At(s) \notin text.hashes
  BY <1>2 DEF Exempt
<1>4. s \in Kept
  BY <1>2, <1>3 DEF Kept
<1> QED BY <1>1, <1>2, <1>4 DEF Holds

LEMMA RestitchDoneHeld ==
  ASSUME Sound, Held, RestitchDone
  PROVE  Held'
<1>1. /\ stage = "restitch" /\ todo = {} /\ stage' = "redact"
      /\ todo' = Stitched /\ UNCHANGED <<text, raw>>
  BY DEF RestitchDone
<1> SUFFICES ASSUME NEW h \in FloorHits, ~Exempt(h)
             PROVE  Holds(todo', h)
  BY <1>1, HitsFixed DEF Held, HeldHit, Loops, Holds
<1> QED BY <1>1, StitchedHeld

LEMMA RedactHeld ==
  ASSUME Sound, Held, NEW s \in todo, Redact(s)
  PROVE  Held'
<1>1. /\ stage = "redact" /\ todo' = todo \ {s}
      /\ UNCHANGED <<stage, text, raw>>
  BY DEF Redact
<1> SUFFICES ASSUME NEW h \in FloorHits, ~Exempt(h)
             PROVE  Holds(todo', h) \/ Holds(masked', h)
  BY <1>1, HitsFixed DEF Held, HeldHit, Loops, Holds
<1>2. s \in Spans /\ last \in Nat /\ last <= s.start /\ text.tokens = {}
  BY <1>1 DEF Sound, TypeOK, Order, Ahead, Exempt
<1>3. Holds(todo, h) \/ Holds(masked, h)
  BY <1>1 DEF Held, HeldHit
<1>4. masked \subseteq masked'
  BY DEF Redact
<1>5. CASE s.label \in Sticky /\ Inside(At(h), At(s))
  <2>1. s.start >= last
    BY <1>2 DEF Spans
  <2>2. Redacts(s.label) /\ ~HasToken(s)
    BY <1>2, <1>5 DEF Redacts, HasToken
  <2>3. s \in masked'
    BY <2>1, <2>2 DEF Redact
  <2> QED BY <1>5, <2>3 DEF Holds
<1>6. CASE Holds(masked, h)
  BY <1>4, <1>6 DEF Holds
<1>7. CASE Holds(todo, h)
  BY <1>1, <1>5, <1>7 DEF Holds
<1> QED BY <1>3, <1>6, <1>7

LEMMA NextHeld ==
  ASSUME Sound, Held, [Next]_vars
  PROVE  Held'
<1>1. CASE Detect
  BY <1>1 DEF Detect, Held, HeldHit, Loops
<1>2. CASE Detected
  <2>1. stage' = "prepare" /\ todo' = raw /\ UNCHANGED <<text, raw>>
    BY <1>2 DEF Detected
  <2> QED BY <2>1, HitsFixed DEF Held, HeldHit, Loops, FloorHits
<1>3. CASE StartMerge
  <2>1. /\ stage = "prepare" /\ todo = {} /\ stage' = "merge" /\ todo' = found
        /\ UNCHANGED <<text, raw, found>>
    BY <1>3 DEF StartMerge
  <2>2. \A h \in FloorHits : Exempt(h) \/ Holds(found, h)
    BY <2>1 DEF Held, HeldHit
  <2> QED BY <2>1, <2>2, HitsFixed DEF Held, HeldHit, Loops, Holds
<1>4. CASE MergeDone
  BY <1>4, MergeDoneHeld
<1>5. CASE Filter
  BY <1>5, FilterHeld
<1>6. CASE RestitchDone
  BY <1>6, RestitchDoneHeld
<1>7. CASE RedactDone
  <2>1. stage = "redact" /\ stage' = "done" /\ UNCHANGED <<text, raw, todo, masked>>
    BY <1>7 DEF RedactDone
  <2> QED BY <2>1, HitsFixed DEF Held, HeldHit, Loops, Holds
<1>8. ASSUME NEW s \in todo, Prepare(s) \/ Merge(s) \/ Stitch(s) \/ Redact(s)
      PROVE  Held'
  BY <1>8, PrepareHeld, MergeHeld, StitchHeld, RedactHeld
<1>9. CASE UNCHANGED vars
  BY <1>9 DEF vars, Held, HeldHit, FloorHits, Exempt, Carried, Holds, At
<1> QED BY <1>1, <1>2, <1>3, <1>4, <1>5, <1>6, <1>7, <1>8, <1>9 DEF Next

LEMMA HeldIsKept ==
  ASSUME Sound, Held
  PROVE  FloorKept
<1> SUFFICES ASSUME stage = "done", NEW h \in FloorHits, ~Exempt(h)
             PROVE  Covers({m \in masked : m.label \in Sticky}, At(h))
  BY DEF FloorKept, Exempt
<1>1. todo = {}
  BY DEF Sound, Order, LoopLocal
<1>2. Holds(masked, h)
  BY <1>1 DEF Held, HeldHit, Holds
<1> QED BY <1>2 DEF Holds, Covers

\* Whatever other spans overlap it, in any number and order, and whatever the
\* mode, the policy, the allowlist and the denylist say, redact_text masks a
\* deterministic floor hit in full and under a floor label, in every text that
\* holds no placeholder yet.
THEOREM FloorAlwaysKept == Spec => []FloorKept
<1>1. Init => Sound /\ Held
  BY InitSound DEF Init, Held, HeldHit, Loops
<1>2. Sound /\ Held /\ [Next]_vars => (Sound /\ Held)'
  BY NextSound, NextHeld
<1>3. Sound /\ Held => FloorKept
  BY HeldIsKept
<1> QED BY <1>1, <1>2, <1>3, PTL DEF Spec

-----------------------------------------------------------------------------
(* The merge finds the components *)

\* An interval that starts and ends where spans do, with no seam in it.
Seamless(F, c) ==
  /\ \E f \in F : f.start = c.start
  /\ \E f \in F : f.end = c.end
  /\ \A p \in c.start + 1 .. c.end - 1 : \E f \in F : f.start < p /\ p < f.end

CurCovers(i) == cur # None /\ Inside(i, At(cur))

Merging ==
  /\ stage = "merge" =>
       /\ todo \subseteq found
       /\ \A f \in found : f \in todo \/ Covers(out, At(f)) \/ CurCovers(At(f))
       /\ \A o \in out : Seamless(found, o)
       /\ cur # None => Seamless(found, cur)
  /\ stage = "stitch" /\ cur = None => {At(s) : s \in todo} = Components(found)

LEMMA SpanFacts ==
  ASSUME NEW s \in Spans
  PROVE  /\ s.start \in Nat /\ s.end \in Nat
         /\ At(s)[1] = s.start /\ At(s)[2] = s.end
  BY DEF Spans, At

\* Seamless intervals that lie apart and cover every span are the components.
LEMMA SeamlessCoverIsComponents ==
  ASSUME NEW F \in SUBSET Spans, NEW M \in SUBSET Spans,
         \A s \in F \cup M : s.start < s.end,
         Apart(M),
         \A f \in F : Covers(M, At(f)),
         \A m \in M : Seamless(F, m)
  PROVE  {At(m) : m \in M} = Components(F)
<1>1. \A s \in F \cup M : s.start \in Nat /\ s.end \in Nat /\ s.start < s.end
  BY SpanFacts
<1>2. \A f \in F : \E m \in M : m.start <= f.start /\ f.end <= m.end
  BY SpanFacts DEF Covers, Inside
<1>3. ASSUME NEW m \in M
      PROVE  At(m) \in Components(F)
  <2>1. \A f \in F : f.start < m.end /\ m.start < f.end =>
                       m.start <= f.start /\ f.end <= m.end
    <3> SUFFICES ASSUME NEW f \in F, f.start < m.end, m.start < f.end
                 PROVE  m.start <= f.start /\ f.end <= m.end
      OBVIOUS
    <3>1. PICK n \in M : n.start <= f.start /\ f.end <= n.end
      BY <1>2
    <3>2. n = m
      BY <1>1, <3>1 DEF Apart
    <3> QED BY <3>1, <3>2
  <2>2. \A f \in F : Meets(At(f), At(m)) => Inside(At(f), At(m))
    BY <2>1, SpanFacts DEF Meets, Inside
  <2>3. At(m) \in {f.start : f \in F} \X {f.end : f \in F}
    BY DEF Seamless, At
  <2>4. At(m)[1] < At(m)[2]
    BY <1>1, SpanFacts
  <2>5. \A p \in At(m)[1] + 1 .. At(m)[2] - 1 : \E f \in F : f.start < p /\ p < f.end
    BY SpanFacts DEF Seamless
  <2> QED BY <2>2, <2>3, <2>4, <2>5 DEF Components
<1>4. ASSUME NEW i \in Components(F)
      PROVE  \E m \in M : i = At(m)
  <2>1. PICK a \in F, b \in F : i = <<a.start, b.end>>
    BY DEF Components
  <2>2. i[1] = a.start /\ i[2] = b.end /\ i[1] \in Nat /\ i[2] \in Nat /\ i[1] < i[2]
    BY <1>1, <2>1 DEF Components
  <2>3. \A f \in F : f.start < i[2] /\ i[1] < f.end => i[1] <= f.start /\ f.end <= i[2]
    BY SpanFacts DEF Components, Meets, Inside
  <2>4. \A p \in Nat : i[1] < p /\ p < i[2] => \E f \in F : f.start < p /\ p < f.end
    <3> SUFFICES ASSUME NEW p \in Nat, i[1] < p, p < i[2]
                 PROVE  \E f \in F : f.start < p /\ p < f.end
      OBVIOUS
    <3>1. p \in i[1] + 1 .. i[2] - 1
      BY <2>2
    <3> QED BY <3>1 DEF Components
  <2>5. PICK m \in M : m.start <= a.start /\ a.end <= m.end
    BY <1>2
  <2>6. \A p \in Nat : m.start < p /\ p < m.end => \E f \in F : f.start < p /\ p < f.end
    <3> SUFFICES ASSUME NEW p \in Nat, m.start < p, p < m.end
                 PROVE  \E f \in F : f.start < p /\ p < f.end
      OBVIOUS
    <3>1. p \in m.start + 1 .. m.end - 1
      BY <1>1
    <3> QED BY <3>1 DEF Seamless
  <2>7. m.start = i[1]
    <3> SUFFICES ASSUME m.start < i[1] PROVE FALSE
      BY <1>1, <2>2, <2>5
    <3>1. i[1] < m.end
      BY <1>1, <2>2, <2>5
    <3>2. PICK f \in F : f.start < i[1] /\ i[1] < f.end
      BY <2>2, <2>6, <3>1
    <3> QED BY <1>1, <2>2, <2>3, <3>2
  <2>8. ~(i[2] < m.end)
    <3> SUFFICES ASSUME i[2] < m.end PROVE FALSE
      OBVIOUS
    <3>1. PICK f \in F : f.start < i[2] /\ i[2] < f.end
      BY <2>2, <2>6, <2>7
    <3> QED BY <1>1, <2>2, <2>3, <3>1
  <2>9. ~(m.end < i[2])
    <3> SUFFICES ASSUME m.end < i[2] PROVE FALSE
      OBVIOUS
    <3>1. PICK f \in F : f.start < m.end /\ m.end < f.end
      BY <1>1, <2>4, <2>7
    <3>2. PICK n \in M : n.start <= f.start /\ f.end <= n.end
      BY <1>2
    <3>3. n = m \/ n.end <= m.start \/ m.end <= n.start
      BY DEF Apart
    <3> QED BY <1>1, <3>1, <3>2, <3>3
  <2>10. m.end = i[2]
    BY <1>1, <2>2, <2>8, <2>9
  <2> QED BY <2>1, <2>2, <2>7, <2>10 DEF At
<1> QED BY <1>3, <1>4

LEMMA MergeMerges ==
  ASSUME Sound, Merging, NEW s \in todo, Merge(s)
  PROVE  Merging'
<1>1. /\ stage \in {"merge", "remerge"} /\ stage' = stage /\ todo' = todo \ {s}
      /\ found' = found
  BY DEF Merge
<1> SUFFICES ASSUME stage = "merge"
             PROVE  /\ todo' \subseteq found
                    /\ \A f \in found : f \in todo' \/ Covers(out', At(f)) \/ CurCovers(At(f))'
                    /\ \A o \in out' : Seamless(found, o)
                    /\ cur' # None => Seamless(found, cur')
  BY <1>1 DEF Merging
<1>2. /\ todo \subseteq found /\ found \subseteq Spans /\ out \subseteq Spans
      /\ cur \in Clusters \cup {None} /\ None \notin Spans \cup Clusters
      /\ \A o \in out : Seamless(found, o)
  BY NoneAssumption DEF Sound, TypeOK, Merging
<1>3. s \in found /\ s \in Spans /\ s.start \in Nat /\ s.end \in Nat /\ s.start < s.end
  BY <1>2, SpanFacts DEF Sound, Order, NoneEmpty
<1>4. \A f \in found : f \in todo \/ Covers(out, At(f)) \/ CurCovers(At(f))
  BY DEF Merging
<1>5. \A f \in found : f.start \in Nat /\ f.end \in Nat
  BY <1>2, SpanFacts
<1>6. CASE cur # None /\ s.start < cur.end
  <2> DEFINE c == Absorbed(cur, s)
  <2>1. cur' = c /\ out' = out
    BY <1>6 DEF Merge
  <2>2. /\ c \in Clusters /\ c.start = cur.start
        /\ cur.end <= c.end /\ s.end <= c.end /\ c.end \in {cur.end, s.end}
    BY <1>2, <1>3, <1>6, AbsorbedTyped, AbsorbedEnd
  <2>3. /\ cur.start \in Nat /\ cur.end \in Nat /\ c.start \in Nat /\ c.end \in Nat
        /\ c # None
    BY <1>2, <1>6, <2>2 DEF Clusters
  <2>4. cur.start <= s.start /\ Seamless(found, cur)
    BY <1>1, <1>6 DEF Sound, Order, Ahead, Merging
  <2> HIDE DEF c
  <2>5. Inside(At(s), At(c))
    BY <1>3, <2>2, <2>3, <2>4 DEF Inside, At
  <2>6. \A f \in found : CurCovers(At(f)) => Inside(At(f), At(c))
    <3> SUFFICES ASSUME NEW f \in found, Inside(At(f), At(cur))
                 PROVE  Inside(At(f), At(c))
      BY DEF CurCovers
    <3> QED BY <1>5, <2>2, <2>3, InsideTransitive
  <2>7. Seamless(found, c)
    <3>1. \E f \in found : f.start = c.start
      BY <2>2, <2>4 DEF Seamless
    <3>2. \E f \in found : f.end = c.end
      BY <1>3, <2>2, <2>4 DEF Seamless
    <3>3. ASSUME NEW p \in c.start + 1 .. c.end - 1
          PROVE  \E f \in found : f.start < p /\ p < f.end
      <4>1. CASE p < cur.end
        <5>1. p \in cur.start + 1 .. cur.end - 1
          BY <2>2, <2>3, <3>3, <4>1
        <5> QED BY <2>4, <5>1 DEF Seamless
      <4>2. CASE ~(p < cur.end)
        <5>1. s.start < p /\ p < s.end
          BY <1>3, <1>6, <2>2, <2>3, <3>3, <4>2
        <5> QED BY <1>3, <5>1
      <4> QED BY <4>1, <4>2
    <3> QED BY <3>1, <3>2, <3>3 DEF Seamless
  <2> QED BY <1>1, <1>2, <1>4, <2>1, <2>3, <2>5, <2>6, <2>7 DEF CurCovers
<1>7. CASE ~(cur # None /\ s.start < cur.end)
  <2> DEFINE c == NewCluster(s)
  <2>1. cur' = c /\ out' = IF cur = None THEN out ELSE out \cup {Finished(cur)}
    BY <1>7 DEF Merge
  <2>2. c \in Clusters /\ c.start = s.start /\ c.end = s.end /\ c # None
    BY <1>2, <1>3, NewClusterTyped
  <2> HIDE DEF c
  <2>3. Seamless(found, c) /\ Inside(At(s), At(c))
    BY <1>3, <2>2 DEF Seamless, Inside, At
  <2>4. \A o \in out' : Seamless(found, o)
    <3>1. CASE cur = None
      BY <1>2, <2>1, <3>1
    <3>2. CASE cur # None
      BY <1>2, <2>1, <3>2, FinishedTyped DEF Merging, Seamless
    <3> QED BY <3>1, <3>2
  <2>5. \A f \in found : Covers(out, At(f)) \/ CurCovers(At(f)) => Covers(out', At(f))
    BY <1>2, <2>1, FinishedTyped DEF Covers, CurCovers, At
  <2> QED BY <1>1, <1>2, <1>4, <2>1, <2>2, <2>3, <2>4, <2>5 DEF CurCovers
<1> QED BY <1>6, <1>7

LEMMA MergeDoneMerges ==
  ASSUME Sound, Merging, MergeDone
  PROVE  Merging'
<1> DEFINE M == IF cur = None THEN out ELSE out \cup {Finished(cur)}
<1>1. /\ stage \in {"merge", "remerge"} /\ todo = {}
      /\ stage' = IF stage = "merge" THEN "stitch" ELSE "restitch"
      /\ todo' = M /\ found' = found
  BY DEF MergeDone
<1> SUFFICES ASSUME stage = "merge"
             PROVE  {At(m) : m \in M} = Components(found)
  BY <1>1 DEF Merging
<1>2. /\ found \subseteq Spans /\ out \subseteq Spans /\ cur \in Clusters \cup {None}
      /\ \A f \in found : f.start < f.end
  BY DEF Sound, TypeOK, Order, NoneEmpty
<1>3. M \subseteq Spans /\ Apart(M) /\ \A m \in M : m.start < m.end
  BY MergedApart DEF Sound
<1>4. \A f \in found : Covers(M, At(f))
  <2>1. \A f \in found : Covers(out, At(f)) \/ CurCovers(At(f))
    BY <1>1 DEF Merging
  <2>2. CASE cur = None
    BY <2>1, <2>2 DEF CurCovers
  <2>3. CASE cur # None
    <3>1. Finished(cur) \in M /\ At(Finished(cur)) = At(cur)
      BY <1>2, <2>3, FinishedTyped DEF At
    <3> QED BY <2>1, <2>3, <3>1 DEF Covers, CurCovers
  <2> QED BY <2>2, <2>3
<1>5. \A m \in M : Seamless(found, m)
  <2>1. CASE cur = None
    BY <2>1 DEF Merging
  <2>2. CASE cur # None
    BY <1>2, <2>2, FinishedTyped DEF Merging, Seamless
  <2> QED BY <2>1, <2>2
<1> HIDE DEF M
<1> QED BY <1>2, <1>3, <1>4, <1>5, SeamlessCoverIsComponents

LEMMA NextMerges ==
  ASSUME Sound, Merging, [Next]_vars
  PROVE  Merging'
<1>1. CASE Detect \/ Detected
  BY <1>1 DEF Detect, Detected, Merging
<1>2. CASE StartMerge
  <2>1. cur = None /\ out = {}
    BY <1>2 DEF StartMerge, Sound, Order, LoopLocal, Loops
  <2>2. stage' = "merge" /\ todo' = found /\ UNCHANGED <<found, cur, out>>
    BY <1>2 DEF StartMerge
  <2> QED BY <2>1, <2>2 DEF Merging
<1>3. CASE Filter \/ RestitchDone \/ RedactDone
  BY <1>3 DEF Filter, RestitchDone, RedactDone, Merging
<1>4. ASSUME NEW s \in todo, Stitch(s)
      PROVE  Merging'
  <2>1. stage \in {"stitch", "restitch"} /\ stage' = stage
    BY <1>4 DEF Stitch
  <2>2. cur' # None
    <3>1. s \in Spans /\ cur \in Spans \cup {None} /\ None \notin Spans
      BY <2>1, NoneAssumption DEF Sound, TypeOK
    <3> QED BY <1>4, <3>1, JoinedTyped DEF Stitch
  <2> QED BY <2>1, <2>2 DEF Merging
<1>5. ASSUME NEW s \in todo, Prepare(s) \/ Redact(s)
      PROVE  Merging'
  BY <1>5 DEF Prepare, Redact, Merging
<1>6. CASE UNCHANGED vars
  BY <1>6 DEF vars, Merging, CurCovers
<1> QED BY <1>1, <1>2, <1>3, <1>4, <1>5, <1>6, MergeMerges, MergeDoneMerges DEF Next

\* merge_spans returns the components of the overlap relation, whatever the
\* detectors found and in whatever order equal starts come: no detection sticks
\* out of its cluster, and no cluster joins what does not overlap.
THEOREM MergeIsExact == Spec => []MergedExactly
<1>1. Init => Sound /\ Merging
  BY InitSound DEF Init, Merging
<1>2. Sound /\ Merging /\ [Next]_vars => (Sound /\ Merging)'
  BY NextSound, NextMerges
<1>3. Merging => MergedExactly
  BY DEF Merging, MergedExactly
<1> QED BY <1>1, <1>2, <1>3, PTL DEF Spec

-----------------------------------------------------------------------------
(* Nothing found is left exposed *)

\* What the user declared safe.
Spared(i) == \E j \in text.hashes \cup config.allow : Inside(i, j)

\* The interval lies in one span, wherever the stage keeps its spans.
HeldAt(i) ==
  /\ stage \in Loops => Covers(todo, i) \/ Covers(out, i) \/ CurCovers(i)
  /\ stage \in {"redact", "done"} => Covers(todo, i) \/ Covers(masked, i)

AfterFilter == {"remerge", "restitch", "redact", "done"}

\* No stage makes up a label.
Known(label) == label = Deny \/ \E f \in found : f.label = label

KnownLabels ==
  stage \notin {"detect", "prepare"} =>
    /\ \A s \in todo \cup out : Known(s.label)
    /\ cur # None => Known(cur.label)
    /\ cur # None /\ stage \in {"merge", "remerge"} /\ cur.floor # None =>
         Known(cur.floor.label)

\* Where the policy redacts whatever was found, in a text with no placeholder.
AllRedacted == text.tokens = {} /\ \A s \in found : Redacts(s.label)

Covered ==
  AllRedacted =>
    /\ \A s \in found : Spared(At(s)) \/ HeldAt(At(s))
    /\ stage \in AfterFilter => \A i \in config.deny : HeldAt(i)

LEMMA KnownRedacted ==
  ASSUME AllRedacted, NEW label, Known(label)
  PROVE  Redacts(label)
  BY DEF AllRedacted, Known, Redacts

LEMMA SameMeaning ==
  ASSUME UNCHANGED <<text, config, found>>
  PROVE  /\ AllRedacted' <=> AllRedacted
         /\ \A i : Spared(i)' <=> Spared(i)
         /\ \A label : Known(label)' <=> Known(label)
  BY DEF AllRedacted, Spared, Known, Redacts, Excluded, Inside

\* The intervals that must stay covered: what was found, and what is denied.
Wanted == {At(s) : s \in found} \cup config.deny

LEMMA WantedTyped ==
  ASSUME TypeOK, NEW i \in Wanted
  PROVE  i[1] \in Nat /\ i[2] \in Nat
<1>1. CASE i \in config.deny
  BY <1>1, ConfigAssumption, TextAssumption, IntervalType DEF TypeOK
<1>2. CASE i \in {At(s) : s \in found}
  BY <1>2, SpanFacts DEF TypeOK
<1> QED BY <1>1, <1>2 DEF Wanted

LEMMA WiderCovers ==
  ASSUME NEW i, NEW s, NEW c, i[1] \in Int, i[2] \in Int,
         s.start \in Int, s.end \in Int, c.start \in Int, c.end \in Int,
         Inside(i, At(s)), c.start <= s.start, s.end <= c.end
  PROVE  Inside(i, At(c))
  BY DEF Inside, At

\* A step of a merge covers what was covered.
LEMMA MergeCovers ==
  ASSUME Sound, NEW s \in todo, Merge(s), NEW i \in Wanted, HeldAt(i)
  PROVE  HeldAt(i)'
<1>1. /\ stage \in {"merge", "remerge"} /\ stage' = stage /\ todo' = todo \ {s}
  BY DEF Merge
<1>2. /\ todo \subseteq Spans /\ out \subseteq Spans /\ cur \in Clusters \cup {None}
      /\ None \notin Spans \cup Clusters
  BY <1>1, NoneAssumption DEF Sound, TypeOK
<1>3. s \in Spans /\ s.start \in Nat /\ s.end \in Nat
  BY <1>2, SpanFacts
<1>4. i[1] \in Nat /\ i[2] \in Nat
  BY WantedTyped DEF Sound
<1>5. Covers(todo, i) \/ Covers(out, i) \/ CurCovers(i)
  BY <1>1 DEF HeldAt, Loops
<1> SUFFICES Covers(todo', i) \/ Covers(out', i) \/ CurCovers(i)'
  BY <1>1 DEF HeldAt
<1>6. CASE cur # None /\ s.start < cur.end
  <2> DEFINE c == Absorbed(cur, s)
  <2>1. cur' = c /\ out' = out
    BY <1>6 DEF Merge
  <2>2. c \in Clusters /\ c.start = cur.start /\ cur.end <= c.end /\ s.end <= c.end
    BY <1>2, <1>3, <1>6, AbsorbedTyped
  <2>3. /\ cur.start \in Nat /\ cur.end \in Nat /\ c.start \in Nat /\ c.end \in Nat
        /\ c # None /\ cur.start <= s.start
    BY <1>1, <1>2, <1>6, <2>2 DEF Clusters, Sound, Order, Ahead
  <2> HIDE DEF c
  <2>4. Inside(i, At(s)) \/ CurCovers(i) => Inside(i, At(c))
    BY <1>3, <1>4, <2>2, <2>3, WiderCovers DEF CurCovers
  <2> QED BY <1>1, <1>5, <2>1, <2>3, <2>4 DEF CurCovers, Covers
<1>7. CASE ~(cur # None /\ s.start < cur.end)
  <2>1. /\ cur' = NewCluster(s)
        /\ out' = IF cur = None THEN out ELSE out \cup {Finished(cur)}
    BY <1>7 DEF Merge
  <2>2. cur' # None /\ At(cur') = At(s)
    BY <1>2, <1>3, <2>1, NewClusterTyped DEF At
  <2>3. Covers(out, i) \/ CurCovers(i) => Covers(out', i)
    BY <1>2, <2>1, FinishedTyped DEF Covers, CurCovers, At
  <2> QED BY <1>1, <1>5, <2>2, <2>3 DEF CurCovers, Covers
<1> QED BY <1>6, <1>7

LEMMA MergeDoneCovers ==
  ASSUME Sound, MergeDone, NEW i, HeldAt(i)
  PROVE  HeldAt(i)'
<1>1. /\ stage \in {"merge", "remerge"} /\ stage' \in {"stitch", "restitch"} /\ todo = {}
      /\ todo' = IF cur = None THEN out ELSE out \cup {Finished(cur)}
  BY DEF MergeDone
<1>2. Covers(out, i) \/ CurCovers(i)
  BY <1>1 DEF HeldAt, Loops, Covers
<1>3. Covers(todo', i)
  <2>1. CASE cur = None
    BY <1>1, <1>2, <2>1 DEF CurCovers
  <2>2. CASE cur # None
    <3>1. Finished(cur) \in todo' /\ At(Finished(cur)) = At(cur)
      BY <1>1, <2>2, FinishedTyped DEF Sound, TypeOK, At
    <3> QED BY <1>1, <1>2, <2>2, <3>1 DEF Covers, CurCovers
  <2> QED BY <2>1, <2>2
<1> QED BY <1>1, <1>3 DEF HeldAt

LEMMA StitchCovers ==
  ASSUME Sound, NEW s \in todo, Stitch(s), NEW i \in Wanted, HeldAt(i)
  PROVE  HeldAt(i)'
<1>1. stage \in {"stitch", "restitch"} /\ stage' = stage /\ todo' = todo \ {s}
  BY DEF Stitch
<1>2. todo \subseteq Spans /\ cur \in Spans \cup {None} /\ None \notin Spans
  BY <1>1, NoneAssumption DEF Sound, TypeOK
<1>3. s \in Spans /\ s.start \in Nat /\ s.end \in Nat /\ s.start < s.end
  BY <1>2, SpanFacts DEF Sound, Order, NoneEmpty
<1>4. i[1] \in Nat /\ i[2] \in Nat
  BY WantedTyped DEF Sound
<1>5. Covers(todo, i) \/ Covers(out, i) \/ CurCovers(i)
  BY <1>1 DEF HeldAt, Loops
<1> SUFFICES Covers(todo', i) \/ Covers(out', i) \/ CurCovers(i)'
  BY <1>1 DEF HeldAt
<1>6. CASE cur # None /\ Stitches(cur, s)
  <2> DEFINE c == Joined(cur, s)
  <2>1. cur' = c /\ out' = out
    BY <1>6 DEF Stitch
  <2>2. c \in Spans /\ c.start = cur.start /\ c.end = s.end /\ c # None
    BY <1>2, <1>3, <1>6, JoinedTyped
  <2>3. /\ cur.start \in Nat /\ cur.end \in Nat /\ cur.start < cur.end /\ cur.end <= s.start
    BY <1>1, <1>2, <1>6, SpanFacts DEF Sound, Order, NoneEmpty, Ahead
  <2> HIDE DEF c
  <2>4. Inside(i, At(s)) \/ CurCovers(i) => Inside(i, At(c))
    BY <1>3, <1>4, <2>2, <2>3, WiderCovers DEF CurCovers
  <2> QED BY <1>1, <1>5, <2>1, <2>2, <2>4 DEF CurCovers, Covers
<1>7. CASE ~(cur # None /\ Stitches(cur, s))
  <2>1. cur' = s /\ out' = IF cur = None THEN out ELSE out \cup {cur}
    BY <1>7 DEF Stitch
  <2>2. Covers(out, i) \/ CurCovers(i) => Covers(out', i)
    BY <2>1 DEF Covers, CurCovers
  <2> QED BY <1>1, <1>2, <1>3, <1>5, <2>1, <2>2 DEF CurCovers, Covers
<1> QED BY <1>6, <1>7

\* At the end of a stitching loop, the interval is in what it returns.
LEMMA StitchedCovers ==
  ASSUME stage \in {"stitch", "restitch"}, todo = {}, NEW i, HeldAt(i)
  PROVE  Covers(Stitched, i)
  BY DEF HeldAt, Loops, Covers, CurCovers, Stitched

LEMMA DeniedCovers ==
  ASSUME TypeOK, NEW i \in config.deny
  PROVE  Covers(Denied, i)
<1> DEFINE d == Span(i[1], i[2], Deny, Certain)
<1>1. d \in Denied
  BY DEF Denied
<1>2. d.start = i[1] /\ d.end = i[2]
  BY DEF Span
<1>3. i[1] \in Nat /\ i[2] \in Nat
  BY WantedTyped DEF Wanted
<1> HIDE DEF d
<1>4. Inside(i, At(d))
  BY <1>2, <1>3 DEF Inside, At
<1> QED BY <1>1, <1>4 DEF Covers


\* The allowlist and the commit hashes spare what lies inside them, and
\* nothing else.
LEMMA FilterCovers ==
  ASSUME Sound, KnownLabels, Covered, Filter
  PROVE  Covered'
<1>1. /\ stage = "stitch" /\ todo = {} /\ todo' = Kept \cup Denied
      /\ stage' \in {"redact", "remerge"}
      /\ UNCHANGED <<text, config, found>>
  BY DEF Filter
<1>2. Stitched \subseteq Spans
  BY <1>1, StitchedApart DEF Sound
<1> SUFFICES ASSUME AllRedacted
             PROVE  /\ \A s \in found : Spared(At(s)) \/ Covers(todo', At(s))
                    /\ \A i \in config.deny : Covers(todo', i)
  BY <1>1, SameMeaning DEF Covered, HeldAt, Loops
<1>3. ASSUME NEW i \in config.deny
      PROVE  Covers(todo', i)
  BY <1>1, DeniedCovers DEF Sound, Covers
<1>4. ASSUME NEW s \in found, ~Spared(At(s))
      PROVE  Covers(todo', At(s))
  <2>1. HeldAt(At(s))
    BY <1>4 DEF Covered
  <2>2. PICK t \in Stitched : Inside(At(s), At(t))
    BY <1>1, <2>1, StitchedCovers DEF Covers
  <2>3. At(t) \notin text.hashes \cup config.allow
    BY <1>4, <2>2 DEF Spared
  <2>4. t \in Kept
    BY <2>2, <2>3 DEF Kept
  <2> QED BY <1>1, <2>2, <2>4 DEF Covers
<1> QED BY <1>3, <1>4

LEMMA RedactCovers ==
  ASSUME Sound, KnownLabels, AllRedacted, NEW s \in todo, Redact(s), NEW i, HeldAt(i)
  PROVE  HeldAt(i)'
<1>1. /\ stage = "redact" /\ stage' = "redact" /\ todo' = todo \ {s}
  BY DEF Redact
<1>2. Covers(todo, i) \/ Covers(masked, i)
  BY <1>1 DEF HeldAt
<1>3. s \in masked'
  <2>1. s.start >= last
    <3>1. s.start \in Nat /\ last \in Nat /\ last <= s.start
      BY <1>1, SpanFacts DEF Sound, TypeOK, Order, Ahead
    <3> QED BY <3>1
  <2>2. Redacts(s.label)
    BY <1>1, KnownRedacted DEF KnownLabels
  <2>3. ~HasToken(s)
    BY DEF HasToken, AllRedacted
  <2> QED BY <2>1, <2>2, <2>3 DEF Redact
<1>4. masked \subseteq masked'
  BY DEF Redact
<1>5. Covers(todo', i) \/ Covers(masked', i)
  BY <1>1, <1>2, <1>3, <1>4 DEF Covers
<1> QED BY <1>1, <1>5 DEF HeldAt, Loops

\* Every label still handled was detected, or is that of the denylist.
LEMMA MergeKnows ==
  ASSUME Sound, KnownLabels, NEW s \in todo, Merge(s)
  PROVE  KnownLabels'
<1>1. /\ stage \in {"merge", "remerge"} /\ stage' = stage /\ todo' = todo \ {s}
      /\ UNCHANGED <<text, config, found>>
  BY DEF Merge
<1>2. /\ todo \subseteq Spans /\ cur \in Clusters \cup {None}
      /\ None \notin Spans \cup Clusters
  BY <1>1, NoneAssumption DEF Sound, TypeOK
<1>3. /\ \A t \in todo \cup out : Known(t.label)
      /\ cur # None => Known(cur.label)
      /\ cur # None /\ cur.floor # None => Known(cur.floor.label)
  BY <1>1 DEF KnownLabels
<1> SUFFICES /\ \A t \in out' : Known(t.label)
             /\ Known(cur'.label)
             /\ cur'.floor # None => Known(cur'.floor.label)
  BY <1>1, <1>3, SameMeaning DEF KnownLabels
<1>4. CASE cur # None /\ s.start < cur.end
  BY <1>2, <1>3, <1>4, AbsorbedTyped DEF Merge
<1>5. CASE ~(cur # None /\ s.start < cur.end)
  <2>1. /\ cur' = NewCluster(s)
        /\ out' = IF cur = None THEN out ELSE out \cup {Finished(cur)}
    BY <1>5 DEF Merge
  <2>2. cur'.label = s.label /\ cur'.floor \in {s, None}
    BY <1>2, <2>1, NewClusterTyped
  <2>3. cur # None => Known(Finished(cur).label)
    BY <1>3 DEF Finished, Span
  <2> QED BY <1>3, <2>1, <2>2, <2>3
<1> QED BY <1>4, <1>5

LEMMA MergeDoneKnows ==
  ASSUME Sound, KnownLabels, MergeDone
  PROVE  KnownLabels'
<1>1. /\ stage \in {"merge", "remerge"} /\ out' = {} /\ cur' = None
      /\ todo' = IF cur = None THEN out ELSE out \cup {Finished(cur)}
      /\ UNCHANGED <<text, config, found>>
  BY DEF MergeDone
<1>2. cur # None => Known(Finished(cur).label)
  BY <1>1 DEF KnownLabels, Finished, Span
<1>3. \A t \in todo' : Known(t.label)
  BY <1>1, <1>2 DEF KnownLabels
<1> QED BY <1>1, <1>3, SameMeaning DEF KnownLabels

LEMMA StitchKnows ==
  ASSUME Sound, KnownLabels, NEW s \in todo, Stitch(s)
  PROVE  KnownLabels'
<1>1. /\ stage \in {"stitch", "restitch"} /\ stage' = stage /\ todo' = todo \ {s}
      /\ UNCHANGED <<text, config, found>>
  BY DEF Stitch
<1>2. todo \subseteq Spans /\ cur \in Spans \cup {None}
  BY <1>1 DEF Sound, TypeOK
<1>3. (\A t \in todo \cup out : Known(t.label)) /\ (cur # None => Known(cur.label))
  BY <1>1 DEF KnownLabels
<1>4. Known(cur'.label) /\ \A t \in out' : Known(t.label)
  BY <1>2, <1>3, JoinedTyped DEF Stitch
<1> QED BY <1>1, <1>3, <1>4, SameMeaning DEF KnownLabels

LEMMA StitchedKnown ==
  ASSUME KnownLabels, stage \in {"stitch", "restitch"}
  PROVE  \A s \in Stitched : Known(s.label)
  BY DEF KnownLabels, Stitched

LEMMA NextKnows ==
  ASSUME Sound, KnownLabels, [Next]_vars
  PROVE  KnownLabels'
<1>1. CASE Detect \/ Detected
  BY <1>1 DEF Detect, Detected, KnownLabels
<1>2. CASE StartMerge
  <2>1. cur = None /\ out = {}
    BY <1>2 DEF StartMerge, Sound, Order, LoopLocal, Loops
  <2>2. stage' = "merge" /\ todo' = found /\ UNCHANGED <<found, cur, out>>
    BY <1>2 DEF StartMerge
  <2> QED BY <2>1, <2>2 DEF KnownLabels, Known
<1>3. CASE Filter
  <2>1. /\ stage = "stitch" /\ todo' = Kept \cup Denied /\ out' = {} /\ cur' = None
        /\ UNCHANGED <<text, config, found>>
    BY <1>3 DEF Filter
  <2>2. \A s \in Denied : Known(s.label)
    BY DEF Denied, Span, Known
  <2>3. \A s \in Kept : Known(s.label)
    BY <2>1, StitchedKnown DEF Kept
  <2> QED BY <2>1, <2>2, <2>3, SameMeaning DEF KnownLabels
<1>4. CASE RestitchDone
  <2>1. /\ stage = "restitch" /\ todo' = Stitched /\ out' = {} /\ cur' = None
        /\ UNCHANGED <<text, config, found>>
    BY <1>4 DEF RestitchDone
  <2> QED BY <2>1, StitchedKnown, SameMeaning DEF KnownLabels
<1>5. CASE RedactDone
  <2>1. stage = "redact" /\ stage' = "done" /\ UNCHANGED <<todo, out, cur, text, config, found>>
    BY <1>5 DEF RedactDone
  <2> QED BY <2>1, SameMeaning DEF KnownLabels
<1>6. ASSUME NEW s \in todo, Prepare(s)
      PROVE  KnownLabels'
  BY <1>6 DEF Prepare, KnownLabels
<1>7. ASSUME NEW s \in todo, Redact(s)
      PROVE  KnownLabels'
  <2>1. /\ stage = "redact" /\ stage' = stage /\ todo' \subseteq todo
        /\ UNCHANGED <<out, cur, text, config, found>>
    BY <1>7 DEF Redact
  <2> QED BY <2>1, SameMeaning DEF KnownLabels
<1>8. CASE UNCHANGED vars
  <2>1. UNCHANGED <<stage, todo, out, cur, text, config, found>>
    BY <1>8 DEF vars
  <2> QED BY <2>1, SameMeaning DEF KnownLabels
<1> QED BY <1>1, <1>2, <1>3, <1>4, <1>5, <1>6, <1>7, <1>8, MergeKnows, MergeDoneKnows,
           StitchKnows DEF Next

\* A step that keeps the detections covered keeps the property.
LEMMA KeepsCovered ==
  ASSUME Covered, UNCHANGED <<text, config, found>>,
         AllRedacted => \A i \in Wanted : HeldAt(i) => HeldAt(i)',
         stage' \in AfterFilter => stage \in AfterFilter
  PROVE  Covered'
<1> SUFFICES ASSUME AllRedacted
             PROVE  /\ \A s \in found : Spared(At(s)) \/ HeldAt(At(s))'
                    /\ stage' \in AfterFilter => \A i \in config.deny : HeldAt(i)'
  BY SameMeaning DEF Covered, At
<1> QED BY DEF Covered, Wanted

LEMMA NextCovers ==
  ASSUME Sound, KnownLabels, Covered, [Next]_vars
  PROVE  Covered'
<1>1. CASE Detect \/ Detected
  <2>1. stage' \in {"detect", "prepare"}
    BY <1>1 DEF Detect, Detected
  <2> QED BY <2>1 DEF Covered, HeldAt, Loops, AfterFilter
<1>2. CASE StartMerge
  <2>1. stage' = "merge" /\ todo' = found /\ UNCHANGED <<text, config, found>>
    BY <1>2 DEF StartMerge
  <2>2. \A s \in found : Covers(found, At(s))
    <3> SUFFICES ASSUME NEW s \in found PROVE Inside(At(s), At(s))
      BY DEF Covers
    <3> QED BY SpanFacts DEF Inside, Sound, TypeOK
  <2> QED BY <2>1, <2>2 DEF Covered, HeldAt, Loops, AfterFilter
<1>3. CASE MergeDone
  <2>1. /\ UNCHANGED <<text, config, found>>
        /\ stage' \in AfterFilter => stage \in AfterFilter
    BY <1>3 DEF MergeDone, AfterFilter
  <2> QED BY <1>3, <2>1, MergeDoneCovers, KeepsCovered
<1>4. CASE Filter
  BY <1>4, FilterCovers
<1>5. CASE RestitchDone
  <2>1. /\ UNCHANGED <<text, config, found>> /\ stage = "restitch" /\ todo = {}
        /\ stage' = "redact" /\ todo' = Stitched
    BY <1>5 DEF RestitchDone
  <2>2. ASSUME NEW i, HeldAt(i)
        PROVE  HeldAt(i)'
    BY <2>1, <2>2, StitchedCovers DEF HeldAt, Loops
  <2> QED BY <2>1, <2>2, KeepsCovered DEF AfterFilter
<1>6. CASE RedactDone
  <2>1. /\ UNCHANGED <<text, config, found, todo, masked>> /\ stage = "redact" /\ stage' = "done"
    BY <1>6 DEF RedactDone
  <2>2. ASSUME NEW i, HeldAt(i)
        PROVE  HeldAt(i)'
    BY <2>1, <2>2 DEF HeldAt, Loops
  <2> QED BY <2>1, <2>2, KeepsCovered DEF AfterFilter
<1>7. ASSUME NEW s \in todo, Prepare(s)
      PROVE  Covered'
  <2>1. stage' = "prepare"
    BY <1>7 DEF Prepare
  <2> QED BY <2>1 DEF Covered, HeldAt, Loops, AfterFilter
<1>8. ASSUME NEW s \in todo, Merge(s) \/ Stitch(s) \/ Redact(s)
      PROVE  Covered'
  <2>1. UNCHANGED <<text, config, found, stage>>
    BY <1>8 DEF Merge, Stitch, Redact
  <2>2. AllRedacted => \A i \in Wanted : HeldAt(i) => HeldAt(i)'
    BY <1>8, MergeCovers, StitchCovers, RedactCovers
  <2> QED BY <2>1, <2>2, KeepsCovered
<1>9. CASE UNCHANGED vars
  <2>1. UNCHANGED <<text, config, found, stage, todo, out, cur, masked>>
    BY <1>9 DEF vars
  <2>2. \A i : HeldAt(i)' <=> HeldAt(i)
    BY <2>1 DEF HeldAt, CurCovers, Covers, Inside, At
  <2> QED BY <2>1, <2>2, KeepsCovered
<1> QED BY <1>1, <1>2, <1>3, <1>4, <1>5, <1>6, <1>7, <1>8, <1>9 DEF Next

\* Where the policy redacts all that was found, no fragment of a detection or
\* of an always-redact term stays in the text, however detections overlap, but
\* for what the user declared safe.
THEOREM NoFragmentExposed == Spec => []NothingExposed
<1>1. Init => Sound /\ KnownLabels /\ Covered
  BY InitSound DEF Init, KnownLabels, Covered, HeldAt, Loops, AfterFilter
<1>2. Sound /\ KnownLabels /\ Covered /\ [Next]_vars => (Sound /\ KnownLabels /\ Covered)'
  BY NextSound, NextKnows, NextCovers
<1>3. Sound /\ Covered => NothingExposed
  <2> SUFFICES ASSUME Sound, Covered, stage = "done", AllRedacted
               PROVE  /\ \A s \in found : Covers(masked, At(s)) \/ Spared(At(s))
                      /\ \A i \in config.deny : Covers(masked, i)
    BY DEF NothingExposed, AllRedacted, Spared
  <2>1. todo = {}
    BY DEF Sound, Order, LoopLocal
  <2>2. \A i : HeldAt(i) => Covers(masked, i)
    BY <2>1 DEF HeldAt, Covers
  <2> QED BY <2>2 DEF Covered, AfterFilter
<1> QED BY <1>1, <1>2, <1>3, PTL DEF Spec
=============================================================================
