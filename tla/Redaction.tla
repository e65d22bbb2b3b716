----------------------------- MODULE Redaction -----------------------------
(***************************************************************************)
(* What the browser does with the text of one document                     *)
(* (packages/redaction-core/src/redaction.ts, workbench/src/lib/batch.ts,  *)
(* formats.ts): merge detections into spans, number the values, write the  *)
(* redacted text, sweep it for values known from elsewhere and restore it. *)
(*                                                                         *)
(* A text is a sequence of words.  In a redacted text a token is a word,   *)
(* <<w>>, or a placeholder, <<label, n>>; tokens are tuples of either      *)
(* length because TLC does not compare a string with a tuple.  A span      *)
(* covers the words start + 1 .. end.                                      *)
(***************************************************************************)
EXTENDS Integers, Sequences, FiniteSets, SequencesExt

CONSTANTS
  Fold,           \* a word's lower case
  Short,          \* words of less than MIN_SWEEP_LEN letters
  NameLike,       \* words a person's name may go on with
  FloorLabels,
  CaseSensitive,  \* labels of CASE_SENSITIVE_LABEL_KEYS
  Propagated      \* PROPAGATE_LABELS

Min2(m, n) == IF m < n THEN m ELSE n
Slice(text, s) == SubSeq(text, s.start + 1, Min2(s.end, Len(text)))
Overlaps(s, t) == s.start < t.end /\ s.end > t.start
Covered(S) == UNION {(s.start + 1) .. s.end : s \in S}
Folded(value) == [i \in DOMAIN value |-> Fold[value[i]]]
Long(value) == Len(value) > 1 \/ (value # <<>> /\ value[1] \notin Short)

\* Array.sort: by what comes before, in some order where nothing does.
Ranked(S, rank) ==
  MapThenFoldSet(LAMBDA s, out : Append(out, s), <<>>, LAMBDA s : s,
                 LAMBDA R : CHOOSE s \in R : \A t \in R : rank[t] <= rank[s], S)
Sorted(S, ahead) == Ranked(S, [s \in S |-> Cardinality(ahead[s])])
-----------------------------------------------------------------------------
(* Detection *)

\* By start, longer first; what several detectors found alike stays in the
\* order they ran.
Before(s, t) ==
  \/ s.start < t.start
  \/ s.start = t.start /\ s.end > t.end
  \/ s.start = t.start /\ s.end = t.end /\ s.tier < t.tier

\* One more detection joins the last cluster or begins one.
Joined(out, s) ==
  LET c == Last(out)
      outscores == s.conf > c.by.conf \/ (s.conf = c.by.conf /\ s.end - s.start > c.by.end - c.by.start)
  IN IF out # <<>> /\ s.start < c.end
     THEN Append(Front(out),
            [start |-> c.start, end |-> IF s.end > c.end THEN s.end ELSE c.end,
             by |-> IF outscores THEN s ELSE c.by,
             floors |-> IF s.label \in FloorLabels THEN Append(c.floors, s) ELSE c.floors])
     ELSE Append(out, [start |-> s.start, end |-> s.end, by |-> s,
                       floors |-> IF s.label \in FloorLabels THEN <<s>> ELSE <<>>])

\* The elected label, or that of the strongest floor member.
ClusterLabel(c) ==
  LET best == FoldLeft(LAMBDA b, s : IF s.conf > b.conf THEN s ELSE b, Head(c.floors), c.floors)
  IN IF c.floors # <<>> /\ c.by.label \notin FloorLabels THEN best.label ELSE c.by.label

\* mergeSpans: clusters of overlapping detections become one span each.
MergeSpans(raw) ==
  LET out == FoldLeft(Joined, <<>>, Sorted(raw, [s \in raw |-> {t \in raw : Before(t, s)}]))
  IN {[start |-> c.start, end |-> c.end, label |-> ClusterLabel(c)] : c \in ToSet(out)}

\* growPersonSpan: a name goes on to the right, then to the left, with words a
\* name may have, up to five.
Grown(text, s) ==
  LET named(from, to) == \A i \in (from + 1) .. to : text[i] \in NameLike
      right == CHOOSE r \in s.end .. Len(text) :
                 /\ named(s.end, r) /\ (r > s.end => r - s.start <= 5)
                 /\ r = Len(text) \/ r - s.start >= 5 \/ ~named(r, r + 1)
      left == CHOOSE l \in 0 .. s.start :
                 /\ named(l, s.start) /\ (l < s.start => right - l <= 5)
                 /\ l = 0 \/ right - l >= 5 \/ ~named(l - 1, l)
  IN IF s.label = "person" /\ s.conf >= 75 /\ named(left, right)
     THEN [s EXCEPT !.start = left, !.end = right] ELSE s

\* propagateRepeats: a value found once is found wherever it is repeated, and
\* so is each word of a person's name.
PropagateRepeats(text, raw) ==
  LET grown == {Grown(text, s) : s \in raw}
      sources == {s \in grown : s.label \in Propagated /\ s.conf >= 75 /\ Long(Slice(text, s))}
      parts(s) == {Slice(text, s)} \cup
                    (IF s.label = "person" THEN {<<w>> : w \in ToSet(Slice(text, s)) \ Short} ELSE {})
      places(v) == {i \in 0 .. (Len(text) - Len(v)) :
                      Folded(SubSeq(text, i + 1, i + Len(v))) = Folded(v)}
      repeats(s, v) == {[s EXCEPT !.start = i, !.end = i + Len(v)] :
                          i \in {j \in places(v) : j < s.start \/ j >= s.end}}
  IN grown \cup UNION {UNION {repeats(s, v) : v \in parts(s)} : s \in sources}

\* deepDetect of either provider: Tier-0 and the model's spans together.
DeepSpans(text, floor, neural) == MergeSpans(PropagateRepeats(text, floor \cup neural))
-----------------------------------------------------------------------------
(* The reviewer's spans *)

ToSpans(merged, source, muted, d) ==
  {[start |-> r.start, end |-> r.end, label |-> r.label, source |-> source,
    active |-> r.label \notin muted, of |-> d] : r \in merged}

\* A box the reviewer draws replaces what it overlaps.
InsertSpan(spans, s) == {t \in spans : ~Overlaps(s, t)} \cup {s}

\* New detections replace the old ones, except where a manual span is active.
CombineWithManual(prev, detected) ==
  LET manual == {s \in prev : s.source = "manual"}
  IN manual \cup {d \in detected : \A m \in manual : m.active => ~Overlaps(d, m)}

\* By start; of two that start together the manual one was put first.
InOrder(spans) ==
  LET active == {s \in spans : s.active}
      before(s, t) == s.start < t.start \/ (s.start = t.start /\ s.source = "manual" /\ t.source # "manual")
  IN Sorted(active, [s \in active |-> {t \in active : before(t, s)}])
-----------------------------------------------------------------------------
(* Values and placeholders.  An index is the sequence of what was numbered. *)

DedupKey(label, value) == <<label, IF label \in CaseSensitive THEN value ELSE Folded(value)>>
PhFor(index, key) == (CHOOSE e \in ToSet(index) : e.key = key).ph
PhOf(index, text, s) == PhFor(index, DedupKey(s.label, Slice(text, s)))

\* buildEntityMap: every active value gets the next number of its label,
\* unless the index has it already.
Numbered(index, text, spans) ==
  FoldLeft(LAMBDA idx, s :
             LET key == DedupKey(s.label, Slice(text, s))
             IN IF \E e \in ToSet(idx) : e.key = key THEN idx
                ELSE Append(idx, [key |-> key, value |-> Slice(text, s),
                                  ph |-> <<s.label, 1 + Cardinality({e \in ToSet(idx) : e.key[1] = s.label})>>]),
           index, InOrder(spans))

EntityMap(index) == {[ph |-> e.ph, value |-> e.value] : e \in ToSet(index)}

\* The loop of redactTextWithPlaceholders, over the places of the text: what is
\* before an active span is copied, the span itself is not.
Positional(n, spans, ph) ==
  LET places(from, to) == [i \in 1 .. (IF Min2(to, n) > from THEN Min2(to, n) - from ELSE 0) |-> <<from + i>>]
      all == FoldLeft(LAMBDA acc, s : [out |-> acc.out \o places(acc.last, s.start) \o <<ph[s]>>,
                                       last |-> s.end],
                      [out |-> <<>>, last |-> 0], InOrder(spans))
  IN all.out \o places(all.last, n)

\* The values of a pass that begin at place i of the tokens, the longest first.
KnownAt(tokens, i, known, exact) ==
  LET at(e) == /\ i + Len(e.value) - 1 <= Len(tokens)
               /\ \A j \in 1 .. Len(e.value) :
                    LET t == tokens[i + j - 1] IN
                      Len(t) = 1 /\ (IF exact THEN t[1] = e.value[j] ELSE Fold[t[1]] = Fold[e.value[j]])
  IN {e \in known : at(e) /\ \A f \in known : at(f) => Len(f.value) <= Len(e.value)}

\* One left-to-right pass over the words between placeholders.
SweepPass(tokens, known, exact) ==
  LET from[i \in 1 .. (Len(tokens) + 1)] ==
        IF i > Len(tokens) THEN <<>>
        ELSE LET hits == KnownAt(tokens, i, known, exact) IN
             IF hits = {} THEN <<tokens[i]>> \o from[i + 1]
             ELSE LET e == CHOOSE e \in hits : TRUE IN <<e.ph>> \o from[i + Len(e.value)]
  IN from[1]

\* sweepKnownValues: first the labels where case matters, then the others.
Sweep(tokens, map) ==
  LET long == {e \in map : Long(e.value)}
      exact == {e \in long : e.ph[1] \in CaseSensitive}
  IN SweepPass(SweepPass(tokens, exact, TRUE), long \ exact, FALSE)

\* [mutant] A file is swept for its own values only.
OwnValues(text, spans, index) ==
  {e \in EntityMap(index) : \E s \in {t \in spans : t.active} : e.ph = PhOf(index, text, s)}
\* The whole batch's values.
KnownValues(text, spans, index) == EntityMap(index)

\* redactedText and redactedBatchText: what the reviewer hands out.
Redacted(text, spans, index) ==
  LET written == Positional(Len(text), spans, [s \in {t \in spans : t.active} |-> PhOf(index, text, s)])
  IN Sweep([i \in DOMAIN written |-> IF Len(written[i]) = 1 THEN <<text[written[i][1]]>> ELSE written[i]],
           KnownValues(text, spans, index))

Placeholders(tokens) == {t \in ToSet(tokens) : Len(t) = 2}
ValueIn(map, ph) == (CHOOSE e \in map : e.ph = ph).value

\* survivingValues: a known value that can still be read, whatever its length.
Survives(tokens, map) ==
  \E e \in map : \E i \in DOMAIN tokens : KnownAt(tokens, i, {e}, TRUE) # {}

\* rehydrateFile: every placeholder must be in the map.
Rehydrates(tokens, map) == Placeholders(tokens) \subseteq {e.ph : e \in map}
Rehydrated(tokens, map) ==
  FlattenSeq([i \in DOMAIN tokens |-> IF Len(tokens[i]) = 2 THEN ValueIn(map, tokens[i]) ELSE tokens[i]])
=============================================================================
