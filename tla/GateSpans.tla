------------------------------ MODULE GateSpans ------------------------------
(***************************************************************************)
(* What the detection gate (gate/privacy_gate.py, gate/gate_service_gpu.py) *)
(* makes of a text: its floor of checksums and exact formats, with copies  *)
(* of its own of the detectors it shares with the appliance; the windows it *)
(* scans, the decoding of the model's tags, the merge, the growth of names *)
(* and the search for repeats.  Adjacent address fragments are not         *)
(* stitched; the cap of 60 characters on a name and dotted capitals that   *)
(* are no initials are left out.                                           *)
(***************************************************************************)
EXTENDS ApplianceFloor

CONSTANTS
  Size, Overlap,   \* CHUNK_CHARS, CHUNK_OVERLAP
  FloorLabels,     \* FLOOR_LABELS
  RepeatLabels,    \* _PROPAGATE_LABELS
  StatusWords,     \* _GROW_STATUS_DENY, in lower case
  Short            \* atoms of less than four characters

ASSUME WindowAssumption == Overlap \in Nat \ {0} /\ Size \in Nat /\ Size >= 3 * Overlap

Lesser(i, j) == Min({i, j})
Greater(i, j) == Max({i, j})
-----------------------------------------------------------------------------
(* The floor *)

\* _CARD_CAND_RE: 15 or 16 digits, each separator between two of them.
CardCandEnd(t, i) ==
  Longest({j \in i .. Len(t) :
    Grouped(t, i, j, {" ", "-"}) /\ Apart(t, i, j) /\ Len(DigitsOf(t, i, j)) \in {15, 16}})

\* _SIN_CAND_RE
SinCandEnd(t, i) ==
  Longest({j \in i .. Len(t) :
    Grouped(t, i, j, {" ", "-"}) /\ Apart(t, i, j) /\ Len(DigitsOf(t, i, j)) = 9})

CardCands(t) ==
  {Span(m[1], m[2], "payment_card", 97) :
     m \in {c \in Matches([i \in DOMAIN t |-> CardCandEnd(t, i)]) : LuhnOk(DigitsOf(t, c[1], c[2]))}}

SinCands(t) ==
  {Span(m[1], m[2], "government_id", 90) :
     m \in {c \in Matches([i \in DOMAIN t |-> SinCandEnd(t, i)]) :
              LuhnOk(DigitsOf(t, c[1], c[2])) /\ ~Business(t, c[1], c[2])}}

GateGluedDigits(t) == GluedDigits(t)
GateSeparatedCards(t) == SeparatedCards(t)
GateCardAux(t) == CardAuxSpans(t)
GateCueNames(t) == CueNameSpans(t)
GateCueDigits(t) == CueDigitSpans(t)

GateScanOnce(raw) ==
  LET t == NormSeps(raw)
  IN Shaped(t, {"email", "uuid", "iban"}) \cup CardCands(t) \cup SinCands(t)
       \cup GateGluedDigits(t) \cup GateSeparatedCards(t) \cup GateCardAux(t)

ValidatedFloor(t) ==
  GateScanOnce(t) \cup IF HasFormatChars(t) /\ Clean(t) # <<>>
                       THEN {MappedBack(s, IdxMap(t)) : s \in GateScanOnce(Clean(t))} ELSE {}

\* What detect() knows of a text without the model.  What a cue announces is
\* looked for in the text as it stands only.
GateKnows(t) == ValidatedFloor(t) \cup GateCueNames(NormSeps(t)) \cup GateCueDigits(t)
-----------------------------------------------------------------------------
(* Windows *)

\* [mutant] The windows stand side by side.
SideBySide(i, e) == e + 1

\* Where the window after i .. e begins.
NextFrom(i, e) == Greater(e + 1 - Overlap, i + 1)

\* A line longer than a window: each ends before a space of its last atoms if it
\* can, and the next one begins in it.
Windows(t, a, b) ==
  LET last(i) ==
        LET edge == Lesser(i + Size - 1, b)
            spaces == {k \in Greater(i + Size - Overlap, i + 1) .. edge : t[k] = " "}
        IN IF edge = b \/ spaces = {} THEN edge ELSE Max(spaces) - 1
      from[i \in a .. b] ==
        LET e == last(i)
        IN <<<<i, e>>>> \o IF e = b THEN <<>> ELSE from[NextFrom(i, e)]
  IN from[a]

Lines(t) ==
  LET last == Ascending({k \in DOMAIN t : t[k] \in LineEnds \/ k = Len(t)})
  IN [n \in DOMAIN last |-> <<IF n = 1 THEN 1 ELSE last[n - 1] + 1, last[n]>>]

\* Whole lines while they fit.
Chunks(t) ==
  LET flush(r) == IF r.to < r.from THEN r.out ELSE Append(r.out, <<r.from, r.to>>)
      add(r, l) ==
        CASE l[2] - l[1] >= Size -> [out |-> flush(r) \o Windows(t, l[1], l[2]), from |-> l[2] + 1, to |-> l[2]]
          [] l[2] - l[1] < Size /\ r.from <= r.to /\ l[2] - r.from >= Size ->
               [out |-> flush(r), from |-> l[1], to |-> l[2]]
          [] OTHER -> [r EXCEPT !.to = l[2]]
  IN flush(FoldLeft(add, [out |-> <<>>, from |-> 1, to |-> 0], Lines(t)))
-----------------------------------------------------------------------------
(* Tags *)

Outside == [pref |-> "O", label |-> "O", conf |-> 0]

\* A token begins a span unless it goes on with the label of the one before it.
Begins(tags, k) ==
  LET before == {n \in DOMAIN tags : n < k}
  IN /\ tags[k] # Outside
     /\ tags[k].pref = "B" \/ before = {} \/ tags[Max(before)].label # tags[k].label

Decode(tags, least) ==
  LET last(k) == Max({j \in DOMAIN tags : j >= k /\
                        \A n \in DOMAIN tags : n \in k + 1 .. j => tags[n] # Outside /\ ~Begins(tags, n)})
      conf(k) == Min({tags[n].conf : n \in (DOMAIN tags) \cap (k .. last(k))})
  IN {Span(k, last(k), tags[k].label, conf(k)) :
        k \in {n \in DOMAIN tags : Begins(tags, n) /\ conf(n) >= least}}
-----------------------------------------------------------------------------
(* Merge *)

\* [mutant] The best of a cluster names it, whatever it is.
BestOnly(cluster) ==
  CHOOSE m \in cluster : \A s \in cluster :
    m.conf > s.conf \/ (m.conf = s.conf /\ m.to - m.from >= s.to - s.from)

\* The member that names a cluster: the surest, then the longest, and one of a
\* floor label if there is any.  An exact tie falls to either.
Elected(cluster) ==
  LET floor == {s \in cluster : s.label \in FloorLabels}
      best(set) == CHOOSE m \in set : \A s \in set :
                     m.conf > s.conf \/ (m.conf = s.conf /\ m.to - m.from >= s.to - s.from)
  IN IF floor # {} /\ best(cluster) \notin floor
     THEN CHOOSE m \in floor : \A s \in floor : m.conf >= s.conf ELSE best(cluster)

\* merge_spans: spans that overlap, directly or through others, become one.
Merged(spans) ==
  LET goesOn(k) == \E q \in spans : q.from < k /\ k <= q.to
      cluster(c) == {s \in spans : /\ c <= s.from
                                   /\ \A r \in spans : r.from \in c + 1 .. s.from => goesOn(r.from)}
  IN {LET members == cluster(c)
      IN Span(c, Max({s.to : s \in members}), Elected(members).label, Max({s.conf : s \in members})) :
        c \in {s.from : s \in {r \in spans : ~goesOn(r.from)}}}
-----------------------------------------------------------------------------
(* Growth of names *)

\* The letters of the word that a place is in, joints between letters included.
LetterOrJoint(t, k) ==
  LetterAt(t, k) \/ (AtomIn(t, k, Joints) /\ LetterAt(t, k - 1) /\ LetterAt(t, k + 1))

CompleteRight(t, j) == Max({e \in j .. Len(t) : \A k \in j + 1 .. e : LetterOrJoint(t, k)})
CompleteLeft(t, i) == Min({b \in 1 .. i : \A k \in b .. i - 1 : LetterOrJoint(t, k)})

\* Initials, particles and capitalized words that are no stopword, role or status.
Absorbable(t, p) ==
  LET word == {k \in p[1] .. p[2] : LetterAt(t, k)}
      low == IF Cardinality(word) = 1 THEN Lower[t[Min(word)]] ELSE "-"
  IN /\ word # {} /\ \A k \in p[1] .. p[2] : LetterAt(t, k) \/ t[k] \in Joints
     /\ \/ t[p[1]] \in Initials /\ \A k \in p[1] + 1 .. p[2] : k = p[1] + 1 /\ t[k] = "."
        \/ /\ low \notin Stopwords \cup Roles \cup StatusWords
           /\ low \in Particles \/ (t[p[1]] \in Capitalized /\ \A k \in p[1] .. p[2] : t[k] # ".")

\* The words on each side that are absorbed, one space apart.
RightOf(t, toks, e, room) ==
  LET after(k) == toks[k][1] > e
      joins(k) == /\ t[toks[k][1] - 1] = " " /\ Absorbable(t, toks[k])
                  /\ toks[k][1] - 2 = e \/ (k > 1 /\ after(k - 1) /\ toks[k][1] - 2 = toks[k - 1][2])
  IN Max({e} \cup {toks[n][2] : n \in {m \in DOMAIN toks :
           /\ after(m) /\ Cardinality({k \in 1 .. m : after(k)}) <= room
           /\ \A k \in 1 .. m : after(k) => joins(k)}})

LeftOf(t, toks, b, room) ==
  LET before(k) == toks[k][2] < b
      joins(k) == /\ AtomIn(t, toks[k][2] + 1, {" "}) /\ Absorbable(t, toks[k])
                  /\ toks[k][2] + 2 = b \/ (k < Len(toks) /\ before(k + 1) /\ toks[k][2] + 2 = toks[k + 1][1])
  IN Min({b} \cup {toks[n][1] : n \in {m \in DOMAIN toks :
           /\ before(m) /\ Cardinality({k \in m .. Len(toks) : before(k)}) <= room
           /\ \A k \in m .. Len(toks) : before(k) => joins(k)}})

\* Five words in all.
Room(t, b, e) == 5 - Len(Tokens(t, b, e))

\* _grow_person_span: the words are completed, then those beside them taken in;
\* what comes of it must have the shape of a name.
Grown(t, toks, s) ==
  LET b0 == CompleteLeft(t, s.from)
      e0 == CompleteRight(t, s.to)
      e == RightOf(t, toks, e0, Room(t, b0, e0))
      b == LeftOf(t, toks, b0, Room(t, b0, e))
      capital == \E k \in s.from .. s.to : t[k] \in Capitalized
  IN IF IF capital THEN NameShaped(t, <<b, e>>) ELSE NameShapedRelaxed(t, <<b, e>>)
     THEN [s EXCEPT !.from = b, !.to = e] ELSE s

GrownNames(t, toks, spans) ==
  {IF s.label = "person" /\ s.conf >= 75 THEN Grown(t, toks, s) ELSE s : s \in spans}
-----------------------------------------------------------------------------
(* Repeats *)

Folded(t, i, j) == [k \in 1 .. j + 1 - i |-> IF LetterAt(t, i + k - 1) THEN Lower[t[i + k - 1]] ELSE t[i + k - 1]]

TooShort(t, i, j) == i = j /\ t[i] \in Short

\* \w+
WordsIn(t, a, b) ==
  {p \in (a .. b) \X (a .. b) :
     /\ p[1] <= p[2] /\ \A k \in p[1] .. p[2] : WordAt(t, k)
     /\ p[1] = a \/ ~WordAt(t, p[1] - 1)
     /\ p[2] = b \/ ~WordAt(t, p[2] + 1)}

\* What a span is searched for: its value, and the words of a name.
SourcePlaces(t, s) ==
  {p \in {<<s.from, s.to>>} \cup {w \in WordsIn(t, s.from, s.to) :
                                    s.label = "person" /\ LowOf(t, w) \notin StatusWords} :
     ~TooShort(t, p[1], p[2])}

Sources(t, spans) ==
  UNION {{<<p, s>> : p \in SourcePlaces(t, s)} :
           s \in {r \in spans : r.label \in RepeatLabels /\ r.conf >= 75 /\ ~TooShort(t, r.from, r.to)}}

\* The first span with a value finds the others.
FirstOf(t, sources) ==
  {q \in sources : \A r \in sources :
     Folded(t, r[1][1], r[1][2]) = Folded(t, q[1][1], q[1][2]) => q[2].from <= r[2].from}

Occurs(t, i, value) ==
  /\ i + Len(value) - 1 <= Len(t) /\ Folded(t, i, i + Len(value) - 1) = value
  /\ Apart(t, i, i + Len(value) - 1)

\* [mutant] Only what is spelled like the source is a repeat.
SameCaseOnly(t, grown, sources) ==
  grown \cup UNION {{Span(i, i + q[1][2] - q[1][1], q[2].label, q[2].conf) :
                       i \in {k \in DOMAIN t : /\ Occurs(t, k, Folded(t, q[1][1], q[1][2]))
                                               /\ SubSeq(t, k, k + q[1][2] - q[1][1]) = SubSeq(t, q[1][1], q[1][2])
                                               /\ k \notin q[2].from .. q[2].to}} :
                    q \in FirstOf(t, sources)}

\* propagate_repeats, of grown names.
WithRepeats(t, grown, sources) ==
  grown \cup UNION {{Span(i, i + q[1][2] - q[1][1], q[2].label, q[2].conf) :
                       i \in {k \in DOMAIN t : /\ Occurs(t, k, Folded(t, q[1][1], q[1][2]))
                                               /\ k \notin q[2].from .. q[2].to}} :
                    q \in FirstOf(t, sources)}
=============================================================================
