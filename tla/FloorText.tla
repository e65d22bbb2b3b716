----------------------------- MODULE FloorText -----------------------------
(***************************************************************************)
(* What the deterministic detectors of appliance/privacy_gate.py see of a  *)
(* text, and how they read numbers in it.                                  *)
(*                                                                         *)
(* A text is a sequence of atoms: pieces of a number, words, marks, and    *)
(* whole e-mail addresses, UUIDs and the like.  Pieces that stand side by  *)
(* side are one number, words side by side one word.  A match covers the   *)
(* atoms from .. to.  The windows in which the code looks for a cue (12 to *)
(* 48 characters) are longer than the texts considered.                    *)
(***************************************************************************)
EXTENDS Integers, FiniteSets, SequencesExt

CONSTANTS
  Digits,      \* of each piece of a number, its digits
  Lower,       \* of each word, its lower case
  Shapes,      \* of each atom that is a whole match, [label, conf]
  AsciiForm,   \* of Unicode dashes, spaces and digits, the ASCII atom
  Invisible,   \* the format and control characters, _INVISIBLE_CATS
  SinCues, DobCues, IdCues,  \* what announces a number of that kind
  Programs     \* RT, RP, ...: the program accounts of a Business Number

ASSUME DigitsAssumption == \A a \in DOMAIN Digits : Digits[a] \in Seq(0 .. 9) \ {<<>>}
ASSUME ShapesAssumption == \A a \in DOMAIN Shapes : Shapes[a].conf \in 0 .. 100

\* A space is no digit.
ASSUME SpaceAssumption == " " \notin DOMAIN Digits

\* What is ASCII has no other form.
ASSUME FormAssumption == \A a \in DOMAIN AsciiForm : AsciiForm[a] \notin DOMAIN AsciiForm

\* What is a letter is one in lower case, and an underscore is none.
ASSUME LowerAssumption == "_" \notin DOMAIN Lower /\ \A a \in DOMAIN Lower : Lower[a] \in DOMAIN Lower

DigitAt(t, i) == i \in DOMAIN t /\ t[i] \in DOMAIN Digits
LetterAt(t, i) == i \in DOMAIN t /\ t[i] \in DOMAIN Lower
AtomIn(t, i, atoms) == i \in DOMAIN t /\ t[i] \in atoms
WordAt(t, i) == DigitAt(t, i) \/ LetterAt(t, i) \/ AtomIn(t, i, DOMAIN Shapes \cup {"_"})

\* (?<!\w)...(?!\w), (?<!\d)...(?!\d), and a letter on one side or the other.
Apart(t, i, j) == ~WordAt(t, i - 1) /\ ~WordAt(t, j + 1)
NoDigitBeside(t, i, j) == ~DigitAt(t, i - 1) /\ ~DigitAt(t, j + 1)
LetterBeside(t, i, j) == LetterAt(t, i - 1) \/ LetterAt(t, j + 1)

\* A sequence as TLC computes it once.
Evaluated(s) == <<>> \o s

\* _normseps: as long as the text itself.
NormSeps(t) ==
  Evaluated([i \in DOMAIN t |-> IF t[i] \in DOMAIN AsciiForm THEN AsciiForm[t[i]] ELSE t[i]])

HasFormatChars(t) == \E i \in DOMAIN t : t[i] \in Invisible

\* The members of a finite set of numbers, from the least on.
Ascending(S) ==
  Evaluated([n \in 1 .. Cardinality(S) |-> CHOOSE k \in S : Cardinality({j \in S : j <= k}) = n])

\* _strip_format_chars: the places of the atoms that are seen, and what is left.
IdxMap(t) == Ascending({i \in DOMAIN t : t[i] \notin Invisible})
Clean(t) == LET idx == IdxMap(t) IN Evaluated([n \in DOMAIN idx |-> t[idx[n]]])
-----------------------------------------------------------------------------
(* Numbers *)

DigitsOf(t, i, j) ==
  FlattenSeq([k \in 1 .. (j + 1 - i) |-> IF DigitAt(t, i + k - 1) THEN Digits[t[i + k - 1]] ELSE <<>>])

Number(ds) == FoldLeft(LAMBDA n, d : 10 * n + d, 0, ds)

\* Every second digit from the right counts double, by its digits' sum.
LuhnOk(ds) ==
  LET weight(i) == IF (Len(ds) - i) % 2 = 0 THEN ds[i]
                   ELSE IF ds[i] > 4 THEN 2 * ds[i] - 9 ELSE 2 * ds[i]
  IN FoldLeft(LAMBDA s, d : s + d, 0, [i \in DOMAIN ds |-> weight(i)]) % 10 = 0

\* \d(?:[seps]?\d)*: digits, each separator between two of them.
Grouped(t, i, j, seps) ==
  /\ DigitAt(t, i) /\ DigitAt(t, j)
  /\ \A k \in i .. j :
       DigitAt(t, k) \/ (t[k] \in seps /\ DigitAt(t, k - 1) /\ DigitAt(t, k + 1))

\* How many digits stand before each separator.
Cuts(t, i, j) ==
  {Len(DigitsOf(t, i, k)) : k \in {l \in i .. j : ~DigitAt(t, l)}}

\* The greedy choice among the ends of a match that begins at a place, 0 if
\* there is none.
Longest(ends) == IF ends = {} THEN 0 ELSE Max(ends)

\* finditer: from left to right, and after a match from its end.
Matches(end) ==
  LET from[i \in 1 .. Cardinality(DOMAIN end) + 1] ==
        IF i \notin DOMAIN end THEN {}
        ELSE LET e == end[i] IN IF e = 0 THEN from[i + 1] ELSE {<<i, e>>} \cup from[e + 1]
  IN from[1]

Span(i, j, label, conf) == [from |-> i, to |-> j, label |-> label, conf |-> conf]

\* _date_shaped: Y-M-D with or without an hour, D-M-Y, M-D-Y, or YYYYMMDD.
DashedDate(t, i, j) ==
  LET ds == DigitsOf(t, i, j)
      cuts == Cuts(t, i, j)
      a == Min(cuts)
      b == Max(cuts)
      part(k, l) == Number(SubSeq(ds, k, l))
      short(k, l) == l - k \in {1, 2}
  IN /\ Grouped(t, i, j, {"-"}) /\ Cardinality(cuts) = 2
     /\ \/ /\ a = 4 /\ short(a, b) /\ short(b, Len(ds))
           /\ part(1, 4) \in 1900 .. 2099 /\ part(a + 1, b) \in 1 .. 12
           /\ part(b + 1, Len(ds)) \in 1 .. 31
        \/ /\ short(0, a) /\ short(a, b) /\ Len(ds) = b + 4
           /\ part(b + 1, Len(ds)) \in 1900 .. 2099
           /\ \/ part(1, a) \in 1 .. 31 /\ part(a + 1, b) \in 1 .. 12
              \/ part(1, a) \in 1 .. 12 /\ part(a + 1, b) \in 1 .. 31

DateShaped(t, i, j) ==
  LET ds == DigitsOf(t, i, j)
  IN \/ DashedDate(t, i, j)
     \/ \E k \in i + 1 .. j - 1 :
          /\ t[k] = " " /\ DashedDate(t, i, k - 1) /\ Min(Cuts(t, i, j)) = 4
          /\ Grouped(t, k + 1, j, {}) /\ Len(DigitsOf(t, k + 1, j)) \in {1, 2}
     \/ /\ Grouped(t, i, j, {}) /\ Len(ds) = 8 /\ Number(SubSeq(ds, 1, 4)) \in 1900 .. 2099
        /\ Number(SubSeq(ds, 5, 6)) \in 1 .. 12 /\ Number(SubSeq(ds, 7, 8)) \in 1 .. 31
-----------------------------------------------------------------------------
(* Cues and shapes *)

CueAt(t, k, cues) == AtomIn(t, k, cues) /\ ~LetterBeside(t, k, k)
CueBefore(t, i, cues) == \E k \in 1 .. i - 1 : CueAt(t, k, cues)
CueNear(t, i, j, cues) ==
  \E k \in (DOMAIN t) \ (i .. j) : CueAt(t, k, cues) /\ (k = j + 1 \/ ~DigitAt(t, k - 1))

\* A program account, which makes the nine digits before it a Business Number.
ProgramSuffix(t, j) ==
  \E p \in {j + 1, j + 2} :
    /\ AtomIn(t, p, Programs) /\ (p = j + 2 => AtomIn(t, j + 1, {" ", "-"}))
    /\ \E i \in {p + 1, p + 2} :
         /\ i = p + 2 => AtomIn(t, p + 1, {" ", "-"})
         /\ \E e \in i .. Len(t) :
              Grouped(t, i, e, {}) /\ Len(DigitsOf(t, i, e)) = 4 /\ ~DigitAt(t, e + 1)

Business(t, i, j) == ProgramSuffix(t, j) /\ ~CueBefore(t, i, SinCues)

\* E-mail, address, postal code, UUID, IBAN: matches of a single atom.
Shaped(t, labels) ==
  {Span(i, i, Shapes[t[i]].label, Shapes[t[i]].conf) :
     i \in {k \in DOMAIN t : t[k] \in DOMAIN Shapes /\ Shapes[t[k]].label \in labels /\ Apart(t, k, k)}}
=============================================================================
