------------------------------ MODULE Detection ------------------------------
(***************************************************************************)
(* A text and those who look for personal data in it: the browser, the     *)
(* floor of the egress path, and the gate.  None waits for another, so     *)
(* each scan of the first two is taken while the gate is idle.             *)
(***************************************************************************)
EXTENDS GateService, BrowserFloor

CONSTANTS
  LocalTexts,   \* what the browser and the egress path look at
  Secrets       \* the digits of the cards and social insurance numbers

ASSUME SecretsAssumption == \A ds \in Secrets : Len(ds) \in {9, 15, 16} /\ LuhnOk(ds)
ASSUME LocalTextAssumption == \A t \in LocalTexts : IsText(t)

VARIABLE scan   \* [who, text, spans] of a local scan, <<>> if there is none

vars == <<gateVars, scan>>

Init == GateInit /\ scan = <<>>

\* Someone opens a text; the browser, or the egress path, looks at it.
Open(t) ==
  /\ scan = <<>> /\ bound = <<>>
  /\ scan' = [who |-> "nobody", text |-> t, spans |-> {}]
  /\ UNCHANGED gateVars

BrowserScan ==
  /\ scan # <<>> /\ scan.who = "nobody"
  /\ scan' = [scan EXCEPT !.who = "browser", !.spans = BrowserSpans(scan.text)]
  /\ UNCHANGED gateVars

ApplianceScan ==
  /\ scan # <<>> /\ scan.who = "nobody"
  /\ scan' = [scan EXCEPT !.who = "appliance", !.spans = Tier0Spans(scan.text)]
  /\ UNCHANGED gateVars

Close ==
  /\ scan # <<>> /\ scan.who # "nobody"
  /\ scan' = <<>>
  /\ UNCHANGED gateVars

Next ==
  \/ \E t \in LocalTexts : Open(t)
  \/ BrowserScan \/ ApplianceScan \/ Close
  \/ scan = <<>> /\ GateNext /\ UNCHANGED scan

Spec == Init /\ [][Next]_vars
-----------------------------------------------------------------------------
(* Cards and social insurance numbers *)

\* No other number is reached through spaces and dashes.
Solitary(t, i, j) ==
  \A k \in (DOMAIN t) \ (i .. j) :
    DigitAt(t, k) => \E n \in (k + 1 .. i - 1) \cup (j + 1 .. k - 1) : t[n] \notin {" ", "  ", "-"}

Alone(t, i, j) ==
  /\ Grouped(t, i, j, {" ", "-"}) /\ DigitsOf(t, i, j) \in Secrets
  /\ Apart(t, i, j) /\ Solitary(t, i, j) /\ ~Business(t, i, j) /\ ~DateShaped(t, i, j)

AloneIn(t) ==
  {p \in {k \in DOMAIN t : DigitAt(t, k)} \X {k \in DOMAIN t : DigitAt(t, k)} :
     p[1] <= p[2] /\ Alone(t, p[1], p[2])}

\* A text as it stands, and with its invisible characters left out; at are the
\* places of its atoms.
Views(t) ==
  {[text |-> NormSeps(t), at |-> Evaluated([i \in DOMAIN t |-> i])],
   [text |-> NormSeps(Clean(t)), at |-> IdxMap(t)]}

Covered(p, found, labels) ==
  \E s \in found : s.from <= p[1] /\ p[2] <= s.to /\ s.label \in labels

Numbers == {"payment_card", "government_id"}

ASSUME NumberLabelsAssumption == Numbers \subseteq FloorLabels

\* No dress hides a number: a card or social insurance number that stands alone
\* is found as one by the floor of the egress path, whatever Unicode spaces and
\* dashes group it and wherever invisible characters are put in it, and the span
\* is where the number is in the text as the caller wrote it.
NumbersFound ==
  scan # <<>> /\ scan.who = "appliance" =>
    \A v \in Views(scan.text) : \A p \in AloneIn(v.text) :
      Covered(<<v.at[p[1]], v.at[p[2]]>>, scan.spans, Numbers)

\* An atom that the floor and the port take for the same.
KnownToBoth(a) ==
  /\ a \in DOMAIN AsciiForm <=> a \in DOMAIN BrowserForm
  /\ a \in DOMAIN AsciiForm => AsciiForm[a] = BrowserForm[a]

\* A number that is one space or dash away.
NumberBeside(t, i, j) ==
  \/ AtomIn(t, i - 1, {" ", "-"}) /\ DigitAt(t, i - 2)
  \/ AtomIn(t, j + 1, {" ", "-"}) /\ DigitAt(t, j + 2)

\* What the port leaves out, unless another rule finds it: numbers that are
\* glued to a word, beside a dot, spaced by more than one, or beside another.
LeftOutByPort(t, s) ==
  /\ s \in DigitRuns(t) \cup GluedChecksums(t)
  /\ \/ ~Apart(t, s.from, s.to) \/ AtomIn(t, s.from - 1, {"."}) \/ AtomIn(t, s.to + 1, {"."})
     \/ ~Grouped(t, s.from, s.to, {" ", "-"})
     \/ NumberBeside(t, s.from, s.to)

\* The port of the floor to the browser is in step: whatever the floor of the
\* egress path takes for a card or social insurance number, the browser covers
\* with one as well, but for the shapes it leaves out and the characters that
\* only one of them knows.
PortInStep ==
  scan # <<>> /\ scan.who = "browser" =>
    \A v \in Views(scan.text) :
      (\A k \in DOMAIN v.at : KnownToBoth(scan.text[v.at[k]])) =>
        \A s \in ScanOnce(v.text) :
          s.label \in Numbers /\ ~LeftOutByPort(v.text, s) =>
            Covered(<<v.at[s.from], v.at[s.to]>>, scan.spans, Numbers)
-----------------------------------------------------------------------------
(* The gate *)

\* What some window has whole, wherever the windows are cut.
InOnePiece(t, i, j) == j - i < Overlap /\ \A k \in i .. j : t[k] \notin LineEnds

\* What may be a program account, were it not for what follows.
ProgramBehind(t, j) ==
  \E p \in {j + 1, j + 2} : AtomIn(t, p, Programs) /\ (p = j + 2 => AtomIn(t, j + 1, {" ", "-"}))

\* Some window has the number whole, and if it may be a Business Number there,
\* the cue that says it is none.
InOneWindow(t, v, p) ==
  /\ InOnePiece(t, v.at[p[1]], v.at[p[2]])
  /\ ProgramBehind(v.text, p[2]) =>
       \E c \in 1 .. p[1] - 1 : CueAt(v.text, c, SinCues) /\ InOnePiece(t, v.at[c], v.at[p[2]])

\* Wherever the windows of a long text are cut and whatever the model takes its
\* words for, the answer has every number that stands alone on its line, under
\* a label that no later step may weaken.
NumbersAnswered ==
  phase \in {"sought", "masked", "swept", "answered"} =>
    \A v \in Views(asked.text) : \A p \in AloneIn(v.text) :
      InOneWindow(asked.text, v, p) =>
        Covered(<<v.at[p[1]], v.at[p[2]]>>, spans, FloorLabels)

Served == phase = "answered" /\ asked.kind = "redact"

\* A span that neither begins nor ends within a word, nor in a joint of words, _.
Whole(t, s) ==
  /\ t[s.from] # "_" /\ t[s.to] # "_"
  /\ WordAt(t, s.from) => ~WordAt(t, s.from - 1)
  /\ WordAt(t, s.to) => ~WordAt(t, s.to + 1)

\* No value that was found stands in the redacted text, in either case unless
\* its label tells cases apart.  A value that ends in a joint of words has no
\* end to be told by, and may bring to light what stood beside it.
NoValueLeft ==
  Served /\ (\A s \in spans : asked.text[s.from] # "_" /\ asked.text[s.to] # "_") =>
    \A s \in spans : ~TooShort(asked.text, s.from, s.to) =>
      \A i \in DOMAIN out : ~StandsAt(out, i, ValueOf(s), s.label \in CaseSensitive)

\* Neither does a word of a name, or anything else that repeats were sought of,
\* in either case.  What a span cut off a word would be one where it was none.
NoNameLeft ==
  Served /\ (\A s \in spans : Whole(asked.text, s)) =>
    \A p \in searched : WordAt(asked.text, p[1]) /\ WordAt(asked.text, p[2]) =>
      \A i \in DOMAIN out : ~Occurs(out, i, Folded(asked.text, p[1], p[2]))

\* One hit is enough: neither a value that was found nor a word of a name stands
\* in the redacted text anywhere else.
NoRepeatLeft == NoValueLeft /\ NoNameLeft

\* Whoever holds the mapping gets the text back: every placeholder stands for
\* what was there, in its own case where the label tells cases apart.
RoundTrips ==
  Served =>
    LET back == Rehydrated(out, names)
    IN /\ Folded(back, 1, Len(back)) = Folded(asked.text, 1, Len(asked.text))
       /\ \A s \in spans : s.label \in CaseSensitive => SubSeq(back, s.from, s.to) = ValueOf(s)
=============================================================================
