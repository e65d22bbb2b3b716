--------------------------- MODULE ApplianceFloor ---------------------------
(***************************************************************************)
(* The deterministic detectors of appliance/privacy_gate.py: the names and *)
(* numbers that a cue announces (cue_name_spans, cue_digit_spans,          *)
(* card_aux_spans), and tier0_spans, the floor of the egress path, which   *)
(* no mode and no list switches off.  A cue, with the slash that ends it,  *)
(* is a single atom.                                                       *)
(* The caps of 60 characters, a ZIP+4, a ZIP after a state and an expiry   *)
(* date are left out, and so are the rules whose value holds letters.      *)
(***************************************************************************)
EXTENDS FloorText

CONSTANTS
  Capitalized,    \* words that begin with a capital
  Initials,       \* A, A., M.C.; those with a dot
  DottedInitials,
  Particles, Roles, Stopwords, Honorifics,  \* words, in lower case
  HeaderCues, LedgerCues, SlashCues,
  SecretCues,     \* card_cvv, password: [cues, label, least, most]
  ZipCues,
  NumberCues      \* account numbers and the like, the same

ASSUME CueAssumption == \A r \in SecretCues \cup NumberCues : r.least \in Nat \ {0} /\ r.most \in Nat

Blank == {" ", "  ", "\t"}
LineEnds == {"\n", "\r"}

\* From the first atom after a cue and its blanks, to the end of the line or of
\* the field.
After(t, c) == Min({k \in c + 1 .. Len(t) : t[k] \notin Blank} \cup {Len(t) + 1})
FieldEnd(t, a, stops) == Min({k \in a .. Len(t) : t[k] \in stops} \cup {Len(t) + 1}) - 1
LineStart(t, c) ==
  \E b \in 0 .. c - 1 : (b = 0 \/ t[b] = "\n") /\ \A k \in b + 1 .. c - 1 : t[k] \in Blank

\* The longest runs from a to b of atoms that are in none of the stops.
Runs(t, a, b, stops) ==
  LET in(k) == k \in a .. b /\ t[k] \notin stops
      first == Ascending({k \in DOMAIN t : in(k) /\ ~in(k - 1)})
      last(i) == Max({j \in i .. Len(t) : \A k \in i .. j : in(k)})
  IN Evaluated([n \in DOMAIN first |-> <<first[n], last(first[n])>>])

\* split()
Tokens(t, a, b) == Runs(t, a, b, Blank \cup LineEnds)

\* How many come before the first that is not.
Leading(ok) == Max({k \in 0 .. Len(ok) : \A n \in 1 .. k : ok[n]})

LowOf(t, p) == IF p[1] = p[2] /\ LetterAt(t, p[1]) THEN Lower[t[p[1]]] ELSE "-"

\* A name neither begins nor, in a ledger, ends with a particle.
Firm(t, run) == {k \in DOMAIN run : LowOf(t, run[k]) \notin Particles}
-----------------------------------------------------------------------------
(* Mail headers and mailboxes *)

Joints == {"-", "'", "."}

\* "<name@host>"
Mailboxes(t) ==
  {c \in DOMAIN t : /\ t[c] = "<" /\ AtomIn(t, c + 2, {">"})
                    /\ AtomIn(t, c + 1, {s \in DOMAIN Shapes : Shapes[s].label = "email"})}

\* _NAME_TOKEN_RE: letters, and a joint between two of them.
NameToks(t, a, b) ==
  Runs([k \in DOMAIN t |-> IF LetterAt(t, k) \/ (t[k] \in Joints /\ LetterAt(t, k - 1) /\ LetterAt(t, k + 1))
                           THEN "a" ELSE " "], a, b, {" "})

IsNameTok(t, p) ==
  LowOf(t, p) \notin Roles /\ (t[p[1]] \in Capitalized \/ LowOf(t, p) \in Particles)

GapOnly(t, i, j) == \A k \in i .. j : t[k] \in Blank \cup {"\"", "'"}

\* From right to left before a mailbox, from left to right after a header: at
\* most five words with nothing but blanks and quotes between them.
NameRunBefore(t, c) ==
  LET toks == Reverse(NameToks(t, 1, c - 1))
      to(n) == IF n = 1 THEN c ELSE toks[n - 1][1]
      n == Leading([k \in DOMAIN toks |-> k <= 5 /\ IsNameTok(t, toks[k]) /\ GapOnly(t, toks[k][2] + 1, to(k) - 1)])
      run == Reverse(SubSeq(toks, 1, n))
  IN IF Firm(t, run) = {} THEN {} ELSE {<<run[Min(Firm(t, run))][1], run[n][2]>>}

NameRunAfter(t, a, b) ==
  LET toks == NameToks(t, a, b)
      from(n) == IF n = 1 THEN a ELSE toks[n - 1][2] + 1
      n == Leading([k \in DOMAIN toks |-> k <= 5 /\ IsNameTok(t, toks[k]) /\ GapOnly(t, from(k), toks[k][1] - 1)])
      run == SubSeq(toks, 1, n)
  IN IF Firm(t, run) = {} THEN {} ELSE {<<run[Min(Firm(t, run))][1], run[n][2]>>}

\* Words of letters and joints, not all of them roles ...
NameShapedRelaxed(t, p) ==
  LET words == {w \in ToSet(Tokens(t, p[1], p[2])) : SubSeq(t, w[1], w[2]) # <<"-">>}
  IN /\ Cardinality(words) \in 1 .. 5 /\ (p[1] = p[2] => t[p[1]] \notin Initials \ DottedInitials)
     /\ \A w \in words :
          /\ \E k \in w[1] .. w[2] : LetterAt(t, k)
          /\ \A k \in w[1] .. w[2] : LetterAt(t, k) \/ t[k] \in Joints
     /\ \E w \in words : LowOf(t, w) \notin Roles

\* ... and each a particle or with a capital.
NameShaped(t, p) ==
  LET words == Tokens(t, p[1], p[2])
  IN /\ NameShapedRelaxed(t, p)
     /\ \A n \in DOMAIN words : t[words[n][1]] \in Capitalized \/ LowOf(t, words[n]) \in Particles
     /\ \E n \in DOMAIN words : t[words[n][1]] \in Capitalized
-----------------------------------------------------------------------------
(* Bank ledgers *)

\* A reference, a slash, a stopword or no word at all.
LedgerTokStop(t, p) ==
  \/ \A k \in p[1] .. p[2] : ~LetterAt(t, k)
  \/ \E k \in p[1] .. p[2] : ~LetterAt(t, k) /\ t[k] \notin Joints
  \/ LowOf(t, p) \in Stopwords

\* An initial is a name after a name, with a dot, or before a capital.
TakesInitial(t, run, p, next) ==
  /\ p[1] = p[2] /\ t[p[1]] \in Initials
  /\ run # <<>> \/ t[p[1]] \in DottedInitials \/ (next # <<>> /\ t[next[1]] \in Capitalized)

\* A leading honorific and a hyphen between names are passed over.
PassedOver(t, run, p) ==
  \/ run = <<>> /\ LowOf(t, p) \in Honorifics
  \/ run # <<>> /\ SubSeq(t, p[1], p[2]) = <<"-">>

LedgerNameRun(t, c) ==
  LET a == After(t, c)
      toks == Tokens(t, a, FieldEnd(t, a, {"\n", "\r", "\t", "  "}))
      next(k) == IF k = Len(toks) THEN <<>> ELSE toks[k + 1]
      scan == FoldLeft(LAMBDA r, k :
                CASE ~r.open \/ Len(r.run) = 5 \/ PassedOver(t, r.run, toks[k]) -> r
                  [] OTHER ->
                       IF TakesInitial(t, r.run, toks[k], next(k)) \/ ~LedgerTokStop(t, toks[k])
                       THEN [r EXCEPT !.run = Append(@, toks[k])] ELSE [r EXCEPT !.open = FALSE],
                [run |-> <<>>, open |-> TRUE], [k \in DOMAIN toks |-> k])
      firm == Firm(t, scan.run)
  IN IF firm = {} THEN {} ELSE {<<scan.run[Min(firm)][1], scan.run[Max(firm)][2]>>}

\* Everything to the next slash.
LedgerSlashName(t, c) ==
  LET a == After(t, c)
      inside == {k \in a .. FieldEnd(t, a, {"/", "\n", "\r", "\t", "  "}) : t[k] \notin Blank}
  IN IF inside = {} THEN {} ELSE {<<Min(inside), Max(inside)>>}

CueNameSpans(t) ==
  LET at(cues) == {c \in DOMAIN t : t[c] \in cues}
      headers == {c \in at(HeaderCues) : LineStart(t, c)}
      names == (UNION {NameRunBefore(t, c) : c \in Mailboxes(t)})
               \cup UNION {NameRunAfter(t, After(t, c), FieldEnd(t, After(t, c), {"\n"})) : c \in headers}
      fields == (UNION {LedgerNameRun(t, c) : c \in at(LedgerCues)})
                \cup UNION {LedgerSlashName(t, c) : c \in at(SlashCues)}
  IN {Span(p[1], p[2], "person", 95) :
        p \in {n \in names : NameShaped(t, n)} \cup {f \in fields : NameShapedRelaxed(t, f)}}
-----------------------------------------------------------------------------
(* Numbers after a cue *)

\* Between a cue and its number, at most one of the marks.
Announced(t, c, i, blanks, marks) ==
  /\ c < i /\ \A k \in c + 1 .. i - 1 : t[k] \in blanks \cup marks
  /\ Cardinality({k \in c + 1 .. i - 1 : t[k] \in marks}) <= 1

CountIn(t, i, j, rule) == Len(DigitsOf(t, i, j)) \in rule.least .. rule.most

\* _CVV_RE, _NUM_SECRET_RE: all the digits of one number.
CardAuxSpans(t) ==
  UNION {{Span(m[2], m[3], r.label, 90) :
            m \in {n \in {c \in DOMAIN t : t[c] \in r.cues} \X (DOMAIN t) \X (DOMAIN t) :
                     /\ Announced(t, n[1], n[2], Blank \cup LineEnds \cup {"\""}, {":", "=", "#", "-"})
                     /\ Grouped(t, n[2], n[3], {}) /\ CountIn(t, n[2], n[3], r) /\ ~DigitAt(t, n[3] + 1)}} :
         r \in SecretCues}

\* _US_ZIP_KW_RE
UsZipSpans(t) ==
  {Span(m[2], m[3], "postal_code", 90) :
     m \in {n \in {c \in DOMAIN t : t[c] \in ZipCues} \X (DOMAIN t) \X (DOMAIN t) :
              /\ Announced(t, n[1], n[2], Blank \cup LineEnds, {":"})
              /\ Grouped(t, n[2], n[3], {}) /\ Len(DigitsOf(t, n[2], n[3])) = 5 /\ ~DigitAt(t, n[3] + 1)}}

\* The rules of a number: on the line of its cue, the longest grouping that the
\* rule admits.  An account number may be no Business Number.
CueNumbers(t, r) ==
  LET end(i) == Longest({j \in i .. Len(t) : Grouped(t, i, j, {" ", "-"}) /\ CountIn(t, i, j, r)})
  IN {Span(m[2], end(m[2]), r.label, 92) :
        m \in {n \in {c \in DOMAIN t : t[c] \in r.cues} \X (DOMAIN t) :
                 /\ ~WordAt(t, n[1] - 1) /\ end(n[2]) > 0
                 /\ Announced(t, n[1], n[2], {" ", "\t"}, {":", "#", "=", "|"})
                 /\ ~(/\ r.label = "account_number" /\ Len(DigitsOf(t, n[2], end(n[2]))) = 9
                      /\ ProgramSuffix(t, end(n[2])))}}

\* The rule of the birth dates.
CueDates(t) ==
  {Span(i, i, "date_of_birth", 92) :
     i \in {k \in DOMAIN t : /\ t[k] \in DOMAIN Shapes /\ Shapes[t[k]].label = "sensitive_date"
                             /\ \E c \in 1 .. k - 1 :
                                  /\ t[c] \in DobCues /\ ~WordAt(t, c - 1)
                                  /\ Announced(t, c, k, {" ", "\t"}, {":", "#", "=", "|"})}}

CueDigitSpans(t) == (UNION {CueNumbers(t, r) : r \in NumberCues}) \cup CueDates(t)
-----------------------------------------------------------------------------
(* tier0_spans *)

\* PHONE_RE: 3-3-4 digits, a 1 before them or not.
PhoneEnd(t, i) ==
  Longest({j \in i .. Len(t) :
    /\ Grouped(t, i, j, {" ", ".", "-"}) /\ Apart(t, i, j)
    /\ LET ds == DigitsOf(t, i, j) IN
         \/ Len(ds) = 10 /\ Cuts(t, i, j) \subseteq {3, 6}
         \/ Len(ds) = 11 /\ ds[1] = 1 /\ Cuts(t, i, j) \subseteq {1, 4, 7}})

Phones(t) == Matches([i \in DOMAIN t |-> PhoneEnd(t, i)])

\* How long digits and separators are.
Chars(t, i, j) ==
  Len(DigitsOf(t, i, j)) + Cardinality({k \in i .. j : ~DigitAt(t, k)})
    + Cardinality({k \in i .. j : t[k] = "  "})

\* DIGIT_RUN_RE: any spaces and dashes between its first and last digit.
DigitRunEnd(t, i) ==
  Longest({j \in i .. Len(t) :
    /\ DigitAt(t, i) /\ DigitAt(t, j) /\ Apart(t, i, j)
    /\ \A k \in i .. j : DigitAt(t, k) \/ t[k] \in {" ", "  ", "-"}
    /\ Chars(t, i, j) >= 7})

\* A date is a birth date after a cue.
Dated(t, i, j) ==
  IF CueBefore(t, i, DobCues) THEN Span(i, j, "date_of_birth", 90) ELSE Span(i, j, "sensitive_date", 80)

Dates(t) == {Dated(t, s.from, s.to) : s \in Shaped(t, {"sensitive_date"})}

\* The digits of a phone number, or of a Business Number.
Owned(t, i, j) ==
  \/ Cuts(t, i, j) # {} /\ \E p \in Phones(t) : p[1] <= i /\ j <= p[2]
  \/ Len(DigitsOf(t, i, j)) = 9 /\ Business(t, i, j)

\* What a number is taken for, by how many digits it has.
Numbered(t, i, j) ==
  LET ds == DigitsOf(t, i, j)
      ok == LuhnOk(ds)
  IN CASE Len(ds) \in {15, 16} -> Span(i, j, "payment_card", IF ok THEN 97 ELSE 70)
       [] Len(ds) = 9 -> Span(i, j, "government_id", IF ok THEN 90 ELSE 75)
       [] OTHER -> Span(i, j, "sensitive_account_id", 60)

DigitRuns(t) ==
  LET runs == Matches([i \in DOMAIN t |-> DigitRunEnd(t, i)])
      dates == {m \in runs : DateShaped(t, m[1], m[2])}
  IN {Dated(t, m[1], m[2]) : m \in dates}
     \cup {Numbered(t, m[1], m[2]) :
             m \in {n \in runs \ dates : Len(DigitsOf(t, n[1], n[2])) \in 7 .. 19 /\ ~Owned(t, n[1], n[2])}}

\* _LONG_ID_RE
LongIdEnd(t, i) ==
  Longest({j \in i .. Len(t) :
    /\ Grouped(t, i, j, {" ", "-"}) /\ NoDigitBeside(t, i, j)
    /\ Len(DigitsOf(t, i, j)) \in 9 .. 19})

LongIds(t) == Matches([i \in DOMAIN t |-> LongIdEnd(t, i)])

\* A long number glued to letters, with a cue before or after it.
ContextCued(t) ==
  {Span(m[1], m[2], "sensitive_account_id", 55) :
     m \in {l \in LongIds(t) : LetterBeside(t, l[1], l[2]) /\ CueNear(t, l[1], l[2], IdCues)}}

\* _GLUED_CARD_RE
GluedCardEnd(t, i) ==
  Longest({j \in i .. Len(t) :
    /\ DigitAt(t, i) /\ DigitAt(t, j) /\ NoDigitBeside(t, i, j)
    /\ \A k \in i .. j : DigitAt(t, k) \/ t[k] \in {" ", "  ", "-"}
    /\ Chars(t, i, j) \in 15 .. 20})

GluedChecksums(t) ==
  {Span(m[1], m[2], "payment_card", 95) :
     m \in {g \in Matches([i \in DOMAIN t |-> GluedCardEnd(t, i)]) :
              LET ds == DigitsOf(t, g[1], g[2]) IN Len(ds) \in {15, 16} /\ LuhnOk(ds)}}
  \cup {Span(i, i, "iban", 99) :
     i \in {k \in DOMAIN t : /\ t[k] \in DOMAIN Shapes /\ Shapes[t[k]].label = "iban"
                             /\ WordAt(t, k - 1) /\ ~WordAt(t, k + 1)}}

\* _GLUED_DIGIT_RE: nine digits on their own, Luhn-valid and glued to letters.
GluedDigitEnd(t, i) ==
  Longest({j \in i .. Len(t) :
    Grouped(t, i, j, {}) /\ NoDigitBeside(t, i, j) /\ Len(DigitsOf(t, i, j)) = 9})

GluedDigits(t) ==
  {Span(m[1], m[2], "government_id", 80) :
     m \in {g \in Matches([i \in DOMAIN t |-> GluedDigitEnd(t, i)]) :
              /\ LetterBeside(t, g[1], g[2]) /\ LuhnOk(DigitsOf(t, g[1], g[2]))
              /\ ~Business(t, g[1], g[2])}}

\* _SEP_CARD_RE and _DOT_SSN_RE: (?<![\d.])...(?![\d.])
Undotted(t, i, j) ==
  NoDigitBeside(t, i, j) /\ ~AtomIn(t, i - 1, {"."}) /\ ~AtomIn(t, j + 1, {"."})

SepCardEnd(t, i) ==
  Longest({j \in i .. Len(t) :
    /\ Grouped(t, i, j, {" ", ".", "-"}) /\ Undotted(t, i, j)
    /\ \/ Len(DigitsOf(t, i, j)) = 16 /\ Cuts(t, i, j) = {4, 8, 12}
       \/ Len(DigitsOf(t, i, j)) = 15 /\ Cuts(t, i, j) = {4, 10}})

DotSsnEnd(t, i) ==
  Longest({j \in i .. Len(t) :
    /\ Grouped(t, i, j, {"."}) /\ Undotted(t, i, j)
    /\ Len(DigitsOf(t, i, j)) = 9 /\ Cuts(t, i, j) = {3, 5}})

SeparatedCards(t) ==
  {Span(m[1], m[2], "payment_card", 95) :
     m \in {g \in Matches([i \in DOMAIN t |-> SepCardEnd(t, i)]) : LuhnOk(DigitsOf(t, g[1], g[2]))}}
  \cup {Span(m[1], m[2], "government_id", 80) : m \in Matches([i \in DOMAIN t |-> DotSsnEnd(t, i)])}

\* The scan of a text as it stands.
ScanOnce(raw) ==
  LET t == NormSeps(raw)
  IN Shaped(t, {"email", "ip_address", "postal_code", "uuid", "iban"})
       \cup {Span(p[1], p[2], "phone_number", 85) : p \in Phones(t)}
       \cup Dates(t) \cup DigitRuns(t) \cup ContextCued(t) \cup GluedChecksums(t)
       \cup GluedDigits(t) \cup SeparatedCards(t) \cup CardAuxSpans(t)
       \cup UsZipSpans(t) \cup CueNameSpans(t) \cup CueDigitSpans(t)

\* [mutant] The places are those of the stripped copy.
NotMappedBack(s, idx) == s

\* What is found where they are left out covers those between as well.
MappedBack(s, idx) == [s EXCEPT !.from = idx[s.from], !.to = idx[s.to]]

Tier0Spans(t) ==
  ScanOnce(t) \cup IF HasFormatChars(t) /\ Clean(t) # <<>>
                   THEN {MappedBack(s, IdxMap(t)) : s \in ScanOnce(Clean(t))} ELSE {}
=============================================================================
