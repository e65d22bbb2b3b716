----------------------------- MODULE BrowserFloor -----------------------------
(***************************************************************************)
(* tier0Spans of redaction-core/src/tier0.ts, the port of the appliance's  *)
(* floor that runs in the browser and is kept in step by hand.  Health     *)
(* card and driver's licence numbers are left out.                         *)
(***************************************************************************)
EXTENDS ApplianceFloor

CONSTANTS
  BrowserForm,  \* as AsciiForm, of the classes of the port
  NeqCues

BrowserNormSeps(t) ==
  Evaluated([i \in DOMAIN t |-> IF t[i] \in DOMAIN BrowserForm THEN BrowserForm[t[i]] ELSE t[i]])

\* DIGIT_RUN_RE: single separators, and no dot at its ends.
BrowserRunEnd(t, i) ==
  Longest({j \in i .. Len(t) : Grouped(t, i, j, {" ", "-"}) /\ Apart(t, i, j) /\ Undotted(t, i, j)})

\* Ten digits in one piece are no phone number.
BrowserPhones(t) == {p \in Phones(t) : ~(Grouped(t, p[1], p[2], {}) /\ Len(DigitsOf(t, p[1], p[2])) = 10)}

BrowserOwned(t, i, j) ==
  LET n == Len(DigitsOf(t, i, j))
  IN \/ n = 9 /\ Business(t, i, j)
     \/ /\ n \notin {9, 15, 16} /\ Cuts(t, i, j) # {}
        /\ \E p \in BrowserPhones(t) : p[1] <= i /\ j <= p[2]

BrowserDigitRuns(t) ==
  LET runs == Matches([i \in DOMAIN t |-> BrowserRunEnd(t, i)])
      dates == {m \in runs : DateShaped(t, m[1], m[2])}
  IN {Span(m[1], m[2], "sensitive_date", 80) : m \in dates}
     \cup {Numbered(t, m[1], m[2]) :
             m \in {n \in runs \ dates :
                      Len(DigitsOf(t, n[1], n[2])) \in 7 .. 19 /\ ~BrowserOwned(t, n[1], n[2])}}

\* The letters and digits glued to a cued number are part of it.
BrowserContextCued(t) ==
  {[s EXCEPT !.from = Min({i \in 1 .. @ : \A k \in i .. s.from : DigitAt(t, k) \/ LetterAt(t, k)}),
             !.to = Max({j \in @ .. Len(t) : \A k \in s.to .. j : DigitAt(t, k) \/ LetterAt(t, k)})] :
     s \in ContextCued(t)}

\* Ten digits with the cue of an enterprise number.
QuebecCued(t) ==
  {Span(n[1], n[2], "sensitive_account_id", 90) :
     n \in {m \in (DOMAIN t) \X (DOMAIN t) :
              /\ Grouped(t, m[1], m[2], {}) /\ Len(DigitsOf(t, m[1], m[2])) = 10
              /\ NoDigitBeside(t, m[1], m[2]) /\ ~LetterBeside(t, m[1], m[2])
              /\ CueNear(t, m[1], m[2], NeqCues)}}

BrowserGluedDigits(t) == GluedDigits(t)
BrowserSeparatedCards(t) == SeparatedCards(t)
BrowserCardAux(t) == CardAuxSpans(t)
BrowserCueNames(t) == CueNameSpans(t)
BrowserCueDigits(t) == CueDigitSpans(t)

BrowserScanOnce(raw) ==
  LET t == BrowserNormSeps(raw)
  IN Shaped(t, {"email", "ip_address", "postal_code", "uuid", "iban", "sensitive_date"})
       \cup {Span(p[1], p[2], "phone_number", 85) : p \in BrowserPhones(t)}
       \cup BrowserDigitRuns(t) \cup BrowserContextCued(t) \cup QuebecCued(t)
       \cup BrowserGluedDigits(t) \cup BrowserSeparatedCards(t) \cup BrowserCardAux(t)
       \cup BrowserCueNames(t) \cup BrowserCueDigits(t)

\* [mutant] The end of a match is looked up one place too early.
EndsEarly(s, t) ==
  LET idx == IdxMap(t) IN [s EXCEPT !.from = idx[@], !.to = idx[@] - 1]

\* idxMap[s.end]: a match ends where the next visible character begins, and
\* takes the invisible ones behind it with it.
ToNextVisible(s, t) ==
  LET idx == Append(IdxMap(t), Len(t) + 1)
  IN [s EXCEPT !.from = idx[@], !.to = idx[@ + 1] - 1]

BrowserSpans(t) ==
  BrowserScanOnce(t) \cup IF HasFormatChars(t) /\ Clean(t) # <<>>
                          THEN {ToNextVisible(s, t) : s \in BrowserScanOnce(Clean(t))} ELSE {}
=============================================================================
