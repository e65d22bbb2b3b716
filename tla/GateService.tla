----------------------------- MODULE GateService -----------------------------
(***************************************************************************)
(* The detection gate as a service: gate/gate_service_gpu.py, with         *)
(* gate_http_policy.py and PrivacyGate of gate/privacy_gate.py.  Requests  *)
(* run on threads of their own and share nothing but the model, so one at  *)
(* a time is considered.                                                   *)
(***************************************************************************)
EXTENDS GateSpans

CONSTANTS
  Texts,        \* what callers send
  Tags,         \* what the model may say of a token, Outside among it
  Tagged,       \* the atoms it may say anything but Outside of
  Scores,       \* the min_score of a /detect
  Headers, NoHeader, Token, NoToken,
  Hosts, Loopback,
  CaseSensitive,  \* _CASE_SENSITIVE_LABELS
  Placeholder     \* <LABEL_NNN>: of a label, the first, the second ...

\* What a span may be labelled.
Labels ==
  {"payment_card", "government_id", "date_of_birth", "person"}
    \cup {Shapes[a].label : a \in DOMAIN Shapes} \cup {r.label : r \in SecretCues \cup NumberCues}
    \cup {g.label : g \in Tags \ {Outside}}

IsText(t) == t \in Seq(ToSet(t))

ASSUME TextAssumption == \A t \in Texts : IsText(t)
ASSUME TagsAssumption == \A g \in Tags : g.conf \in 0 .. 100

\* Words that are one in lower case are as long.
ASSUME ShortAssumption ==
  \A t \in Texts : \A i, j \in DOMAIN t :
    Folded(t, i, i) = Folded(t, j, j) /\ TooShort(t, i, i) => TooShort(t, j, j)

\* The counters of the labels have no end, a placeholder is no word, and no
\* text has one of its own.
ASSUME PlaceholderAssumption ==
  /\ \A l, m \in Labels : \A i \in DOMAIN Placeholder[l], j \in DOMAIN Placeholder[m] :
       Placeholder[l][i] = Placeholder[m][j] => l = m /\ i = j
  /\ \A l \in Labels, t \in Texts : DOMAIN t \subseteq DOMAIN Placeholder[l]
  /\ \A l \in Labels : \A i \in DOMAIN Placeholder[l] :
       /\ Placeholder[l][i] \notin DOMAIN Digits \cup DOMAIN Shapes \cup DOMAIN Lower \cup {"_"}
       /\ \A a \in DOMAIN Lower : Placeholder[l][i] # Lower[a]
       /\ \A t \in Texts : Placeholder[l][i] \notin ToSet(t)

VARIABLES
  bound,    \* what the service listens on, <<>> while it is down
  asked,    \* the request that is served, <<>> if none
  phase,    \* "idle", "floor", "model", "sought", "masked", "swept", "answered" or "refused"
  chunks,   \* which are still to be scanned, the one that is comes first
  known,    \* what is known of that chunk without the model
  spans,
  searched, \* where the values stand that repeats were sought of
  out,      \* the text, redacted
  names     \* mapping: of each placeholder, [value, label]

gateVars == <<bound, asked, phase, chunks, known, spans, searched, out, names>>

GateInit ==
  /\ bound = <<>> /\ asked = <<>> /\ phase = "idle" /\ chunks = <<>>
  /\ known = {} /\ spans = {} /\ searched = {} /\ out = <<>> /\ names = <<>>

Required(host) == host # Loopback

\* require_gate_token_configured: no token, no service for others.
Start(host, token) ==
  /\ bound = <<>>
  /\ Required(host) => token # NoToken
  /\ bound' = [host |-> host, token |-> token]
  /\ UNCHANGED <<asked, phase, chunks, known, spans, searched, out, names>>

\* authorize_gate_request
Authorized(header) == Required(bound.host) => (header # NoHeader /\ header = bound.token)

Refuse(header, request) ==
  /\ bound # <<>> /\ phase = "idle"
  /\ ~Authorized(header) \/ request.kind = "other_mode"
  /\ phase' = "refused"
  /\ UNCHANGED <<bound, asked, chunks, known, spans, searched, out, names>>

Receive(header, request) ==
  /\ bound # <<>> /\ phase = "idle"
  /\ Authorized(header) /\ request.kind # "other_mode"
  /\ asked' = request /\ phase' = "floor" /\ chunks' = Chunks(request.text)
  /\ UNCHANGED <<bound, known, spans, searched, out, names>>

Chunk == SubSeq(asked.text, Head(chunks)[1], Head(chunks)[2])

\* Of a place in the chunk, the place in the text.
InText(s) == [s EXCEPT !.from = @ + Head(chunks)[1] - 1, !.to = @ + Head(chunks)[1] - 1]

\* validated_floor, cue_name_spans and cue_digit_spans of a chunk.
ScanFloor ==
  /\ phase = "floor" /\ chunks # <<>>
  /\ known' = GateKnows(Chunk)
  /\ phase' = "model"
  /\ UNCHANGED <<bound, asked, chunks, spans, searched, out, names>>

\* The model's tags, merged with what is known.
AskModel ==
  /\ phase = "model"
  /\ \E t \in {Chunk} : \E guess \in [{k \in DOMAIN t : t[k] \in Tagged} -> Tags] :
       LET tokens == {k \in DOMAIN t : t[k] \notin Blank \cup LineEnds}
           tags == [k \in tokens |-> IF k \in DOMAIN guess THEN guess[k] ELSE Outside]
       IN spans' = spans \cup {InText(s) : s \in Merged(known \cup Decode(tags, asked.least))}
  /\ known' = {} /\ phase' = "floor" /\ chunks' = Tail(chunks)
  /\ UNCHANGED <<bound, asked, searched, out, names>>

\* The end of detect_chunked, which is the answer to /detect.
Assemble ==
  /\ phase = "floor" /\ chunks = <<>>
  /\ \E t \in {asked.text} : \E toks \in {Tokens(t, 1, Len(t))} :
       \E grown \in {GrownNames(t, toks, spans)} : \E sources \in {Sources(t, grown)} :
         spans' = Merged(WithRepeats(t, grown, sources)) /\ searched' = {q[1] : q \in sources}
  /\ phase' = IF asked.kind = "redact" THEN "sought" ELSE "answered"
  /\ UNCHANGED <<bound, asked, chunks, known, out, names>>
-----------------------------------------------------------------------------
(* PrivacyGate.redact *)

ValueOf(s) == SubSeq(asked.text, s.from, s.to)

\* [mutant] Names are one value in either case as well.
SameFolded(r, s) ==
  r.label = s.label /\ Folded(asked.text, r.from, r.to) = Folded(asked.text, s.from, s.to)

SameValue(r, s) ==
  /\ r.label = s.label
  /\ IF r.label \in CaseSensitive THEN ValueOf(r) = ValueOf(s)
     ELSE Folded(asked.text, r.from, r.to) = Folded(asked.text, s.from, s.to)

Firsts == {s \in spans : \A r \in spans : SameValue(r, s) => s.from <= r.from}

\* In the order of the text, one for each value.
PlaceholderOf(s) ==
  LET first == CHOOSE r \in Firsts : SameValue(r, s)
  IN Placeholder[s.label][Cardinality({r \in Firsts : r.label = s.label /\ r.from <= first.from})]

Substitute ==
  /\ phase = "sought"
  /\ out' = FlattenSeq([i \in DOMAIN asked.text |->
                         IF \A s \in spans : i \notin s.from .. s.to THEN <<asked.text[i]>>
                         ELSE LET s == CHOOSE r \in spans : i \in r.from .. r.to
                              IN IF i = s.from THEN <<PlaceholderOf(s)>> ELSE <<>>])
  /\ names' = [p \in {PlaceholderOf(s) : s \in Firsts} |->
                 LET s == CHOOSE r \in Firsts : PlaceholderOf(r) = p
                 IN [value |-> ValueOf(s), label |-> s.label]]
  /\ phase' = "masked"
  /\ UNCHANGED <<bound, asked, chunks, known, spans, searched>>

\* _build_known_re: a letter or digit that a match begins or ends with has no
\* word beside it.
AlnumAt(t, i) == WordAt(t, i) /\ t[i] # "_"
Guarded(t, i, j) == (AlnumAt(t, i) => ~WordAt(t, i - 1)) /\ (AlnumAt(t, j) => ~WordAt(t, j + 1))

\* Where a value stands in a text, spelled as it is or in either case.
StandsAt(t, i, value, exact) ==
  LET j == i + Len(value) - 1
  IN /\ j <= Len(t) /\ Guarded(t, i, j)
     /\ IF exact THEN SubSeq(t, i, j) = value ELSE Folded(t, i, j) = Folded(value, 1, Len(value))

\* _sweep_known: every value of the mapping that is left gets its placeholder,
\* the longest first.
Sweep(t, these, exact) ==
  LET hits(i) == {p \in these : StandsAt(t, i, names[p].value, exact)}
      longest(i) == CHOOSE p \in hits(i) : \A q \in hits(i) : Len(names[p].value) >= Len(names[q].value)
      from[i \in 1 .. Len(t) + 1] ==
        IF i > Len(t) THEN <<>>
        ELSE IF hits(i) = {} THEN <<t[i]>> \o from[i + 1]
        ELSE <<longest(i)>> \o from[i + Len(names[longest(i)].value)]
  IN from[1]

\* [mutant] Only what is exact is swept.
SweptOnce(exact) ==
  {p \in DOMAIN names : exact /\ ~TooShort(names[p].value, 1, Len(names[p].value))}

Swept(exact) ==
  {p \in DOMAIN names : /\ exact <=> names[p].label \in CaseSensitive
                        /\ ~TooShort(names[p].value, 1, Len(names[p].value))}

SweepExact ==
  /\ phase = "masked"
  /\ out' = Sweep(out, Swept(TRUE), TRUE)
  /\ phase' = "swept"
  /\ UNCHANGED <<bound, asked, chunks, known, spans, searched, names>>

SweepFolded ==
  /\ phase = "swept"
  /\ out' = Sweep(out, Swept(FALSE), FALSE)
  /\ phase' = "answered"
  /\ UNCHANGED <<bound, asked, chunks, known, spans, searched, names>>

\* rehydrate, by whoever holds the mapping.
Rehydrated(t, mapping) ==
  FlattenSeq([i \in DOMAIN t |-> IF t[i] \in DOMAIN mapping THEN mapping[t[i]].value ELSE <<t[i]>>])

Respond ==
  /\ phase \in {"answered", "refused"}
  /\ asked' = <<>> /\ phase' = "idle" /\ chunks' = <<>> /\ spans' = {} /\ searched' = {}
  /\ out' = <<>> /\ names' = <<>>
  /\ UNCHANGED <<bound, known>>
-----------------------------------------------------------------------------
Requests ==
  [kind : {"detect"}, text : Texts, least : Scores]
    \cup [kind : {"redact", "other_mode"}, text : Texts, least : {50}]

GateNext ==
  \/ \E host \in Hosts, token \in {Token, NoToken} : Start(host, token)
  \/ \E header \in Headers, request \in Requests : Refuse(header, request) \/ Receive(header, request)
  \/ ScanFloor \/ AskModel \/ Assemble \/ Substitute \/ SweepExact \/ SweepFolded \/ Respond

GateSpec == GateInit /\ [][GateNext]_gateVars
=============================================================================
