---------------------------- MODULE RedactBody ----------------------------
(***************************************************************************)
(* redact_body of appliance/egress_proxy.py over the turns of one session: *)
(* the keyed backstop, the substitution of detected spans, the sweep of    *)
(* known values and the freeze of finished fields, while requests overlap  *)
(* and the mode, the allowlist and the denylist are edited.                *)
(*                                                                         *)
(* A text is a set of words and a value is a set of words of it.  What the *)
(* spans of one field become is the subject of FieldSpans and which        *)
(* placeholder a value gets that of EntityMap: here a field's spans are    *)
(* words, and a placeholder is a generation of the map and a value.        *)
(***************************************************************************)
EXTENDS Naturals, Sequences, FiniteSets

CONSTANTS
  Procs,          \* requests that may be in flight together
  Texts,          \* bound: [words, found], found being what the gate finds
  Label,          \* the label of a word's detection, "none" when there is none
  FloorWords,     \* words a tier 0 rule matches
  CodingPasses,   \* labels coding mode lets through
  Worlds,         \* bound: the sessions considered, see WorldAssumption
  MaxGen,         \* bound: generations of the map
  MaxEdits,       \* bound: edits of the configuration
  MaxRequests,    \* bound: requests
  None            \* no map, no request

\* A session's bodies are sequences of fields; modes are what the mode file may
\* say and lists what the two dictionaries may hold; edited says whether they
\* are edited while requests run, unsent whether a forward may fail.
ASSUME WorldAssumption ==
  \A w \in Worlds :
    /\ \A b \in w.bodies : b \in Seq([text : Texts, keyed : BOOLEAN])
    /\ w.edited \in BOOLEAN /\ w.unsent \in BOOLEAN
ASSUME TextAssumption == \A t \in Texts : IsFiniteSet(t.words) /\ t.found \subseteq t.words
ASSUME LabelAssumption ==
  \A t \in Texts : \A w \in t.words : w \in DOMAIN Label /\ Label[w] # "custom"

ASSUME FloorAssumption ==
  \A w \in FloorWords : w \in DOMAIN Label /\ Label[w] \in {"secret", "floor"}

VARIABLES
  world,   \* the session this is
  map,     \* the stored entity map, or None
  gens,    \* generations begun so far
  files,   \* the mode file, the allowlist and the denylist
  live,    \* the two lists as this process last read them
  edits,   \* edits so far
  freeze,  \* _FREEZE_CACHE
  req,     \* what each request in flight has read
  count,   \* requests begun so far
  sent     \* history: the fields that went upstream

vars == <<world, map, gens, files, live, edits, freeze, req, count, sent>>
config == <<files, live, edits>>
-----------------------------------------------------------------------------
Floor(label) == label \in {"secret", "floor"}

\* [mutant] The mode is looked at before the floor is.
OffMeansOff(mode, label) ==
  mode # "off" /\ (\/ Floor(label) \/ label = "custom"
                   \/ ~(mode = "coding" /\ label \in CodingPasses))

\* policy_allows_pii
Redacts(mode, label) ==
  \/ Floor(label) \/ label = "custom"
  \/ mode # "off" /\ ~(mode = "coding" /\ label \in CodingPasses)

\* What tier 0 and the model find.  A degraded scan has no model.
Detected(text, r) ==
  {w \in text.words : w \in FloorWords \/ (~r.degraded /\ w \in text.found)}

\* The spans of process_field: the detected, less the allowlisted, which no
\* floor label is, plus the denylisted.
Spans(text, r) ==
  {w \in text.words :
     w \in r.deny \/ (w \in Detected(text, r) /\ (Floor(Label[w]) \/ w \notin r.allow))}

\* The label a word has in a field, a floor label being sticky.
SpanLabel(w, text, r) ==
  IF w \in r.deny /\ ~(w \in Detected(text, r) /\ Floor(Label[w])) THEN "custom" ELSE Label[w]

\* Those substitute() replaces.
Replaced(text, r) ==
  {w \in Spans(text, r) : Redacts(files.mode, SpanLabel(w, text, r))}
-----------------------------------------------------------------------------
(* Pass 2: the keyed backstop and the substitution *)

\* The map redact_body loads, new when there is none or it has expired.
Loads ==
  (IF map = None THEN {} ELSE {map})
    \cup (IF gens < MaxGen THEN {[gen |-> gens + 1, label |-> <<>>]} ELSE {})

\* placeholder_for: a known value keeps its label.
Learn(known, new) ==
  [v \in DOMAIN known \cup DOMAIN new |->
     IF v \in DOMAIN known THEN known[v] ELSE new[v]]

Fields(r) == {r.body[i] : i \in DOMAIN r.body}

Keyed(r) == {f.text.words : f \in {g \in Fields(r) : g.keyed}}

\* A word has the label it has in the first field that replaces it.
FirstLabel(w, r) ==
  LET holds == {i \in DOMAIN r.body : w \in Replaced(r.body[i].text, r)}
      first == CHOOSE i \in holds : \A j \in holds : i <= j
  IN SpanLabel(w, r.body[first].text, r)

Learned(m, r) ==
  LET secrets == Learn(m.label, [v \in Keyed(r) |-> "secret"])
      words   == UNION {Replaced(f.text, r) : f \in Fields(r)}
  IN Learn(secrets, [v \in {{w} : w \in words} |-> FirstLabel(CHOOSE w \in v : TRUE, r)])

Mask(out, gen, values) ==
  [clear |-> out.clear \ UNION values,
   tokens |-> out.tokens \cup {<<gen, v>> : v \in values}]

Plain(text) == [clear |-> text.words, tokens |-> {}]

\* A field with a span to replace is written anew from its original text.
Substituted(f, gen, r) ==
  IF Replaced(f.text, r) # {}
  THEN Mask(Plain(f.text), gen, {{w} : w \in Replaced(f.text, r)})
  ELSE Mask(Plain(f.text), gen, IF f.keyed THEN {f.text.words} ELSE {})
-----------------------------------------------------------------------------
(* Pass 3: the sweep and the freeze *)

\* [mutant] The sweep ignores the policy.
KeptAlways(known, r) == DOMAIN known

\* The values _sweep_keeps lets the sweep replace.
Kept(known, r) ==
  {v \in DOMAIN known :
     /\ Redacts(files.mode, known[v])
     /\ Floor(known[v]) \/ v \notin {{w} : w \in r.allow}}

\* [mutant] What the detector misses stays.
Unswept(out, gen, values) == out

\* sweep_known, the longest value first.
Swept(out, gen, values) ==
  LET there == {v \in values : v # {} /\ v \subseteq out.clear}
  IN Mask(out, gen,
          {v \in there : \A u \in there : v \subseteq u => v = u})

Fingerprint == <<files.mode, live.allow.version, live.deny.version>>

\* [mutant] The generation of the map is no part of the key.
KeyOfSession(gen, text) == [gen |-> 0, cfg |-> Fingerprint, text |-> text]

\* [mutant] The configuration is no part of the key.
KeyOfMap(gen, text) == [gen |-> gen, cfg |-> <<>>, text |-> text]

\* _freeze_key, of which the session and the project are fixed here.
FreezeKey(gen, text) == [gen |-> gen, cfg |-> Fingerprint, text |-> text]

\* [mutant] A degraded request is memoized like any other.
FreezesAll(r) == TRUE

\* [mutant] Every field is swept anew.
FreezesNone(r) == FALSE

\* A partial redaction is neither kept nor replaced by a kept one.
CanFreeze(r) == ~r.degraded

Frozen(key) == {e.out : e \in {d \in freeze : d.key = key}}

\* What the request makes of field i, when the map is of generation gen: the
\* frozen text, which may be that of an earlier field of the same request.
Final(r, gen, known, i) ==
  LET Fresh(j) == Swept(Substituted(r.body[j], gen, r), gen, Kept(known, r))
      text  == r.body[i].text
      first == CHOOSE j \in DOMAIN r.body :
                 /\ r.body[j].text = text
                 /\ \A k \in DOMAIN r.body : r.body[k].text = text => j <= k
      old   == Frozen(FreezeKey(gen, text))
  IN IF ~CanFreeze(r) THEN Fresh(i)
     ELSE IF old # {} THEN CHOOSE out \in old : TRUE
     ELSE Fresh(first)
-----------------------------------------------------------------------------
\* The request is extracted and both lists are read, before the first await.
Start(p, body) ==
  /\ req[p] = None /\ count < MaxRequests
  /\ live' = [allow |-> files.allow, deny |-> files.deny]
  /\ req' = [req EXCEPT ![p] =
               [body |-> body, allow |-> files.allow.words, deny |-> files.deny.words,
                began |-> edits, degraded |-> FALSE]]
  /\ count' = count + 1
  /\ UNCHANGED <<world, map, gens, files, edits, freeze, sent>>

\* The gate cannot be reached for one of its fields.
Degrade(p) ==
  /\ req[p] # None /\ ~req[p].degraded
  /\ req' = [req EXCEPT ![p].degraded = TRUE]
  /\ UNCHANGED <<world, map, gens, config, freeze, count, sent>>

\* Detection is over: passes 2 and 3 and the save, under the map's lock and
\* without an await, then the forward.  A degraded request is not forwarded.
\* A map that holds nothing is not saved.
Finish(p) ==
  LET r == req[p] IN
  /\ r # None
  /\ \E m \in Loads, forwarded \in {TRUE, ~world.unsent} :
       LET known == Learned(m, r)
           outs  == [i \in DOMAIN r.body |-> Final(r, m.gen, known, i)]
       IN /\ gens' = IF m.gen > gens THEN m.gen ELSE gens
          /\ map' = IF DOMAIN known = {} THEN map ELSE [gen |-> m.gen, label |-> known]
          /\ freeze' =
               IF CanFreeze(r)
               THEN freeze \cup {[key |-> FreezeKey(m.gen, r.body[i].text), out |-> outs[i]] :
                                   i \in DOMAIN outs}
               ELSE freeze
          /\ sent' =
               IF r.degraded \/ ~forwarded THEN sent
               ELSE sent \cup
                 {[gen |-> m.gen, cfg |-> Fingerprint, field |-> r.body[i], out |-> outs[i],
                   files |-> files, steady |-> r.began = edits,
                   known |-> known, swept |-> Kept(known, r)] : i \in DOMAIN outs}
  /\ req' = [req EXCEPT ![p] = None]
  /\ UNCHANGED <<world, config, count>>

\* Handed over by the control API, which reads the list back at once, or by an
\* editor.
Edit(f, read) ==
  /\ edits < MaxEdits
  /\ world.edited \/ \A p \in Procs : req[p] = None
  /\ files' = f /\ edits' = edits + 1
  /\ live' \in {live, read}
  /\ UNCHANGED <<world, map, gens, freeze, req, count, sent>>

SetMode == \E m \in world.modes : Edit([files EXCEPT !.mode = m], live)

SetAllow ==
  \E l \in world.lists :
    LET list == [version |-> edits + 1, words |-> l]
    IN Edit([files EXCEPT !.allow = list], [live EXCEPT !.allow = list])

SetDeny ==
  \E l \in world.lists :
    LET list == [version |-> edits + 1, words |-> l]
    IN Edit([files EXCEPT !.deny = list], [live EXCEPT !.deny = list])

\* The console asks for one of the lists.
ShowList ==
  /\ live' \in {[live EXCEPT !.allow = files.allow], [live EXCEPT !.deny = files.deny]}
  /\ UNCHANGED <<world, map, gens, files, edits, freeze, req, count, sent>>

Empty == [version |-> 0, words |-> {}]

Init ==
  /\ world \in Worlds
  /\ map = None /\ gens = 0 /\ edits = 0 /\ count = 0
  /\ files = [mode |-> "privacy", allow |-> Empty, deny |-> Empty]
  /\ live = [allow |-> Empty, deny |-> Empty]
  /\ freeze = {} /\ sent = {}
  /\ req = [p \in Procs |-> None]

Next ==
  \/ \E p \in Procs : (\E b \in world.bodies : Start(p, b)) \/ Degrade(p) \/ Finish(p)
  \/ SetMode \/ SetAllow \/ SetDeny \/ ShowList

Spec == Init /\ [][Next]_vars
-----------------------------------------------------------------------------
(* What the requests of a session must guarantee *)

\* "the redacted prefix bytes must be IDENTICAL turn-over-turn": while the map
\* and the configuration stay the same, a text that is sent again is sent as
\* the same bytes, whatever the session has learned in between.
BytesStable ==
  \A a, b \in sent :
    a.gen = b.gen /\ a.cfg = b.cfg /\ a.field.text = b.field.text => a.out = b.out

\* Every placeholder of a request stands, in the map its response is rehydrated
\* with, for a value of the text it was put into.
Rehydratable ==
  \A s \in sent : \A t \in s.out.tokens :
    t[1] = s.gen /\ t[2] \in DOMAIN s.known /\ t[2] \subseteq s.field.text.words

\* "no mode can ever leak a credential": a word tier 0 matches never goes
\* upstream, whatever is edited, forgotten or replayed.
FloorMasked == \A s \in sent : s.out.clear \cap FloorWords = {}

\* "so it is re-swept under the NEW policy instead of replaying stale bytes":
\* a request during which nothing is edited masks what the configuration then
\* says must be, be it in a new field or in a replayed one.
Masked(s) ==
  \A w \in s.field.text.words :
    \/ w \notin s.out.clear
    \/ /\ w \notin s.files.deny.words
       /\ \/ w \notin s.field.text.found
          \/ w \in s.files.allow.words /\ ~Floor(Label[w])
          \/ ~Redacts(s.files.mode, Label[w])
ReplaysMasked == \A s \in sent : s.steady => Masked(s)

\* "so a mode toggle / allowlist edit takes effect on values ALREADY in the
\* session map": it lets through what the configuration lets through, unless the
\* session knows the word as a secret or an always-redact term, or the text is
\* the value of a sensitive key.
SecretTexts ==
  {f.text : f \in {g \in UNION {{b[i] : i \in DOMAIN b} : b \in world.bodies} : g.keyed}}

Passed(s) ==
  \A w \in s.field.text.words :
    \/ w \in s.out.clear
    \/ w \in s.files.deny.words \/ Floor(Label[w])
    \/ w \notin s.files.allow.words /\ Redacts(s.files.mode, Label[w])
    \/ \E v \in DOMAIN s.known : w \in v /\ s.known[v] \in {"secret", "custom"}
    \/ s.field.text \in SecretTexts

\* In a session that is never edited while any of its requests runs, what goes
\* upstream, fresh or replayed, is masked and passed as the configuration says.
AsConfigured ==
  ~world.edited => ReplaysMasked /\ \A s \in sent : Passed(s)

\* "already-sent content gains nothing from a re-sweep (it already went upstream
\* when it was the live tail)": a value the sweep knows goes upstream in clear
\* only in a text that went upstream with it before, in a session whose forwards
\* arrive, whatever is edited meanwhile.
NoNewExposure ==
  [][~world.unsent => \A s \in sent' \ sent : \A v \in s.swept :
       v # {} /\ v \subseteq s.out.clear =>
         \E o \in sent : o.field.text = s.field.text /\ v \subseteq o.out.clear]_vars
=============================================================================
