---------------------------- MODULE FieldSpans ----------------------------
(***************************************************************************)
(* From what the detectors say about one text field to what is masked in   *)
(* it: process_field of appliance/egress_proxy.py, merge_spans and         *)
(* post_merge_address of appliance/privacy_gate.py, and redact_text of     *)
(* appliance/redact_core.py, one iteration of each loop per step.          *)
(*                                                                         *)
(* A text is its length and, as intervals <<start, end>>, what the regular *)
(* expressions the code applies to it would match.  What the detectors say *)
(* of it is any set of spans of the text's kinds: label, tier, confidence. *)
(* A confidence is a rank.  Path policy "username" and                     *)
(* GATEWAY_REDACT_DATES=0, the defaults.                                   *)
(***************************************************************************)
EXTENDS Integers, FiniteSets

CONSTANTS
  Labels,         \* span labels
  Sticky,         \* FLOOR_LABELS, the deterministic hard floor
  IdentityFloor,  \* _MODEL_IDENTITY_FLOOR
  CredFloor,      \* _MODEL_CRED_FLOOR
  UuidRelabel,    \* _UUID_RELABEL
  CodingPasses,   \* labels of the categories coding mode excludes
  Certain,        \* the rank of confidence 1.0
  Texts,          \* bound: the texts considered
  Configs,        \* bound: the policies and dictionaries considered
  MaxSpans,       \* bound: spans detected in one text
  None            \* no span

Deny == "custom"
Soft == {"address", "postal_code", "file_path", "uuid", "sensitive_ref",
         "email", "sensitive_date", Deny}

ASSUME LabelAssumption == Soft \subseteq Labels /\ Sticky \subseteq Labels \ Soft
ASSUME ConfAssumption ==
  /\ Certain \in Nat
  /\ \A t \in Texts : t.kinds \subseteq [label : Labels, tier : {0, 2}, conf : 0 .. Certain]

Interval(n) == {i \in (0 .. n) \X (0 .. n) : i[1] < i[2]}

\* A text holds at most one path with a home directory.
ASSUME TextAssumption ==
  \A t \in Texts :
    /\ t.length \in Nat
    /\ \A u, v \in t.users : u = v
    /\ \A i \in t.words \cup t.hashes \cup t.uuids \cup t.tokens \cup t.paths
               \cup {u.name : u \in t.users} :
         i \in Interval(t.length)
ASSUME ConfigAssumption ==
  \A c \in Configs : \A t \in Texts : c.deny \subseteq Interval(t.length)

Spans == [start : Nat, end : Nat, label : Labels, conf : 0 .. Certain]
RawSpans == [start : Nat, end : Nat, label : Labels, tier : {0, 2}, conf : 0 .. Certain]
Clusters ==
  [start : Nat, end : Nat, label : Labels, conf : 0 .. Certain,
   bestConf : 0 .. Certain, bestLen : Int, floor : Spans \cup {None}]

ASSUME NoneAssumption == None \notin Spans \cup RawSpans \cup Clusters

VARIABLES
  stage,   \* where process_field and redact_text are
  text,    \* the field
  config,  \* the policy, allowlist and denylist of the request
  raw,     \* what the detectors said
  found,   \* the same, as merge_spans is given it
  todo,    \* spans the current loop has not come to
  cur,     \* the last cluster or span it is building, or None
  out,     \* those it has finished
  masked,  \* spans replaced by a placeholder
  last     \* where the last of them ended

vars == <<stage, text, config, raw, found, todo, cur, out, masked, last>>
-----------------------------------------------------------------------------
At(s) == <<s.start, s.end>>
Inside(i, j) == j[1] <= i[1] /\ i[2] <= j[2]
Meets(i, j) == i[1] < j[2] /\ j[1] < i[2]

\* What resolve_pii_policy and policy_allows_pii make of the configuration.
Excluded ==
  config.exclude \cup {"sensitive_date"}
    \cup (IF config.mode = "coding" THEN CodingPasses ELSE {})

Redacts(label) ==
  \/ label \in Sticky \cup {Deny}
  \/ /\ config.mode # "off" /\ config.enabled
     /\ label \in config.only \ Excluded
-----------------------------------------------------------------------------
(* What becomes of a detected span before the merge *)

Relabelled(s, label) == [s EXCEPT !.label = label]
Moved(s, start, end) == [s EXCEPT !.start = start, !.end = end]

\* What a model's credential may become: it keeps its floor, is only a reference,
\* or is code.  Which of them its characters show is left open.
ModelCredentialVerdicts(s) == {s, Relabelled(s, "sensitive_ref"), None}

\* demote_model_floor: what s may become, None when it is dropped.
Demoted(s) ==
  IF s.label \in UuidRelabel /\ At(s) \in text.uuids THEN {Relabelled(s, "uuid")}
  ELSE IF s.tier = 0 THEN {s}
  ELSE IF s.label \in IdentityFloor THEN {Relabelled(s, "sensitive_ref")}
  ELSE IF s.label \in CredFloor THEN ModelCredentialVerdicts(s)
  ELSE IF s.label = "email" THEN {s, None}
  ELSE {s}

PathLike(s) ==
  \/ s.label = "file_path"
  \/ s.label \in {"sensitive_ref", "uuid"} /\ At(s) \in text.paths

\* _narrow_path_spans: a path keeps only the name of a home directory in it.
Narrowed(s) ==
  LET Homes == {u \in text.users : s.start <= u.root /\ u.name[2] <= s.end}
      home  == CHOOSE u \in Homes : TRUE
  IN IF ~PathLike(s) THEN s
     ELSE IF Homes = {} \/ home.name \in text.tokens THEN None
     ELSE Relabelled(Moved(s, home.name[1], home.name[2]), "file_path")

\* expand_word_spans: a model's span grows over the words at its two ends.
Expanded(s) ==
  LET Left  == {w \in text.words : w[1] < s.start /\ s.start <= w[2]}
      Right == {w \in text.words : w[1] <= s.end /\ s.end < w[2]}
  IN IF s.tier = 0 THEN s
     ELSE Moved(s, IF Left = {} THEN s.start ELSE (CHOOSE w \in Left : TRUE)[1],
                   IF Right = {} THEN s.end ELSE (CHOOSE w \in Right : TRUE)[2])

Span(start, end, label, conf) ==
  [start |-> start, end |-> end, label |-> label, conf |-> conf]
-----------------------------------------------------------------------------
(* The loop bodies *)

NewCluster(s) ==
  [start |-> s.start, end |-> s.end, label |-> s.label, conf |-> s.conf,
   bestConf |-> s.conf, bestLen |-> s.end - s.start,
   floor |-> IF s.label \in Sticky THEN s ELSE None]

Higher(a, b) == IF a >= b THEN a ELSE b

Outranks(s, c) ==
  \/ s.conf > c.bestConf
  \/ s.conf = c.bestConf /\ s.end - s.start > c.bestLen

\* [mutant] The loser of an overlap is dropped.
WinnerOnly(c, s) == IF Outranks(s, c) THEN NewCluster(s) ELSE c

\* [mutant] The cluster ends where its last span does.
EndsWithLast(c, s) ==
  [c EXCEPT
     !.end = s.end,
     !.conf = Higher(@, s.conf),
     !.label = IF Outranks(s, c) THEN s.label ELSE @,
     !.floor = IF s.label \in Sticky /\ (@ = None \/ s.conf > c.floor.conf) THEN s ELSE @]

\* A span that overlaps the cluster.
Absorbed(c, s) ==
  [c EXCEPT
     !.end = Higher(@, s.end),
     !.conf = Higher(@, s.conf),
     !.label = IF Outranks(s, c) THEN s.label ELSE @,
     !.bestConf = IF Outranks(s, c) THEN s.conf ELSE @,
     !.bestLen = IF Outranks(s, c) THEN s.end - s.start ELSE @,
     !.floor = IF s.label \in Sticky /\ (@ = None \/ s.conf > c.floor.conf) THEN s ELSE @]

\* [mutant] The cluster has the label of its best member, floor or not.
AsElected(c) == Span(c.start, c.end, c.label, c.conf)

\* A floor member out-scored by a soft one still names the cluster.
Finished(c) ==
  Span(c.start, c.end,
       IF c.floor # None /\ c.label \notin Sticky THEN c.floor.label ELSE c.label,
       c.conf)

\* [mutant] Anything that follows an address closely is stitched to it.
StitchesAny(a, s) ==
  a.label = "address" /\ (a.end = s.start \/ <<a.end, s.start>> \in text.gaps)

Stitches(a, s) ==
  /\ a.label = "address" /\ s.label \in {"address", "postal_code"}
  /\ a.end = s.start \/ <<a.end, s.start>> \in text.gaps

Lower(a, b) == IF a <= b THEN a ELSE b

Joined(a, s) == [a EXCEPT !.end = s.end, !.conf = Lower(@, s.conf)]

\* "A span whose text already contains a token is ALREADY redacted", or is
\* part of one.
HasToken(s) == \E i \in text.tokens : Inside(i, At(s)) \/ Inside(At(s), i)

\* sorted(key = (start, -length))
First(s) ==
  \A t \in todo : s.start < t.start \/ (s.start = t.start /\ s.end >= t.end)
-----------------------------------------------------------------------------
Detections ==
  {[start |-> i[1], end |-> i[2], label |-> k.label, tier |-> k.tier, conf |-> k.conf] :
     i \in Interval(text.length), k \in text.kinds}

\* Tier 0, the secrets scan or the model, each of the whole text.
Detect ==
  /\ stage = "detect" /\ Cardinality(raw) < MaxSpans
  /\ \E s \in Detections : raw' = raw \cup {s}
  /\ UNCHANGED <<stage, text, config, found, todo, cur, out, masked, last>>

Detected ==
  /\ stage = "detect"
  /\ stage' = "prepare"
  /\ todo' = raw
  /\ UNCHANGED <<text, config, raw, found, cur, out, masked, last>>

Prepare(s) ==
  /\ stage = "prepare"
  /\ \E d \in Demoted(s) :
       LET n == IF d = None THEN None ELSE Narrowed(d)
           e == Expanded(n)
       IN found' = IF n = None THEN found
                   ELSE found \cup {Span(e.start, e.end, e.label, e.conf)}
  /\ todo' = todo \ {s}
  /\ UNCHANGED <<stage, text, config, raw, cur, out, masked, last>>

StartMerge ==
  /\ stage = "prepare" /\ todo = {}
  /\ stage' = "merge"
  /\ todo' = found
  /\ UNCHANGED <<text, config, raw, found, cur, out, masked, last>>

\* The last loop of merge_spans, which finishes the clusters, is done as each
\* one is left.
Merge(s) ==
  /\ stage \in {"merge", "remerge"} /\ First(s)
  /\ IF cur # None /\ s.start < cur.end
     THEN cur' = Absorbed(cur, s) /\ out' = out
     ELSE cur' = NewCluster(s) /\ out' = IF cur = None THEN out ELSE out \cup {Finished(cur)}
  /\ todo' = todo \ {s}
  /\ UNCHANGED <<stage, text, config, raw, found, masked, last>>

\* [mutant] The cluster the first merge ended with is still there.
MergeDoneUncleared ==
  /\ stage \in {"merge", "remerge"} /\ todo = {}
  /\ stage' = IF stage = "merge" THEN "stitch" ELSE "restitch"
  /\ todo' = IF cur = None THEN out ELSE out \cup {Finished(cur)}
  /\ out' = {}
  /\ UNCHANGED <<text, config, raw, found, cur, masked, last>>

MergeDone ==
  /\ stage \in {"merge", "remerge"} /\ todo = {}
  /\ stage' = IF stage = "merge" THEN "stitch" ELSE "restitch"
  /\ todo' = IF cur = None THEN out ELSE out \cup {Finished(cur)}
  /\ cur' = None /\ out' = {}
  /\ UNCHANGED <<text, config, raw, found, masked, last>>

Stitch(s) ==
  /\ stage \in {"stitch", "restitch"} /\ First(s)
  /\ IF cur # None /\ Stitches(cur, s)
     THEN cur' = Joined(cur, s) /\ out' = out
     ELSE cur' = s /\ out' = IF cur = None THEN out ELSE out \cup {cur}
  /\ todo' = todo \ {s}
  /\ UNCHANGED <<stage, text, config, raw, found, masked, last>>

Stitched == IF cur = None THEN out ELSE out \cup {cur}

\* [mutant] A span that contains an allowlisted text is dropped.
KeptUnlessContains ==
  {s \in Stitched : /\ At(s) \notin text.hashes
                    /\ \/ s.label \in Sticky
                       \/ \A i \in config.allow : ~Inside(i, At(s))}

\* The filters of process_field between the two merges.
Kept ==
  {s \in Stitched : /\ At(s) \notin text.hashes
                    /\ s.label \in Sticky \/ At(s) \notin config.allow}

Denied == {Span(i[1], i[2], Deny, Certain) : i \in config.deny}

\* With no always-redact term there is no second merge.
Filter ==
  /\ stage = "stitch" /\ todo = {}
  /\ stage' = IF Denied = {} THEN "redact" ELSE "remerge"
  /\ todo' = Kept \cup Denied
  /\ cur' = None /\ out' = {}
  /\ UNCHANGED <<text, config, raw, found, masked, last>>

RestitchDone ==
  /\ stage = "restitch" /\ todo = {}
  /\ stage' = "redact"
  /\ todo' = Stitched
  /\ cur' = None /\ out' = {}
  /\ UNCHANGED <<text, config, raw, found, masked, last>>

Redact(s) ==
  /\ stage = "redact" /\ First(s)
  /\ IF s.start >= last /\ Redacts(s.label) /\ ~HasToken(s)
     THEN masked' = masked \cup {s} /\ last' = s.end
     ELSE UNCHANGED <<masked, last>>
  /\ todo' = todo \ {s}
  /\ UNCHANGED <<stage, text, config, raw, found, cur, out>>

RedactDone ==
  /\ stage = "redact" /\ todo = {}
  /\ stage' = "done"
  /\ UNCHANGED <<text, config, raw, found, todo, cur, out, masked, last>>

Init ==
  /\ stage = "detect"
  /\ text \in Texts /\ config \in Configs
  /\ raw = {} /\ found = {} /\ todo = {} /\ out = {} /\ masked = {}
  /\ cur = None /\ last = 0

Next ==
  \/ Detect \/ Detected \/ StartMerge \/ MergeDone \/ Filter \/ RestitchDone \/ RedactDone
  \/ \E s \in todo : Prepare(s) \/ Merge(s) \/ Stitch(s) \/ Redact(s)

Spec == Init /\ [][Next]_vars
-----------------------------------------------------------------------------
(* What the pipeline must guarantee *)

\* The type invariant.
TypeOK ==
  /\ stage \in {"detect", "prepare", "merge", "stitch", "remerge", "restitch",
                "redact", "done"}
  /\ text \in Texts /\ config \in Configs
  /\ raw \subseteq RawSpans /\ last \in Nat
  /\ found \cup out \cup masked \subseteq Spans
  /\ todo \subseteq (IF stage = "prepare" THEN RawSpans ELSE Spans)
  /\ cur \in (IF stage \in {"merge", "remerge"} THEN Clusters ELSE Spans) \cup {None}

Covers(S, i) == \E s \in S : Inside(i, At(s))

\* "any cluster of overlapping spans is redacted as ONE span covering their
\* union": what merge_spans returns, against a definition without an order.  A
\* component runs from the start of a span to the end of one, no span leaves
\* it, and each position between its ends is strictly inside a span.
Components(S) ==
  {i \in {s.start : s \in S} \X {s.end : s \in S} :
     /\ i[1] < i[2]
     /\ \A s \in S : Meets(At(s), i) => Inside(At(s), i)
     /\ \A p \in i[1] + 1 .. i[2] - 1 : \E s \in S : s.start < p /\ p < s.end}

MergedExactly ==
  stage = "stitch" /\ out = {} /\ cur = None => {At(s) : s \in todo} = Components(found)

\* A deterministic floor hit: tier 0, and not a UUID the older gate mislabels.
FloorHits ==
  {s \in raw : /\ s.tier = 0 /\ s.label \in Sticky
               /\ ~(s.label \in UuidRelabel /\ At(s) \in text.uuids)}

\* "no mode can ever leak a credential or money/government id": whatever soft
\* spans overlap it and whatever the mode, the policy, the allowlist and the
\* denylist say, a floor hit is masked, and under a floor label, which keeps it
\* out of executed tool arguments.  A commit hash is let through on purpose, and
\* so is every span with something in it that looks like a placeholder.
FloorKept ==
  stage = "done" /\ text.tokens = {} =>
    \A s \in FloorHits :
      \/ Covers({m \in masked : m.label \in Sticky}, At(s))
      \/ \E h \in text.hashes : Inside(At(s), h)

\* "floor privileges now REQUIRE deterministic provenance": a model's claim to
\* have seen an account or an identity number never gets a floor label.
FloorEarned ==
  \A m \in masked : m.label \in Sticky =>
    \E s \in raw : /\ s.label \in Sticky /\ (s.tier = 0 \/ s.label \notin IdentityFloor)
                   /\ Meets(At(s), At(m))

\* "A privacy gate must never leave a PII fragment exposed between two
\* overlapping detections": where the policy redacts every label that was
\* found, every detection and always-redact term is masked in full, except
\* what the user declared safe.
NothingExposed ==
  stage = "done" /\ text.tokens = {} /\ (\A s \in found : Redacts(s.label)) =>
    /\ \A s \in found :
         Covers(masked, At(s)) \/ \E i \in text.hashes \cup config.allow : Inside(At(s), i)
    /\ \A i \in config.deny : Covers(masked, i)
=============================================================================
