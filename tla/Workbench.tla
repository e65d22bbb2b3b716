----------------------------- MODULE Workbench -----------------------------
(***************************************************************************)
(* The document workbench (workbench/src/App.tsx, lib/deepScanState.ts): a *)
(* reviewer loads a document or a batch, runs detection on it, edits the   *)
(* spans and hands out the redacted text.  Deep scans and batch exports    *)
(* run while the reviewer goes on; what they captured when they began may  *)
(* be stale when they end.                                                 *)
(*                                                                         *)
(* Documents are plain text.  The saved spans of the active entry always   *)
(* equal the live ones: the effect that copies them is part of each action.*)
(***************************************************************************)
EXTENDS Redaction

CONSTANTS
  Text,     \* the words of each document
  Floor,    \* what Tier-0 detects in it
  Neural,   \* what the model adds
  Batches,  \* sequences of documents that are loaded together
  Boxes,    \* bound: the word ranges a reviewer marks by hand
  Works,    \* bound: how often a reviewer loads, edits, scans and exports
  NoDoc,
  NoRecord

Docs == DOMAIN Text
ASSUME BatchAssumption == Batches \subseteq Seq(Docs) \ {<<>>}
ASSUME BoxAssumption == Boxes \subseteq Nat \X Nat
\* A detector answers with finitely many ranges of the text it was given, none
\* of them empty.
ASSUME DetectionAssumption ==
  \A d \in Docs :
    /\ Text[d] \in Seq(DOMAIN Fold) /\ IsFiniteSet(Floor[d] \cup Neural[d])
    /\ Floor[d] \cup Neural[d] \subseteq
         [start : 0 .. Len(Text[d]), end : 0 .. Len(Text[d]), label : STRING, conf : Int, tier : Nat]
    /\ \A s \in Floor[d] \cup Neural[d] : s.start < s.end
Labels == {"person", "email", "manual"}

-----------------------------------------------------------------------------
(* The entity maps a browser remembers (lib/mapStore.ts): a record per     *)
(* redacted body, found again by the body's hash, which is modelled by the *)
(* body itself; a read and a write of the store are one step.              *)

\* putMap: the same body with another map gets a record of its own.
Put(store, r) ==
  LET taken == \E q \in store : q.id = r.id /\ q.map # r.map
      kept == IF taken THEN [r EXCEPT !.id = <<@[1], r.map>>] ELSE r
  IN {q \in store : q.id # kept.id} \cup {kept}

Record(first, prints, map) == [id |-> <<first>>, prints |-> prints, map |-> map]

Candidates(store, body) ==
  {r \in store : body \in r.prints /\ Rehydrates(body, r.map)}

\* [mutant] The first of several records.
FirstOf(candidates, body) ==
  IF candidates = {} THEN NoRecord ELSE CHOOSE r \in candidates : TRUE

\* unambiguousMatch: records that differ in a value of this body are refused.
Unambiguous(candidates, body) ==
  IF candidates # {} /\ \A q, r \in candidates, ph \in Placeholders(body) :
                           ValueIn(q.map, ph) = ValueIn(r.map, ph)
  THEN CHOOSE r \in candidates : TRUE ELSE NoRecord

\* matchByFingerprint: the map this body is restored from, if any.
Match(store, body) == Unambiguous(Candidates(store, body), body)
-----------------------------------------------------------------------------

VARIABLES
  doc, spans,     \* the active document and its spans
  batch, active,  \* the entries of a batch, and the active one's id
  muted,          \* mutedLabels
  deepStatus, batchStatus,
  gen,            \* deepGeneration
  busy,
  scans,          \* deep scans under way, with what they captured
  zips,           \* batch exports under way
  store,          \* the browser's map store
  sent,           \* history: what was handed out
  work            \* what is left of the bounds

review == <<doc, spans, batch, active, muted>>
status == <<deepStatus, batchStatus, gen, busy>>
wbVars == <<review, status, scans, zips, store, sent, work>>

InBatch == batch # <<>>
Does(k) == work[k] > 0 /\ work' = [work EXCEPT ![k] = @ - 1]
-----------------------------------------------------------------------------
(* Detection results *)

Tier0(d, hidden) == ToSpans(MergeSpans(Floor[d]), "auto", hidden, d)
DeepResult(d, hidden) == ToSpans(DeepSpans(Text[d], Floor[d], Neural[d]), "neural", hidden, d)

\* The active entry's copy follows the live spans.
Mirrored(entries, id, live) ==
  [i \in DOMAIN entries |-> IF entries[i].id = id THEN [entries[i] EXCEPT !.spans = live] ELSE entries[i]]
Show(live) == spans' = live /\ batch' = Mirrored(batch, active, live)

\* Every deep scan under way is now of an earlier generation.
NewGeneration == gen' = gen + 1 /\ busy' = FALSE
-----------------------------------------------------------------------------
(* Sessions *)

Open(d) ==
  /\ doc = NoDoc /\ Does("loads") /\ NewGeneration
  /\ doc' = d /\ spans' = Tier0(d, muted)
  /\ batch' = <<>> /\ active' = <<>>
  /\ deepStatus' = "none" /\ batchStatus' = "none"
  /\ UNCHANGED <<muted, scans, zips, store, sent>>

LoadBatch(ds) ==
  /\ doc = NoDoc /\ Does("loads") /\ NewGeneration
  /\ batch' = [i \in DOMAIN ds |-> [id |-> <<gen, i>>, doc |-> ds[i], spans |-> Tier0(ds[i], muted),
                                    deep |-> "none"]]
  /\ active' = <<gen, 1>> /\ doc' = ds[1] /\ spans' = Tier0(ds[1], muted)
  /\ deepStatus' = "none" /\ batchStatus' = "none"
  /\ UNCHANGED <<muted, scans, zips, store, sent>>

Select(i) ==
  /\ i \in DOMAIN batch /\ ~busy /\ batch[i].id # active
  /\ active' = batch[i].id /\ doc' = batch[i].doc /\ spans' = batch[i].spans
  /\ UNCHANGED <<batch, muted, status, scans, zips, store, sent, work>>

\* Reset stays enabled while a scan or an export is under way.
Reset ==
  /\ doc # NoDoc /\ NewGeneration
  /\ doc' = NoDoc /\ spans' = {} /\ batch' = <<>> /\ active' = <<>>
  /\ deepStatus' = "none" /\ batchStatus' = "none"
  /\ UNCHANGED <<muted, scans, zips, store, sent, work>>
-----------------------------------------------------------------------------
(* Edits, which stay enabled too *)

Edited(live) ==
  /\ doc # NoDoc /\ Does("edits") /\ Show(live)
  /\ UNCHANGED <<doc, active, status, scans, zips, store, sent>>

\* A selection that ends inside a masked span goes to the span's edge.
AddManual(b) ==
  /\ b[1] < b[2] /\ b[2] <= Len(Text[doc])
  /\ \A s \in spans : s.active /\ s.start < b[2] /\ b[1] < s.end => b[1] <= s.start /\ s.end <= b[2]
  /\ Edited(InsertSpan(spans, [start |-> b[1], end |-> b[2], label |-> "manual", source |-> "manual",
                             active |-> TRUE, of |-> doc]))
  /\ UNCHANGED muted

Toggle(s) == Edited((spans \ {s}) \cup {[s EXCEPT !.active = ~@]}) /\ UNCHANGED muted
Relabel(s, l) == l # s.label /\ Edited((spans \ {s}) \cup {[s EXCEPT !.label = l]}) /\ UNCHANGED muted
Delete(s) == Edited(spans \ {s}) /\ UNCHANGED muted

\* setLabel, and setTier for the labels of a tier that are present.
SetLabels(L, on) ==
  /\ L # {}
  /\ Edited({IF s.label \in L THEN [s EXCEPT !.active = on] ELSE s : s \in spans})
  /\ muted' = IF on THEN muted \ L ELSE muted \cup L

\* Every span of every file follows the filter.
ApplyLabelsToAll ==
  LET ruled(S) == {[s EXCEPT !.active = s.label \notin muted] : s \in S}
  IN /\ InBatch /\ ~busy /\ Does("edits")
     /\ batch' = [i \in DOMAIN batch |-> [batch[i] EXCEPT !.spans = ruled(@)]]
     /\ spans' = ruled(spans)
     /\ UNCHANGED <<doc, active, muted, status, scans, zips, store, sent>>

AutoDetect ==
  /\ doc # NoDoc /\ ~busy /\ Does("edits") /\ NewGeneration
  /\ Show(CombineWithManual(spans, Tier0(doc, muted)))
  /\ deepStatus' = "none"
  /\ UNCHANGED <<doc, active, muted, batchStatus, scans, zips, store, sent>>

ClearDetections ==
  /\ spans # {} /\ ~busy /\ Does("edits") /\ NewGeneration
  /\ Show({}) /\ deepStatus' = "none"
  /\ UNCHANGED <<doc, active, muted, batchStatus, scans, zips, store, sent>>
-----------------------------------------------------------------------------
(* Deep scans *)

\* [mutant] A scan that ends is always of this session.
AlwaysCurrent(t) == TRUE
StillCurrent(t) == t.gen = gen

Begin(t) ==
  /\ doc # NoDoc /\ ~busy /\ Does("scans")
  /\ gen' = gen + 1 /\ busy' = TRUE
  /\ scans' = scans \cup {t}
  /\ UNCHANGED <<review, deepStatus, batchStatus, zips, store, sent>>

\* A scan of the active document or of all files; the text, the filter and the
\* entries are those of the moment.
RunDeep == Begin([kind |-> "one", gen |-> gen + 1, aborted |-> FALSE, doc |-> doc, muted |-> muted,
                  entries |-> <<>>, active |-> active])
RunDeepAll == InBatch /\ Begin([kind |-> "all", gen |-> gen + 1, aborted |-> FALSE, doc |-> doc, muted |-> muted,
                                entries |-> batch, active |-> active])

\* The batch's cancel button aborts the scan; its handler then ends by itself.
CancelBatch(t) ==
  /\ t.kind = "all" /\ ~t.aborted /\ t.gen = gen
  /\ scans' = (scans \ {t}) \cup {[t EXCEPT !.aborted = TRUE]}
  /\ UNCHANGED <<review, status, zips, store, sent, work>>

Finishes(t) == scans' = scans \ {t} /\ UNCHANGED <<doc, active, muted, gen, zips, store, sent, work>>

\* The answer to a scan of an earlier generation is dropped.
DropResult(t) == ~StillCurrent(t) /\ Finishes(t) /\ UNCHANGED <<spans, batch, deepStatus, batchStatus, busy>>

DeepFinds(t) ==
  /\ t.kind = "one" /\ StillCurrent(t) /\ Finishes(t)
  /\ Show(CombineWithManual(spans, DeepResult(t.doc, t.muted)))
  /\ deepStatus' = "clean" /\ busy' = FALSE
  /\ UNCHANGED batchStatus

DeepFails(t) ==
  /\ t.kind = "one" /\ StillCurrent(t) /\ Finishes(t)
  /\ deepStatus' = "degraded" /\ busy' = FALSE
  /\ UNCHANGED <<spans, batch, batchStatus>>

\* deriveBatchDeepScanStatus
BatchResult(t, found, n) ==
  IF t.aborted \/ n < Len(t.entries) THEN "partial"
  ELSE IF found # 1 .. n THEN "degraded" ELSE "clean"

EntryScanned(t, i, found) ==
  [t.entries[i] EXCEPT !.spans = IF i \in found THEN CombineWithManual(@, DeepResult(t.entries[i].doc, t.muted)) ELSE @,
                       !.deep = IF i \in found THEN "done" ELSE "failed"]

\* The first n files were scanned, those in found with success.
DeepAllEnds(t) ==
  /\ t.kind = "all" /\ StillCurrent(t) /\ Finishes(t)
  /\ \E n \in IF t.aborted THEN 0 .. Len(t.entries) ELSE {Len(t.entries)} :
       \E found \in SUBSET (1 .. n) :
         LET results == [i \in 1 .. n |-> EntryScanned(t, i, found)]
             at(id) == {i \in 1 .. n : t.entries[i].id = id}
             merged == [j \in DOMAIN batch |->
                          IF at(batch[j].id) = {} THEN [batch[j] EXCEPT !.deep = "skipped"]
                          ELSE results[CHOOSE i \in at(batch[j].id) : TRUE]]
             live == IF at(t.active) = {} THEN spans ELSE results[CHOOSE i \in at(t.active) : TRUE].spans
         IN /\ spans' = live
            /\ batch' = Mirrored(merged, active, live)
            /\ batchStatus' = BatchResult(t, found, n)
  /\ busy' = FALSE /\ UNCHANGED deepStatus
-----------------------------------------------------------------------------
(* What is handed out *)

\* [mutant] A cancelled scan needs no confirmation.
OnlyDegraded(s) == s = "degraded"
RequiresConfirmation(s) == s \in {"degraded", "partial"}

\* confirmDegradedExport: asked of the reviewer only when a scan failed.
Confirms == RequiresConfirmation(deepStatus) \/ (InBatch /\ RequiresConfirmation(batchStatus))

Index ==
  IF InBatch THEN FoldLeft(LAMBDA idx, e : Numbered(idx, Text[e.doc], e.spans), <<>>, batch)
  ELSE Numbered(<<>>, Text[doc], spans)

Incomplete == \E i \in DOMAIN batch : batch[i].deep \in {"failed", "skipped"}

Handout(d, S, index) ==
  [doc |-> d, body |-> Redacted(Text[d], S, index), spans |-> {s \in S : s.active},
   map |-> EntityMap(index), confirmed |-> Confirms, incomplete |-> Incomplete]

\* persistMap and persistBatchMap: the map is remembered with every body that
\* has a placeholder, unless the reviewer opted out.
Remembers(bodies, map, opted) ==
  LET marked == SelectSeq(bodies, LAMBDA b : Placeholders(b) # {})
  IN store' = IF opted /\ marked # <<>> THEN Put(store, Record(marked[1], ToSet(marked), map)) ELSE store

\* Copy: nothing is checked or remembered.
CopyRedacted ==
  /\ ~busy /\ (\E s \in spans : s.active) /\ Does("exports")
  /\ sent' = sent \cup {Handout(doc, spans, Index)}
  /\ UNCHANGED <<review, status, scans, zips, store>>

\* Download: blocked when a known value can still be read.
DownloadRedacted ==
  /\ ~busy /\ (\E s \in spans : s.active) /\ Does("exports")
  /\ \E opted \in BOOLEAN :
       LET x == Handout(doc, spans, Index) IN
         IF Survives(x.body, x.map) THEN UNCHANGED <<sent, store>>
         ELSE sent' = sent \cup {x} /\ Remembers(<<x.body>>, x.map, opted)
  /\ UNCHANGED <<review, status, scans, zips>>

\* The map leaves, the text does not; both are remembered.
DownloadMap ==
  /\ ~busy /\ (\E s \in spans : s.active) /\ Does("exports")
  /\ \E opted \in BOOLEAN : Remembers(<<Redacted(Text[doc], spans, Index)>>, EntityMap(Index), opted)
  /\ UNCHANGED <<review, status, scans, zips, sent>>

\* A batch export resolves every entry when it begins.
ZipBegins ==
  /\ InBatch /\ ~busy /\ Does("exports")
  /\ busy' = TRUE
  /\ zips' = zips \cup {[here |-> TRUE, files |-> [i \in DOMAIN batch |->
                           Handout(batch[i].doc, batch[i].spans, Index)]]}
  /\ UNCHANGED <<review, deepStatus, batchStatus, gen, scans, store, sent>>

\* One file with a readable value blocks the zip.  The handler enables the
\* buttons again, whatever the page shows by now.
ZipEnds(z) ==
  LET out == z.files
  IN /\ zips' = zips \ {z} /\ busy' = (busy /\ ~z.here)
     /\ IF \E i \in DOMAIN out : Survives(out[i].body, out[i].map) THEN UNCHANGED <<sent, store>>
        ELSE \E opted \in BOOLEAN :
               /\ sent' = sent \cup ToSet(out)
               /\ Remembers([i \in DOMAIN out |-> out[i].body], out[1].map, opted)
     /\ UNCHANGED <<review, deepStatus, batchStatus, gen, scans, work>>

DownloadBatchMap ==
  /\ InBatch /\ ~busy /\ Does("exports")
  /\ \E opted \in BOOLEAN :
       Remembers([i \in DOMAIN batch |-> Redacted(Text[batch[i].doc], batch[i].spans, Index)], EntityMap(Index), opted)
  /\ UNCHANGED <<review, status, scans, zips, sent>>

\* The start page forgets every map of this device.
ForgetMaps ==
  /\ doc = NoDoc /\ store # {}
  /\ store' = {} /\ UNCHANGED <<review, status, scans, zips, sent, work>>
-----------------------------------------------------------------------------
\* The page is left for the other surface and its state is lost: answers to its
\* scans go nowhere, exports it began still end.
CloseWorkbench ==
  /\ doc' = NoDoc /\ spans' = {} /\ batch' = <<>> /\ active' = <<>> /\ muted' = {}
  /\ deepStatus' = "none" /\ batchStatus' = "none" /\ gen' = 0 /\ busy' = FALSE
  /\ scans' = {} /\ zips' = {[z EXCEPT !.here = FALSE] : z \in zips}
  /\ UNCHANGED <<store, sent>>

WbInit ==
  /\ doc = NoDoc /\ spans = {} /\ batch = <<>> /\ active = <<>> /\ muted = {}
  /\ deepStatus = "none" /\ batchStatus = "none" /\ gen = 0 /\ busy = FALSE
  /\ scans = {} /\ zips = {} /\ store = {} /\ sent = {}
  /\ work \in Works

WbNext ==
  \/ \E d \in Docs : Open(d)
  \/ \E ds \in Batches : LoadBatch(ds)
  \/ \E i \in DOMAIN batch : Select(i)
  \/ doc # NoDoc /\ \E b \in Boxes : AddManual(b)
  \/ \E s \in spans : Toggle(s) \/ Delete(s) \/ \E l \in Labels : Relabel(s, l)
  \/ \E L \in SUBSET {s.label : s \in spans}, on \in BOOLEAN : SetLabels(L, on)
  \/ ApplyLabelsToAll \/ AutoDetect \/ ClearDetections \/ Reset
  \/ RunDeep \/ RunDeepAll
  \/ \E t \in scans : CancelBatch(t) \/ DropResult(t) \/ DeepFinds(t) \/ DeepFails(t) \/ DeepAllEnds(t)
  \/ CopyRedacted \/ DownloadRedacted \/ DownloadMap
  \/ ForgetMaps \/ ZipBegins \/ DownloadBatchMap \/ \E z \in zips : ZipEnds(z)
-----------------------------------------------------------------------------
\* A deep scan's answer never reaches a later session: every span on screen or
\* in the batch was found in, or drawn on, a document that is loaded
\* (stillCurrent in runDeep and runDeepAll).
SessionsApart ==
  LET loaded == IF InBatch THEN {batch[i].doc : i \in DOMAIN batch} ELSE {doc}
  IN \A s \in spans \cup UNION {batch[i].spans : i \in DOMAIN batch} : s.of \in loaded

\* While a file of the batch was missed by the last scan of all files, nothing
\* is handed out unless the reviewer confirms it (confirmDegradedExport,
\* deriveBatchDeepScanStatus).
GateHolds == \A x \in sent : x.incomplete => x.confirmed

\* A value detected anywhere in the batch is not legible in anything that is
\* handed out, detected there or not (sweepKnownValues).
KnownValuesSwept ==
  \A x \in sent : \A e \in x.map : \A i \in DOMAIN x.body :
    Long(e.value) => KnownAt(x.body, i, {e}, e.ph[1] \in CaseSensitive) = {}

\* A body is restored to the text it was made of, up to case, or is refused, as
\* long as its own record is stored (putMap, matchByFingerprint, rehydrateFile).
RestoreRight ==
  \A x \in sent :
    LET r == Match(store, x.body) IN
      /\ \E q \in store : x.body \in q.prints /\ q.map = x.map
      /\ \A s, t \in x.spans : s # t => ~Overlaps(s, t)
      /\ r # NoRecord
      => Folded(Rehydrated(x.body, r.map)) = Folded(Text[x.doc])
=============================================================================
