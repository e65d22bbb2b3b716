-------------------------- MODULE DetectorClient --------------------------
(***************************************************************************)
(* How appliance/egress_proxy.py has the fields of its requests scanned:   *)
(* one task a field, under a semaphore that all requests share, in chunks, *)
(* against the primary gate or after it the fallback, with a cache of      *)
(* whole scans, and a second scan in a carrier sentence for a bare name.   *)
(*                                                                         *)
(* What a gate finds is data.  A scan is known by the text, the score, the *)
(* one gate that answered for it and the windows of the text it was given. *)
(***************************************************************************)
EXTENDS Integers, FiniteSets, OrderedDict

CONSTANTS
  Requests,           \* redaction requests
  Places,             \* bound: the fields of a body
  Texts,              \* the texts of fields, and those of their carriers
  Length, Spaces,     \* of a text: its length, where its spaces are
  Carriers,           \* the carrier of each text that is shaped like a name
  Persons,            \* <<gate, text>>: the gate finds a person in the text
  ChunkSize, Overlap, \* of _chunks
  CacheMax,           \* _CACHE_MAX
  DetectConcurrency,  \* GATEWAY_DETECT_CONCURRENCY
  ConsoleTexts,       \* bound: the texts the console has scanned
  HasFallback,        \* GATEWAY_GATE_FALLBACK_URL is another gate
  Scores,             \* min_score: the redactor's and the console's
  None

Tasks == Requests \X Places
Gates == {"primary", "fallback"}
RedactScore == CHOOSE s \in Scores : \A u \in Scores : s <= u

ASSUME DetectorAssumption ==
  /\ ChunkSize \in Nat /\ Overlap \in Nat /\ ChunkSize > 2 * Overlap
  /\ CacheMax \in Nat \ {0} /\ DetectConcurrency \in Nat \ {0}
  /\ Length \in [Texts -> Nat] /\ Spaces \in [Texts -> SUBSET Nat]
  /\ HasFallback \in BOOLEAN
  /\ DOMAIN Carriers \subseteq Texts /\ \A text \in DOMAIN Carriers : Carriers[text] \in Texts
  /\ ConsoleTexts \subseteq Texts

Windows == Gates \X Nat \X Nat
Keys == Texts \X (Scores \cup {RedactScore})
ScanRecords == [key : Keys, gate : Gates, windows : SUBSET Windows]

ASSUME NoneAssumption == None \notin Texts /\ None \notin ScanRecords

VARIABLES
  task,    \* what each process_field does
  free,    \* _DETECT_SEMAPHORE
  queue,   \* the tasks that wait for it, in order
  cache,   \* _DETECT_CACHE
  console  \* the one /gate/detect call of the console

detector == <<task, free, queue, cache, console>>
-----------------------------------------------------------------------------
\* The end of the window of _chunks that begins at i: a space near its end.
ChunkEnd(text, i) ==
  LET end == IF i + ChunkSize < Length[text] THEN i + ChunkSize ELSE Length[text]
      cuts == {j \in Spaces[text] : i + ChunkSize - Overlap <= j /\ j < end}
  IN  IF end < Length[text] /\ cuts # {} THEN CHOOSE j \in cuts : \A k \in cuts : k <= j ELSE end

\* [mutant] The next window begins where the last one ended.
NoOverlap(text, i) == ChunkEnd(text, i)

\* Where the next one begins: it repeats the last Overlap characters.
NextChunk(text, i) ==
  IF ChunkEnd(text, i) - Overlap > i + 1 THEN ChunkEnd(text, i) - Overlap ELSE i + 1

Idle == [stage |-> "none", text |-> None, carrier |-> FALSE, score |-> RedactScore,
         gate |-> "primary", at |-> 0, windows |-> {}, scans |-> {}, degraded |-> FALSE]
Wanted(text) == [Idle EXCEPT !.stage = "wanted", !.text = text]

\* The text a task has scanned now, and its key in the cache.
Target(t) == IF t.carrier THEN Carriers[t.text] ELSE t.text
CacheKey(t) == <<Target(t), t.score>>

Scan(t, windows) == [key |-> CacheKey(t), gate |-> t.gate, windows |-> windows]
SeesPerson(scan) == <<scan.gate, scan.key[1]>> \in Persons

NameShaped(text) == text \in DOMAIN Carriers

\* detect_text returns: a degraded field, or one more scan of it, after which
\* a bare name without a person is scanned again in its carrier.
Answered(t, scan) ==
  LET again == scan # None /\ ~t.carrier /\ NameShaped(t.text) /\ ~SeesPerson(scan)
  IN  [Idle EXCEPT !.text = t.text, !.carrier = again,
                   !.stage = IF again THEN "wanted" ELSE "done",
                   !.scans = t.scans \cup ({scan} \ {None}), !.degraded = scan = None]

\* A whole scan goes to the young end of the cache; the oldest one leaves.
Stored(d, key, scan) ==
  LET full == PopAndSet(d, key, scan)
  IN  IF Len(full) > CacheMax THEN Tail(full) ELSE full
-----------------------------------------------------------------------------
\* [mutant] A field that could not be scanned keeps its permit.
ReleasesIfScanned(k, t) ==
  /\ task' = [task EXCEPT ![k] = t]
  /\ free' = IF t.degraded THEN free ELSE free + 1
  /\ UNCHANGED queue

\* [mutant] Nobody in the queue is woken.
ReleasesUnheard(k, t) ==
  /\ task' = [task EXCEPT ![k] = t]
  /\ free' = free + 1
  /\ UNCHANGED queue

\* The task k becomes t and gives its permit back, to the first in the queue.
Releases(k, t) ==
  IF queue = <<>>
  THEN /\ task' = [task EXCEPT ![k] = t]
       /\ free' = free + 1
       /\ UNCHANGED queue
  ELSE /\ task' = [task EXCEPT ![k] = t, ![Head(queue)].stage = "holding"]
       /\ queue' = Tail(queue)
       /\ UNCHANGED free

\* async with _DETECT_SEMAPHORE
Ask(k) ==
  /\ task[k].stage = "wanted"
  /\ IF free > 0 /\ queue = <<>>
     THEN /\ free' = free - 1
          /\ task' = [task EXCEPT ![k].stage = "holding"]
          /\ UNCHANGED queue
     ELSE /\ queue' = Append(queue, k)
          /\ task' = [task EXCEPT ![k].stage = "queued"]
          /\ UNCHANGED free
  /\ UNCHANGED <<cache, console>>

\* _detect_neural finds the whole scan in the cache, or starts one.
Hit(k) ==
  /\ task[k].stage = "holding"
  /\ LET key == CacheKey(task[k])
     IN  /\ HasKey(cache, key)
         /\ cache' = PopAndSet(cache, key, Lookup(cache, key))
         /\ Releases(k, Answered(task[k], Lookup(cache, key)))
  /\ UNCHANGED console

Miss(k) ==
  /\ task[k].stage = "holding"
  /\ ~HasKey(cache, CacheKey(task[k]))
  /\ task' = [task EXCEPT ![k].stage = "calling", ![k].gate = "primary",
                          ![k].at = 0, ![k].windows = {}]
  /\ UNCHANGED <<free, queue, cache, console>>

\* The windows scanned once the gate has answered for the one at t.at.
ScannedBy(t) == t.windows \cup {<<t.gate, t.at, ChunkEnd(Target(t), t.at)>>}
LastChunk(t) == ChunkEnd(Target(t), t.at) >= Length[Target(t)]

\* The gate answers for a window that is not the last.
Chunk(k) ==
  /\ task[k].stage = "calling" /\ ~LastChunk(task[k])
  /\ task' = [task EXCEPT ![k].windows = ScannedBy(task[k]),
                          ![k].at = NextChunk(Target(task[k]), task[k].at)]
  /\ UNCHANGED <<free, queue, cache, console>>

\* It answers for the last one: the scan is whole.
Whole(k) ==
  /\ task[k].stage = "calling" /\ LastChunk(task[k])
  /\ LET scan == Scan(task[k], ScannedBy(task[k]))
     IN  /\ cache' = Stored(cache, CacheKey(task[k]), scan)
         /\ Releases(k, Answered(task[k], scan))
  /\ UNCHANGED console

\* [mutant] The fallback goes on where the primary stopped.
ResumesOnFallback(t) == [t EXCEPT !.gate = "fallback"]

\* The whole text is scanned anew against the fallback.
OnFallback(t) == [t EXCEPT !.gate = "fallback", !.at = 0, !.windows = {}]

FailsOver(t) == HasFallback /\ t.gate = "primary"

\* No answer before the timeout: the fallback is tried, once.
Unreachable(k) ==
  /\ task[k].stage = "calling"
  /\ IF FailsOver(task[k])
     THEN /\ task' = [task EXCEPT ![k] = OnFallback(@)]
          /\ UNCHANGED <<free, queue>>
     ELSE Releases(k, Answered(task[k], None))
  /\ UNCHANGED <<cache, console>>

\* A gate answers with an error, which is never taken to the other gate.
HttpFault(k) ==
  /\ task[k].stage = "calling"
  /\ Releases(k, Answered(task[k], None))
  /\ UNCHANGED <<cache, console>>

FieldStep(k) ==
  \/ Ask(k) \/ Hit(k) \/ Miss(k) \/ Chunk(k) \/ Whole(k) \/ Unreachable(k) \/ HttpFault(k)
-----------------------------------------------------------------------------
\* The console's own scan of a text (/gate/detect): the same client, the same
\* cache, with a score of its own and without the semaphore.
ConsoleAsks(text, score) ==
  /\ console.stage = "none"
  /\ LET key == <<text, score>>
     IN  IF HasKey(cache, key)
         THEN /\ cache' = PopAndSet(cache, key, Lookup(cache, key))
              /\ console' = [Idle EXCEPT !.stage = "done"]
         ELSE /\ console' = [Wanted(text) EXCEPT !.stage = "calling", !.score = score]
              /\ UNCHANGED cache
  /\ UNCHANGED <<task, free, queue>>

\* It is answered, one chunk or the last; or there is no gate to answer.
ConsoleAnswered ==
  /\ console.stage = "calling"
  /\ IF LastChunk(console)
     THEN /\ cache' = Stored(cache, CacheKey(console), Scan(console, ScannedBy(console)))
          /\ console' = [Idle EXCEPT !.stage = "done"]
     ELSE /\ console' = [console EXCEPT !.windows = ScannedBy(console),
                                        !.at = NextChunk(console.text, console.at)]
          /\ UNCHANGED cache
  /\ UNCHANGED <<task, free, queue>>

ConsoleFails ==
  /\ console.stage = "calling"
  /\ console' = IF FailsOver(console) THEN OnFallback(console)
                ELSE [Idle EXCEPT !.stage = "done"]
  /\ UNCHANGED <<task, free, queue, cache>>
-----------------------------------------------------------------------------
TaskRecords ==
  [stage : {"none", "wanted", "queued", "holding", "calling", "done"},
   text : Texts \cup {None}, carrier : BOOLEAN, score : Scores \cup {RedactScore},
   gate : Gates, at : Nat, windows : SUBSET Windows, scans : SUBSET ScanRecords,
   degraded : BOOLEAN]

DetectorTypeOK ==
  /\ task \in [Tasks -> TaskRecords]
  /\ free \in Nat
  /\ queue \in Seq(Tasks)
  /\ cache \in Dict(Keys, ScanRecords)
  /\ console \in TaskRecords
=============================================================================
