# OSSRedact in TLA+

OSSRedact is a privacy firewall: a local gateway that stands between a coding
agent and a model provider. Every outbound request is scanned, personal data is
replaced by placeholders `<LABEL_NNN>`, and the answer is rehydrated with the
real values before the client sees it. Beside it there is a document workbench
that does the same to files in the browser. This directory holds TLA+ models of
the parts in which order, failure, concurrency or a boundary decide whether that
promise is kept, the TLC runs that check them on small instances, and TLAPS
proofs of the results that matter most.

- `*.tla` without prefix: the models. `MC*.tla`: the definitions a run needs.
- `<Module>_<question>.cfg`: one run each.
- `*Proofs.tla`: theorems; nothing else depends on them.
- `PROJECT.json`: components, runs, mutants, the map from definitions to source
  lines, findings, hazards and theorems.

Check a run with `tlc -config MapLock_shared.cfg MCMapLock.tla`, a proof with
`tlapm MapLockProofs.tla`.

## 1. Inventory

| Component | State it keeps | Operations | Hard behaviour |
|---|---|---|---|
| **Entity map** `appliance/entity_map.py` `EntityMap` | `v2p`, `p2v`, casefold index, counters, tombstone, `created`; an encrypted file | `placeholder_for`, `_evict_if_full`, `_load`, `save`, `replay` | limits, reload, swallowed save errors, case aliases |
| **Map lock and GC** `map_file_lock`, `gc_maps`, `_start_maps_gc` | per-path `RLock`, `.lock` inode and its flock, map file and its age | take and release, load, mint, save; unlink | threads, processes, crashes, unlink while held |
| **Request pipeline** `egress_proxy.redact_body`, `redact_core.py` | freeze cache, allow/deny lists, mode, the fields of one body | detect, merge spans, keyed secrets, substitute, sweep, freeze | config edits during awaits, order of passes |
| **Protocol adapters** `extract_text_fields`, `openai_adapter.py`, `responses_adapter.py` | handles into the JSON of one body, parsed arguments | surface text, write back, restore an answer | user data under protocol keys, renamed keys, JSON inside strings |
| **Response path** `_transform_event`, `transform_openai_event`, `transform_responses_event` | carry per channel, buffered arguments | rehydrate deltas, buffer arguments, restore final copies | placeholders split over events, truncated streams |
| **Tool argument policy** `tool_arg_policy.py` | none | decide by class of the label, shape of the value and mode | four ways arguments reach the client |
| **Detector client** `_detect_neural`, `_detect_against`, `_chunks` | semaphore, LRU cache of spans, primary and fallback URL | detect with chunks, retry and failover, degrade | concurrency limit, timeout, fail closed |
| **Request routes** `messages`, `chat_completions`, `responses`, ... | upstream connection, tallies for the live feed | read, redact or refuse, forward, stream | clients that leave, upstreams that fail |
| **Live feed** `_live_emit`, `api_stream`; `LivePanel.tsx`, `daemon.ts` | ring of events, subscriber queues; a console's rows | emit, subscribe, drop, clear, reconnect | slow and vanished subscribers, replays, restarts |
| **Control plane** `/api/allowlist`, `/api/denylist`, `/api/settings`; `DictionaryPanel.tsx`, `DenylistPanel.tsx` | list files, their mtimes, the copy that is enforced; an editor's draft | read, replace, refresh | refreshes on threads, edits that overlap, timed-out saves |
| **Detection gate** `gate/`, `appliance/privacy_gate.py`, `secrets_scan.py` | the request that is served | floor, model, windows, merge, growth, repeats, redact | window edges, offsets, overlapping spans |
| **Browser core** `packages/redaction-core` | the spans of a document | a port of the floor; merge, number, write, sweep, restore | agreement with the Python, stale spans |
| **Workbench** `workbench/src` | spans, batch, deep scan state, map store (IndexedDB) | load, edit, scan, export, restore | answers that come late, partial scans, ambiguous maps |
| **Desktop shell** `workbench/src-tauri/src/lib.rs` | none | start, probe and stop by the service manager | not modelled |
| **Deployment**, **training**, **validation** | none at run time | scripts | not modelled |

A request flows `route -> _redact_or_block -> redact_body -> upstream ->
rehydration`. `redact_body` calls the detector with no lock held, then takes the
map lock and, without awaiting, loads the map, mints, sweeps, freezes and saves.
The `replay` dict it returns is all the response path knows of the map. The
consoles and the list files touch the path only through the enforced copies and
the live events; the workbench shares nothing with it but the gate.

What makes each component correct:

- *entity map*: a placeholder means one value, for as long as anyone may hold
  it; a re-sent value keeps its placeholder; whatever is handed out can be
  rehydrated or is reported lost; memory is bounded.
- *map lock*: the cycle is atomic whatever dies, and everybody gets through.
- *pipeline*: nothing the current configuration redacts leaves in clear, and
  what it lets through leaves as it came.
- *adapters*: no text of the user is missed and no structure of the protocol is
  rewritten.
- *response path*: streaming gives the text that rehydrating the whole gives,
  and no secret reaches what the client executes.
- *detector and routes*: a field that was not scanned whole blocks the request;
  everyone is answered; connections are given back.
- *live feed*: who keeps up misses nothing, and a page shows events in order.
- *control plane*: what was saved is enforced once refreshes have ended.
- *gate and browser*: a number is found however it is dressed and wherever a
  window is cut, and the port finds what the original does.
- *workbench*: nothing found in a batch leaves with any file of it, an incomplete
  scan is confirmed, and a restored file is restored to itself.

## 2. Plan and status

| | Module | Composes | Abstract specification | Status |
|---|---|---|---|---|
| 1 | `OrderedDict`, `EntityMap` | | properties over what was `sent` | checked, proved |
| 2 | `MintedMap`, `MapLock` | | `AtomicMap` | refinement checked and proved |
| 3 | `FieldSpans` | | `Components`, a merge without an order | checked, proved |
| 4 | `RedactBody` | | properties over what was `sent` | checked, proved |
| 5 | `PlaceholderText`, `StreamState`, `AnthropicStream`, `ChatStream`, `ResponsesStream`, `ResponseStream` | `ToolArgPolicy` | rehydration of the whole text at once | checked, proved |
| 6 | `DetectorClient`, `Gateway` | | a field is scanned whole or the request is refused | checked, safety proved, liveness |
| 7 | `LiveFeed`, `ListFiles`, `Console` | | every subscriber is owed a suffix of the events | checked, safety proved, liveness |
| 8 | `Fields` | `ToolArgPolicy` | the body, place by place | checked |
| 9 | `Redaction`, `Workbench`, `AppShell` | `Console` | restored text is the text | checked, safety proved, liveness |
| 10 | `FloorText`, `ApplianceFloor`, `BrowserFloor`, `GateSpans`, `GateService`, `Detection` | | numbers that stand alone | checked, proved |

What the plan has left, in this order:

- the LRU bound of the freeze cache in `RedactBody`, as an ordered cache;
- `EntityMap` under the map's expiry while requests hold an old `replay`;
- the token and origin checks of the control API, and the mode switch as the
  consoles see it.

The order follows the harm: a map that confuses two people is worse than a
field left in clear, which is worse than a raw placeholder in an answer, which
is worse than a console that is behind. `EntityMap` and `RedactBody` meet in a
placeholder (label and number there, a generation and a value here);
`FieldSpans` gives `RedactBody` the spans of one field, `Detection` gives
`FieldSpans` and `DetectorClient` what a gate may find; `MapLock` is what lets
`EntityMap` and `RedactBody` treat load, mint and save as one request at a time.

## 3. The models and the code

### EntityMap (`appliance/entity_map.py`, class `EntityMap`)

`mem` is the Python object of the request in progress: `v2p`, `p2v`, `cf` and
`tomb` have the code's names, `counters`, `created` and `evicted` too. `v2p` and
`_tomb` are dicts whose order the code relies on, so they are the sequences of
`OrderedDict`; `p2v` and the casefold index are functions. `disk` is the saved
content and `file` says whether it can be read.

| Action | Code |
|---|---|
| `LoadEmpty`, `LoadFile` | `_load`, all its outcomes: no file, expired, unreadable, intact |
| `ReturnExact`, `ReturnCaseVariant`, `Reactivate`, `Mint` | the four ways through `placeholder_for`, evictions and counters included |
| `EndRequest` | `save` (or the skipped one), then the forward or the refusal |
| `Abort` | an exception or a crash between load and save |

`Fold` is `str.casefold`; a placeholder is a label and a number. Clocks are "a
load may find the file expired".

### MapLock (`map_file_lock`, `gc_maps`), AtomicMap, MintedMap

A request of a worker goes through `idle`, `waiting` (for the RLock of the path),
`rlocked`, `opened` (the `.lock` file), `locked`, `loaded`, `written` (the
temporary file), `saved`. The name `.lock` and its inode are kept apart, as the
file system does. `Crash(p)` ends a process anywhere and releases its locks. A
load starts an empty map where there is no file, where it has expired (`LoadNew`), or
where it cannot be read at this moment or was written short (`LoadUnread`); `WriteTmp`
may write short, and `SaveFails` is every way `save` has to raise and swallow it, after
which the request is forwarded like any other (`Answered`). The
collector is four steps, because it looks first and unlinks later. `MintedMap` is
the part of the map concurrent requests can spoil; `AtomicMap` does a whole
request in a step, its map kept, not kept or garbled, and `MapLock` implements it with `stored <- enc`.

### FieldSpans (`process_field`, `merge_spans`, `post_merge_address`, `redact_text`)

One text from detection to masking; `stage` is the place in the code, and one
step is one iteration of one loop. A text is a length and the intervals the
regular expressions match in it: the model never looks at characters. The
detectors say anything they like within the `kinds` of the text. The loop that
closes the clusters of `merge_spans` is done as each cluster is left. The
neural spans of a degraded scan are the ones nobody put into `raw`, and
`ModelCredentialVerdicts` demotes the credential guesses of the model that
`_model_credential_verdict` demotes.

### RedactBody (`redact_body` and what it calls)

`Start` reads the lists before the first await, `Degrade` is a failed scan, and
`Finish` is everything after detection up to the forward, which the code runs
without an await under the map's lock. The edits of mode and lists, with or
without the reload the API does (`Edit`), and the GETs that reload a list
(`ShowList`) fall in between. A text is a set of words; a value is a set of
words; what goes upstream is the words in clear and the placeholders. The
fingerprint of the configuration is the mode and the versions of the two lists
as the process last read them, as `_config_fingerprint` computes it. A world
fixes, for a whole session, which bodies and edits occur and whether requests
are edited in flight and forwards may fail.

Left out of `RedactBody`: the policy YAML (its effect is that of a mode), the
values too short to be swept and the placeholders of file paths, the fast path
of an empty body, the LRU bound of the freeze cache and a restart that empties
it. Eviction from the map is in `EntityMap`, the extraction of fields in `Fields`.

### The streams (`_transform_event`, `transform_openai_event`, `transform_responses_event`)

A text is a sequence of atoms `<`, `>`, label characters and others, so a
placeholder can be cut at every place. `PlaceholderText` holds `rehydrate_text`,
`rehydrate_json_string` and `split_safe`; `StreamState` what a channel (a block,
a choice's field, an output item) keeps between events: `carry`, `acc`, `phase`.
`AnthropicStream`, `ChatStream` and `ResponsesStream` have one action per type of
event; `ResponseStream` chooses the protocol and states the properties. `got` is
what the client has received, `sent` what the upstream sent: the properties
compare `got` with the restoration of `sent` as a whole, which the code never
computes. `ToolArgPolicy` is the table of `tool_arg_policy.py`: classes of
labels, shapes of values, the strict switch. The framing of events in chunks
(`\n\n`) is left out.

### DetectorClient and Gateway (`_detect_neural`, `process_field`, the routes)

`DetectorClient` is one task per field under the shared semaphore with its
first-come queue (`Ask`, `Releases`), the LRU cache of whole scans (`Hit`,
`Whole`), one step per window of `_chunks` (`Chunk`), the one failover on a
connection error (`Unreachable`) and none on an HTTP error (`HttpFault`), and the
second scan of a bare name in a carrier sentence. `/gate/detect` scans beside it,
without the semaphore and with a score of its own. `Gateway` takes a request from
`Rejects` or `Scans` through `Redacts` or a refusal to `Upstream` and `Client`,
with the connection and the events of the live feed. What a gate finds, and what
`redact_body` makes of it, is data here.

### LiveFeed, ListFiles, Console

`LiveFeed` has the ring, the queue of each subscriber, and both consoles: the
page the gateway serves drops the numbers it has seen, the panel only the number
it shows on top. `ListFiles` is a list file, the copy that is enforced and the
noted mtime, refreshed in four steps (stat, note, read, install) that a GET runs
on a thread of the pool beside the event loop; and the editors, which load, keep
a draft, save the whole list and may give up waiting. `Console` runs both on one
gateway that stops and starts.

### Fields (`extract_text_fields`, `openai_adapter.py`, `responses_adapter.py`)

A JSON value is a tree; a place is a path in it. The three extractors return
places, and the write-backs go through places that were taken before a key on
the way was renamed, as the handles of the code do. Every datum has a role (the
user's, the protocol's) that the code never reads and the properties do.
`Doubled`, `PlainArgs` and `DupArgs` are arguments whose JSON has a key twice,
which the code re-writes as text. The answer side restores what an echo of each
place would be.

### Redaction, Workbench, AppShell

`Redaction` is `redaction.ts` over words: merge, growth, repeats, numbering, the
redacted text, the sweep and the restoration. `Workbench` has the map store of the
browser (a record per redacted body) and the reviewer's session: loads, edits, deep scans
that captured a document, a batch and a filter when they began, exports that end
later, and what each hands out. `AppShell` composes it with `Console`: one of
the two is on screen, and leaving the workbench unmounts it while its work goes
on.

### Detection (`FloorText`, `ApplianceFloor`, `BrowserFloor`, `GateSpans`, `GateService`)

A text is a sequence of atoms: pieces of a number, words, cues, marks, invisible
characters, whole addresses. `ApplianceFloor` is `tier0_spans` with its cues, its second
pass over a text without invisible characters and the map back; `BrowserFloor`
the port of `tier0.ts`; `GateSpans` the gate's own floor, its windows, the
decoding of the model's tags, merge, growth and repeats; `GateService` the service with token,
redaction, sweep and mapping. The model may tag each word of a window with
anything, otherwise in each window. Lengths are counted in atoms. Left out:
address stitching, caps of 60 characters, ZIP+4 and ZIP after a state, expiry
dates, `%20`, health card and licence numbers, rules whose value holds letters,
cue windows (longer than the texts), dotted capitals, the CPU and NPU twins of
the service.

## 4. The runs

| Run | Shows | Distinct states |
|---|---|---|
| `entity_distinct` | a re-sent value keeps its placeholder across eviction, reactivation and reload | 183 k |
| `entity_limits` | with aliases, no room for tombstones and a full map, no number is issued twice or stands for two people; what a request was given restores to its value up to case, or is reported evicted, or was lost from the file with another spelling | 877 k |
| `lock_shared` | two processes, crashes, expiry, files that cannot be read, saves that fail or write short: mutual exclusion, the refinement of `AtomicMap`, and that waiting requests are served | 276 k |
| `lock_gc` | two threads of one process under the collector are exclusive | 57 k |
| `field_overlaps` | every set of up to three detections on five kinds of text, three configurations: the merge is the connected components, floor hits keep a floor label, nothing detected is half masked | 4.0 M |
| `body_sessions` | three worlds: with edits between requests only, requests mask and pass what the configuration says; with edits in flight nothing new is exposed as long as forwards arrive; with failed scans, rotation of the map and upstream failures, bytes are stable, placeholders can be rehydrated, floor words never leave | 693 k |
| `body_stale` | *violated*: a term added during detection is frozen in clear | |
| `stream_events` | three protocols, every way to cut and interleave: text exact, arguments of the client's calls whole and once, withheld values inert, final copies agree | 642 k |
| `gateway_requests` | two requests and a console on one permit, two gates that fail: scanned whole or refused, connections returned, everyone answered | 264 k |
| `desktop` | feed, lists, workbench and the app around them (eight properties) | 505 k |
| `fields` | each pair of five words in every place of the bodies of three protocols: nothing raw, structure kept, the echo comes back | 36 k |
| `detection` | numbers in every dress before both floors; long texts before the gate | 29 k |

Every property of a passing run has a mutant in `PROJECT.json`: an operator,
marked `[mutant]` beside the one it replaces, that stands for a plausible bug and
under which the same run finds the property violated.

`CHECK_DEADLOCK FALSE` is set everywhere: the models stop when a bound is
reached (`MaxGen`, `MaxRequests`, `MaxLives`, `MaxDeltas`, a budget) or the work is
done, and so may the gateway when nobody asks it anything. That nobody waits
for ever where somebody should be served is `Served`, `EveryoneAnswered` and `EventsShown`.

### Bounds

- *EntityMap*: a map of two entries evicts on the third name, and three names
  under two labels reach every path of `placeholder_for` after an eviction. A
  tombstone of two (`entity_distinct`) keeps every binding that is evicted, so
  a re-sent value must come back the same; one of none (`entity_limits`)
  forgets each, so a number may only stay unique because of the counters. One
  generation suffices within a life; `NeverReissued` speaks of one life.
- *MapLock*: two requests are enough for a race; three creation times allow an
  expiry after each of two lives. Two inodes suffice where the name is never
  unlinked, three where it may be. `MaxLives` bounds how often the map may age or
  turn out unreadable, and a save fails in all lives but the last (`Fails`): each
  takes a creation time. A map is told past its TTL from expired, and a lock old from new, only
  where the collector looks. `lock_gc` has no failing saves, `Mutex` is not about the map.
- *FieldSpans*: three spans are the smallest chain in which a cluster grows past
  the span that joined it; length four gives every relation of three intervals
  that matters to a merge (apart, touching, overlapping, nested, equal). Three
  confidences and the rank of 1.0 order any three spans.
- *RedactBody*: three requests, two of them overlapping, are a turn that freezes,
  one that learns and one that replays; two edits are a change and a change
  back; two generations are one rotation.
- *Streams*: three deltas on two channels cut a placeholder into all its parts
  with another channel between them; the seven pieces hold a whole placeholder,
  each part of one, and text that only looks like one.
- *Gateway*: one permit and two tasks make a queue; windows of five that overlap
  by two cut a text of seven with a space in two; a cache of two evicts the scan
  another request waits for.
- *Desktop*: a ring and a queue of two overflow on the third of four events,
  three rows on the fourth. `MCUses` lists what is combined: console and
  reviewer share the gateway and the screen only, so a use is rich on one side
  or small on both. Two documents share a sender and differ in another.
- *Fields*: two words in each place suffice for two keys that become one, two
  spellings of a value, a value known from an earlier turn.
- *Detection*: windows of 15 atoms that overlap by five, and fillers of zero to
  eight words, put the number over each edge; the model's freedom is five tags
  on five words.

### Fairness

- `Served`: a process runs the block of `redact_body` without an await and without
  waiting for anything but the two locks, so `Proceed` is weakly fair. `TakeRLock`
  and `Flock` are strongly fair: a thread that waits for an `RLock`, and a process
  that waits in `flock(LOCK_EX)`, is queued, and gets it although others take it
  in between. No fairness of arrivals, crashes, time or the collector. `Served` is
  checked with the collector off: with it on, whether a request is served is the
  same question, but expiry needs unboundedly many creation times, and the bound
  on them would decide the answer.
- `EveryoneAnswered`: each scan step, `Redaction` and `Upstream` are weakly fair,
  because each call to a gate or an upstream has a timeout and the rest is code
  without an await. That the queue is first come first served is the model of
  `asyncio.Semaphore`, not a fairness assumption. Nothing is assumed of clients.
- `EventsShown`: weak fairness of `Flow(c)`: the timer of a console fires, its
  request reaches a gateway that runs, and what is queued for it is sent. Nothing
  is assumed of the user, of faults or of the gateway's restarts.

## 5. The proofs

Everything below holds for all values of the constants that meet the ASSUMEs of
its module (finite or not), not only for the instances of section 4.

**EntityMap.** `IInv` is `TypeOK`, `SizesBounded` and `Fresh`. `NeverWrongValue` is
not inductive: to know that minting is safe one must know that the number is new
to everyone who may still know an old one. `Fresh` says so: whatever the file,
the map in memory, its index, the tombstone, this request's answers and what
went upstream in this life say of a placeholder agrees up to case, and its number
is at most the counter of its label, on disk and in memory. `EvictFacts` and
`StoreFacts` say what an eviction and a store add to or take from those claims; one lemma for
each way through `placeholder_for` then shows that it only repeats known claims or
adds one with a new number. `TypeCorrect`, `SizesStayBounded`, `FreshNumbers` and
`RehydrationIsRight` hold with saves that fail and files that are truncated.
`NumbersAreNeverReissued` assumes `~SaveMayFail`: with failing saves it is false
(section 6).

`ReturnedAlwaysRestored` has no premise on values, saves or bounds. Its invariant is
`Restorable`: the placeholder of every entry in memory, and all that was returned, is
in `p2v`, or noted as evicted by this request, or was already an orphan in the file
that was loaded, an entry whose placeholder `p2v` does not have; an entry can
become one only if its value has another spelling (`Rooted`); and the casefold index
gives placeholders of entries only (`IndexRooted`). The value it restores to is the
right one by `Fresh`. An eviction moves a placeholder from the first case to the
second, reactivation back, and a reload turns the second into the third.

The last says what an instance keeps. `Bound`: a value is bound once, as an
entry or as a tombstone, what is an entry can be rehydrated, and the casefold
index answers for entries only. `NothingForgotten` adds that whatever was returned or sent in this
life of the map is still bound; with one binding per value that is
`PlaceholdersAreStable`. It assumes `NoCaseVariants`, without which it is false:
an alias outlives the placeholder it shares (section 6). It
assumes besides that saves arrive and `TombRoom`: the values of a session are
fewer than entries and tombstones hold together (5000 each in the code). A value
that was forgotten gets a new number.

**MapLock.** `LockInv` relates program counters to holders: who is past the flock
holds it on the inode the name has. With the collector off the name's inode never
changes, and `LockIsExclusive` follows. `BlockInv` says that who has loaded has the
stored map in hand, so that `Replace` is exactly `ServeOn` of it, and a save that fails one that leaves the map, or
garbles it; `RequestsAreAtomic` is the refinement, whether or not files can be
read and saved. `AtomicRequestsAgree` is proved of `AtomicMap` itself where saves succeed
(`~SaveMayFail`; it is false otherwise, section 6): its maps remember
every answer of their life (`AtomicInv`); `OnePlaceholderPerValue` carries `AtomicRequestsAgree` over to the
concurrent system. With the collector on, `RLockInv` (who is in the block holds
its process's RLock, which nobody can unlink) still gives `ThreadsAreExclusive`, of
which `OneProcessIsExclusive` is the case of the deployment with one gateway.

**FieldSpans.** `Order` says what each loop relies on: what is finished ends before
what is to come starts. `Held` then follows one deterministic floor hit through
all of them: at every stage some span, cluster or finished span of a floor label
covers it, or it is inside a commit hash. `FloorAlwaysKept` is its last stage.
`Merging` is the invariant of the first loop: every span is still to come, or
inside a cluster, and each cluster is `Seamless`, that is, runs from the start of a
span to the end of one without a gap. A seamless cover whose members do not meet
is exactly the components of the spans (`SeamlessCoverIsComponents`):
`MergeIsExact`. `Covered` follows every detection, not only the floor's, from there
to the end, leaving out what the allowlist spared, and with `KnownLabels` (no
stage makes up a label) gives `NoFragmentExposed`.

**RedactBody.** `Clean` extends `FloorMasked` to the freeze cache, from which later
requests take text without looking at it again. `Remembered` says that the
freeze cache has one text for each key and holds everything that was sent; from
this `BytesAlwaysStable`. `FrozenRestorable` says that what is frozen under the
generation of the stored map has placeholders that map still knows, and that a
new map has a generation under which nothing is frozen: `AlwaysRehydratable`.
`ListsRead` and `FrozenMasked` say that without edits during requests the lists a
request has read, those of the fingerprint and those in the files are the same,
and that a text frozen under today's versions is masked as today's lists say; an
edit takes a version under which nothing is frozen. So
`MaskedUnlessEditedMeanwhile` is the other half of the finding `body_stale`.
`FrozenPassed` is the same for what is let through: a word missing from a frozen
text is missing for a reason that stands under today's lists and what the stored
map knows; labels of a map never change and are those of the words
(`KnownLabelled`). With it `AlwaysAsConfigured`. `FrozenSent` says that where forwards
arrive, what is frozen went upstream; a text that is not frozen is swept, and
the sweep leaves no value it knows because among the values that occur in a
finite text there is a largest one above each (`SweptLeavesNone`):
`NothingNewlyExposed`, under any edits.

**Gateway.** `ReadSoFar` is why a text cut in windows is scanned whole: whatever of
it is at most the overlap long and begins before the next window does lies in a
window already scanned, because a window that is not the last ends more than the
overlap after its start (`WindowEnd`, by the greatest space of a finite set) and
the next begins the overlap before that end (`WindowsOverlap`). `Sound` says that a
task which is done without being degraded has such scans of its text, and of the
carrier where one is due; `CacheWhole` that every cached scan is whole for its key,
whichever request or console put it there; `QueueOfWaiting` that the queue of the
semaphore holds each waiting task once, so that a permit handed on disturbs no
task that is done. With `ScansFor`, which ties tasks to the fields of the body,
they are `IInv`, and `ForwardedIsScanned` follows for any sizes, permits and faults.
`ConnectionInv` and `Told` (what the feed has of a request at each stage) give
`ConnectionsComeBack` and `FeedIsTold`. The assumptions are those of
`DetectorClient` (a window is longer than twice the overlap, as the code's 600
and 80 are, and lengths and spaces are natural numbers) and that fields hold
texts.

**The streams.** What a text becomes is a recursive function of its places
(`Suffixes`), and the theorems hold for texts of any length: `FromTheEnd` is
induction over the places of a text, from the last one, obtained from a minimal
element of the set of exceptions (`WFMin`), so that it takes a set and no
operator. `SuffixesExist` says that the recursive definition has a solution and
`SuffixEquations` are its clauses. On them rest `RestoredByParts` (a text is restored
part by part where no known placeholder is cut), `Split` and `SplitGoesOn` (the held
tail is the last place where a placeholder may have begun; splitting the tail
and what follows is splitting the whole) and `DeltaRestores`, which joins them: no
placeholder is cut before a held tail, nor at the end of a text that holds none.
`ChannelStep` is what any action of the three protocols does to one channel, shown
for every action, the flush of all open channels of a choice included
(`EveryStep`); `StreamInv` says that an open text has been given up to its tail, an
open call's arguments are all in the buffer, a closed channel is restored whole
and a final copy is of a text that is over. `StreamedTextIsExact`,
`ArgumentsComeWhole` and `FinalCopyAgrees` follow for any pieces, channels and
interleaving. `SecretsStayInert` adds that what the upstream says is made of its
pieces (`Said`) and that a restored text holds no placeholder that was restored
(`NoneLeft`: at the head of a restored suffix a bracket or a label is one of the
text itself), so what closed calls still show is what was withheld. It
assumes `SecretAssumption`, that the upstream sends no withheld value and that none
is the value of a restored label too, and `ValueAssumption`, that a value does not
look like a part of a placeholder; TLC evaluates both on the instance.

**The live view.** `FeedSteps` shows what a step of the app may do to the feed.
`AllNumbered` says that the ring ends with the newest event, and so does what a
subscriber that has lost nothing is still to be sent (ring first, queue after),
and which goes on where it has got to (`DeliverKeepsNumbers`). `FeedSkipsNothing`
follows for any sizes of ring and queue. `PageKeepsOrder` rests on the number the
page has seen last: its rows, and above them those held back by a pause, fall
from that number (`PagesFall`), so a replayed event is dropped and a new one goes
on top (`PageTakesInOrder`).

**The lists.** `ListsTyped` is needed to know that the oldest unanswered save
exists and that mtimes only grow. `CopyInv` relates the three: nothing noted or
seen by a refresh is of a later file than the one that is there; if what is noted
is the mtime of the file, the copy in force is of it, or went astray, or somebody
is reading; the event loop, when it is done, has current terms or is overtaken by
a thread of an editor's GET. A written file outdates everything at once
(`CopyOutdated`). `SavedListIsEnforced` follows for any editors and terms, edits by
hand and restarts.

**The workbench.** `EntriesInv` says that what is on screen, and in each file of a
batch, is of a document that is loaded, and that files are told apart by their
ids. `ScansInv` says that no scan is of a later generation than the page, and one of
this generation has captured the files that are loaded, in their order. Every
action that loads or closes takes a new generation, which outdates all scans
(`ScansOutdated`); every edit leaves files and documents as they are (`ShownStays`). So
the answer of a scan of this generation can be merged file by file
(`AllScanned`), and `SessionsStayApart` holds for any detectors. The same lemma shows
that a file the scan missed makes the batch's status degraded or partial
(`GateInv`), and a hand-out keeps what it was when it was made, however late its
zip ends (`HandedInv`): `ExportsAreConfirmed`.

`KnownValuesAreSwept` is about the algorithms as much as about the app. A recursive
function and a fold are defined by CHOOSE, so before anything can be said of what
one computes it must be shown to exist: `PassExists` for `SweepPass`, from the end of the
text to its beginning, and `FoldExists` for the folds, by the size of a finite set
(`AllSubsets`). Induction is on sets of numbers (`AllNumbers`, from the library's
well-foundedness of `<`), since the induction theorems themselves cannot be
instantiated. `Suffix` is the invariant of a pass: what it writes from a place on is,
up to the first placeholder, what stood there, and no known value begins there. So a
pass leaves no value of its own and makes no other legible (`PassIsClean`), and of
two passes the second does not undo the first (`SweepIsClean`), for any text and any
values. The rest is that every text handed out is one, and every map has values
and placeholders: `Placed` says that spans stay finitely many with places in Nat through merging,
growing, repeating, numbering and editing (`MergedPlaces`, `RepeatsTyped`, `NumberedStays`).
The assumptions: a detector answers with finitely many ranges of the text it was
given, none of them empty, and a box has two ends (`DetectionAssumption`,
`BoxAssumption`).

`BodiesAreRestored` needs what redaction and restoration do together. `Spells` says
that tokens stand, one after another, for the words of a text from one place to
another, each for one word or, as the placeholder of a value of the map, for as
many as the value has, up to case. Writing gives such tokens when the active spans
do not overlap (`PositionalSpells`: the list is in the order of starts, `InOrderLists`,
so each span ends before the next begins, `ApartFollow`, and each has a placeholder
whose value has its words, `PhStandsFor`); a pass of the sweep keeps it, because
the words it replaces are those of the value (`ReadStandsFor`, `PassSpells`); and
tokens that spell a text are restored to it (`SpellsRestored`). That a span has a
placeholder at all, and a placeholder one value, is `IndexFits`: numbering keeps
what is numbered, and no number of a label exceeds the count of its values
(`WellNumbered`), over all files of a batch and over the file on screen, which the
batch holds with the same spans (`EntriesInv`). Any record the store offers for the
body says the same of its placeholders as the body's own, or none is taken.

**Detection.** The five theorems hold for any vocabulary, texts, windows and tags of
the model. `Finds`: a number that stands alone is a run of digits of its own,
because no candidate of the leftmost-longest search reaches it or goes beyond it
(`MatchFound`, `NoneBefore`, `NoneAfter`), no phone number holds it (`NotInPhone`), and
the map back from the copy without invisible characters lists what is seen in order
(`AscendingLists`, `CleanIs`). `Matches` is a recursive function, so its existence is a
lemma (`MatchesExist`).

`PortKeepsStep` compares two programs: on a text whose atoms both know they
normalize to the same (`SameNorm`), all rules but two are shared (`RulesShared`),
and what those two find is, unless `LeftOutByPort` names it, a run of the port's
search too (`PortRuns`) and no date to it (`DateIsShort`).

`Answers` rests on `ServedInv`: what each window had is covered by a span, under a
floor label if it had one. It needs that windows overlap enough (`ChunksAre`), that
what stands alone in a text does so in every window that has it whole
(`StandsAloneWithin`), and that merging, growing and repeating only widen
(`MergedHolds`). `InOneWindow` is the premise: a number cut by every window is none.

`Restored` uses `RedactedInv`: the atoms of the redacted text stand, one after
another, for places of the text, each for one or, as a placeholder, for as many as
its value has (`Spells`). Masking gives such a text, a sweep is a walk over it that
keeps it (`SweepWalks`, `SweepSpells`), and what spells a text is restored to it.

`NoneLeft` has two halves. For the values (`NoValueIsLeft`, by `GoneInv`): what stands
in a swept text stood there before and was no hit (`Unswept`), so each sweep removes
its values and the second brings none of the first back (`SweepLeaves`). The premise
on `_` is needed: a value that ends in one may be replaced and leave the next one
bare. For the words of a name (`NoNameIsLeft`, by `SearchedInv` and `RedactedInv`):
`searched` holds where those words stand, and all their places are under a span once
they were sought (`RepeatsFound`). Where two spans or a span and bare text meet, a
redacted text has a seam (`Seams`) that no word runs across while spans end where
words do, so a word read in the answer was read in the text, in the open
(`ReadBefore`), and then it would have been found.

The assumptions, each at home in its module: no text holds one of the gate's own
placeholders, and numbers do not run out; confidences are 0 to 100; cards and social
insurance numbers are floor labels, have 9, 15 or 16 digits and pass Luhn; a space
is no digit; the lower case of a letter is a letter, and `_` is none
(`LowerAssumption`); an ASCII atom has no other form (`FormAssumption`); words equal
in lower case are equally short (`ShortAssumption`, true but for letters like the
dotted capital I).

**Only model-checked:**

- liveness (`Served`, `EveryoneAnswered`, `EventsShown`), which is out of the prover's
  reach;
- `NothingRaw`, `StructureKept` and `RoundTrip` of `Fields`: its walks over JSON are
  RECURSIVE and would need induction over data, and the roles that say whose a datum
  is come with the bodies of the instance, so that for every value of the constants
  the three do not hold.

## 6. What the code does otherwise than it says

**Finding** (`PROJECT.json` quotes the lines). `body_stale`: `redact_body` reads the
lists before detection and the fingerprint of the configuration after it. A term
added in between is let through once, and the clear text is frozen under the new
configuration and replayed.

The rest was met while modelling; no run is kept for it. Where a property would
be false because of it, the model or the property says so.

*The session's map.*

- An alias stays in `v2p` when the placeholder it shares is evicted from `p2v`
  (`entity_map.py:353`; the reverse, an evicted alias that takes the placeholder of the
  first spelling along, too). A later request that is given it by an exact hit (line
  299) sends a placeholder that its replay map does not have and that
  `map_evicted_present` does not name: the answer shows it raw, although the comment
  (345-347) says so only of a value that is not sent again. `ReturnedIsRestored` names this loss; without the
  disjunct that does, `entity_limits` finds it violated.
- The collector unlinks a `.lock` that another process holds (`entity_map.py:127`): the
  in-process lock does not help across processes; a gateway that is alone is
  safe (proved). It looks at the age of a map and unlinks it later without the
  lock: a map saved in between is lost.
- `save` swallows its errors and the request is forwarded: the next one mints the
  same numbers for other values. Within one request nothing is confused
  (`RehydrationIsRight`).
- The tombstone has one key space for case-sensitive and other labels: a case
  variant can be given the placeholder of an evicted case-sensitive value.
- A body that carries a placeholder of an earlier life of the map is rehydrated
  with the new one.

*One request.*

- The label of a cluster is that of its surest member: an always-redact term
  inside a longer, equally sure span of a label that the mode lets through goes
  with it, and a person overlapped by a surer organization.
- Keyed secrets are masked in parsed arguments, and a later pass re-serializes
  arguments from a copy parsed before, or lets a detected part rewrite a value
  that was masked whole (`egress_proxy.py:1541-1548`; the comment at 1534-1540
  says otherwise).
- A span that contains something of the form of a placeholder is never replaced,
  even if it is a floor hit; hence the premise `text.tokens = {}` of `FloorKept`.
- A field is frozen before it is forwarded: if the forward fails, its frozen text
  may later expose a value the session has learned since. A text frozen in clear
  replaces a keyed placeholder of the same text. A term removed from the denylist
  stays masked for the rest of the session.
- The scan for secrets left anywhere in a body runs only when the session has no
  known values.
- Not surfaced or not kept by the adapters: arguments with a key twice and a
  sensitive one among them, an MCP tool's `authorization`, citations and a
  document's `title` and `context`; a variable of a prompt whose key is detected
  is refused; a key that equals the restored form of another drops an entry, and
  case variants of one e-mail as keys come back with a `.dup1` twin (`RoundTrip`
  names the twin). A `document` block inside the content of a `tool_result` is passed
  over as binary, plain text in it too (`egress_proxy.py:474-477`), and the input of a `custom` tool call
  of Chat Completions is not looked for. But for the twin, `Fields` has no such bodies.
- A text in which the user wrote a placeholder of the session, `<PERSON_001>`, is
  rehydrated like one of the session's own. `RoundTrip` leaves what the client wrote as a placeholder out.
- The streamed input of a `server_tool_use` block is held back as that of a
  `tool_use` is ("buffer; emit the rehydrated assembled JSON at block stop",
  `egress_proxy.py:1865-1867`), but only a `tool_use` is flushed at the end of its block
  (1880): the input never reaches the client. `ArgumentsExact` says both. Events are
  split at `\n\n` only.
- A streamed response whose generator never starts leaves its upstream
  connection and, on the live feed, its queue; `NoConnectionLeft` leaves the
  stage `abandoned` out. A console's scan goes round the semaphore, and a request
  that is refused has been reported as a request.

*Consoles.*

- The mtime of a list is noted before the file is read: two refreshes may install
  the older copy last, and a read that fails leaves an empty list that is not read
  again until the file changes. `SavedIsEnforced` names both. `ListFiles` gives each
  write an mtime of its own; the code compares `getmtime` only (`egress_proxy.py:1018`),
  so of two writes within one tick of the file system's clock the second may
  not be noticed until the next.
- Editors save whole lists: edits of two, or edits made while a save is under way,
  are lost, and a page keeps values the gateway has refused.
- The gateway counts events from one after a restart, so the page drops what it
  takes for old; the panel shows the ring again after a reconnection.

*The workbench.*

- A box that is switched on again over a later detection: `redactedText` writes
  the rest of the outer span in clear while the screen shows it masked
  (`redaction.ts:460`, against 151-152). `RestoreRight` leaves documents
  with overlapping active spans out.
- The `finally` of an earlier export or PDF scan enables the buttons under a
  running scan of all files; switching entries then mirrors the spans of one into
  another. Edits and filter changes during a scan of all files are overwritten by
  what it captured.
- A degraded scan of one file is forgotten by a clean scan of another one, so
  their zip goes out without confirmation; automatic detection and Clear keep the
  status of the batch.
- `putMap` is two transactions; a copied text is never remembered. The record of a
  zip, which holds the fingerprints of all its files, is overwritten by that of a
  single file with the first file's body and the same map: the comment says
  "identical content" (`mapStore.ts:81-82`), but the other files are no longer
  found, and a body of another map that equals one of them is then restored with
  the only record left, its own or not. `RestoreRight` asks for the body's own
  record. Text of the form of a placeholder collides on restoring.

*Detectors.*

- The leftmost candidate for a number bridges adjacent numbers
  (`1234 4111 1111 1111 1111`, `123 046 454 286`): nothing is found by the gate, in
  the first case by the appliance either, although the comment says it can never
  bridge. A social insurance number next to an underscore is found by neither floor.
- The Python floors do not know the spaces U+2000 and U+2001; the browser does. A
  TAB is a space to it, so a column of a ledger is none. Arabic-Indic digits are
  folded by the floors and not by the browser's NFKC, although `tier0.ts:37` says so.
  `KnownToBoth` leaves texts with such characters out.
- The browser has no glued cards (beside an underscore neither), no number that
  ends a sentence (`046454286.`), no two separators in a row (` -`), no birth
  date by cue; and a number one space or dash away makes one run of both, where
  the appliance still finds a card. `LeftOutByPort` names these; trying to prove an
  earlier `PortInStep`, which named fewer, brought the last three to light.
- Repeats are sought before the last merge. When two windows disagree, a word that
  enters a name only because the name is merged with another span (`Jean Roy` in
  one window, a city `Roy  Laval` in the next) is not sought elsewhere, and stays
  where the model missed it. `NoNameLeft` is about what was sought (`searched`);
  proving an earlier one, about every word of a name, brought this to light, and
  the instance has such a text.
- The gate's `rehydrate` (`gate/privacy_gate.py:1111`) replaces each placeholder of its
  mapping wherever it stands, also where the user's text had those characters
  already: a text that holds `<PERSON_001>` and a person comes back with the person twice.
  `PlaceholderAssumption` leaves such texts out of `RoundTrips`.
- The gate does not look for cues on the copy without invisible characters, on
  which lines are joined.

## 7. Not modelled

- *Desktop shell, deployment, training, validation*: calls to the operating system
  one after the other, release scripts, and offline programs without state these
  models could say anything about.
- *`client_compat_adapter.py`* is a catalogue of text; *`secrets_scan.py`* a list of
  regular expressions whose hits are data in `FieldSpans`.
- *Control plane*: the token and origin guards and the mode switch as a console
  sees it. *Request routes*: header filtering, usage logs, the replay harness.
- *Pipeline*: the LRU bound of the freeze cache (4096 fields) and the policy file.
- *Gate and browser*: what section 3 lists under Detection; the neural model is
  data: it may say anything.
- *Workbench*: office files, PDF pages and the boxes drawn on them; the models are
  about words, not characters, and a store's read and write are one step.
- The encryption of the map file.
