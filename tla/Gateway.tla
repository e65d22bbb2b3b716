------------------------------ MODULE Gateway ------------------------------
(***************************************************************************)
(* The routes of appliance/egress_proxy.py: what becomes of a request from *)
(* the reading of its body to the closing of the upstream connection, with *)
(* the scans of DetectorClient, the refusals, the answers and the events   *)
(* of the live feed.  What redact_body does to the fields it has scanned   *)
(* is the subject of RedactBody; here it fails, or leaves a session that   *)
(* has placeholders or not.                                                *)
(***************************************************************************)
EXTENDS DetectorClient

CONSTANTS
  Bodies,     \* bound: of each request, [route, size, parses, fields, hidden, stream]
  FailClosed, \* ~GATEWAY_FAIL_OPEN
  DryRun      \* GATEWAY_DRYRUN

ASSUME BodyAssumption ==
  \A r \in Requests : \A b \in Bodies[r] : \A p \in Places : b.fields[p] \in Texts \cup {None}

VARIABLES
  stage,     \* how far each request is
  body,      \* its body
  answer,    \* what its client was told
  conn,      \* its upstream connection
  known,     \* whether the session's map holds placeholders
  replay,    \* whether its replay does
  forwarded, \* history: the requests whose body went upstream
  feed       \* the events of the live feed, by request

request == <<stage, body, answer, conn, known, replay, forwarded, feed>>
vars == <<detector, request>>

\* What each route does: whether it reads and redacts a body, whether it
\* restores the answer, which events it reports of the answer.
Messages == [reads |-> TRUE, restores |-> TRUE, tells |-> {"response", "withheld"}]
MessagesCountTokens == [reads |-> TRUE, restores |-> FALSE, tells |-> {}]
ClaudeCliBootstrap == [reads |-> FALSE, restores |-> FALSE, tells |-> {}]
ChatCompletions == [reads |-> TRUE, restores |-> TRUE, tells |-> {"response"}]
Responses == [reads |-> TRUE, restores |-> TRUE, tells |-> {"response"}]

Scannable(b) == \E p \in Places : b.fields[p] # None
Degraded(r) == \E p \in Places : task[<<r, p>>].degraded

Init ==
  /\ task = [k \in Tasks |-> Idle]
  /\ free = DetectConcurrency
  /\ queue = <<>>
  /\ cache = <<>>
  /\ console = Idle
  /\ stage = [r \in Requests |-> "new"]
  /\ body = [r \in Requests |-> None]
  /\ answer = [r \in Requests |-> None]
  /\ conn = [r \in Requests |-> "none"]
  /\ known = FALSE
  /\ replay = [r \in Requests |-> FALSE]
  /\ forwarded = {}
  /\ feed = [r \in Requests |-> <<>>]
-----------------------------------------------------------------------------
Answers(r, a) ==
  /\ answer' = [answer EXCEPT ![r] = a]
  /\ stage' = [stage EXCEPT ![r] = "over"]

\* _live_request, then the dry run or the refusal or the forward.
Proceeds(r, b, degraded, placeholders) ==
  /\ feed' = IF b.route.reads THEN [feed EXCEPT ![r] = Append(@, "request")] ELSE feed
  /\ replay' = [replay EXCEPT ![r] = placeholders /\ b.route.restores]
  /\ IF DryRun /\ b.route.reads THEN
       Answers(r, "dryrun") /\ UNCHANGED <<conn, forwarded>>
     ELSE IF FailClosed /\ degraded THEN
       Answers(r, "pii_gate_unavailable") /\ UNCHANGED <<conn, forwarded>>
     ELSE
       /\ stage' = [stage EXCEPT ![r] = "sent"]
       /\ conn' = [conn EXCEPT ![r] = "open"]
       /\ forwarded' = forwarded \cup {r}
       /\ UNCHANGED answer

\* _read_json_body refuses.
Rejects(r, b) ==
  /\ stage[r] = "new" /\ b.route.reads
  /\ body' = [body EXCEPT ![r] = b]
  /\ \/ b.size # "fits" /\ Answers(r, "413")
     \/ b.size = "fits" /\ ~b.parses /\ Answers(r, "400")
  /\ UNCHANGED <<detector, conn, known, replay, forwarded, feed>>

\* Claude Code's own configuration request carries no body: not redacted.
Bootstrap(r, b) ==
  /\ stage[r] = "new" /\ ~b.route.reads
  /\ body' = [body EXCEPT ![r] = b]
  /\ Proceeds(r, b, FALSE, FALSE)
  /\ UNCHANGED <<detector, known>>

Accepts(r, b) ==
  /\ stage[r] = "new" /\ b.route.reads /\ b.size = "fits" /\ b.parses
  /\ body' = [body EXCEPT ![r] = b]

\* The extractor or the lock of the early look at the map raises: refused.
Refuses(r, b) ==
  /\ Accepts(r, b)
  /\ Answers(r, "redaction_failed")
  /\ UNCHANGED <<detector, conn, known, replay, forwarded, feed>>

\* Some field has text: every such field is scanned.
Scans(r, b) ==
  /\ Accepts(r, b) /\ Scannable(b)
  /\ task' = [k \in Tasks |-> IF k[1] = r /\ b.fields[k[2]] # None
                              THEN Wanted(b.fields[k[2]]) ELSE task[k]]
  /\ stage' = [stage EXCEPT ![r] = "scanning"]
  /\ UNCHANGED <<free, queue, cache, console>>
  /\ UNCHANGED <<answer, conn, known, replay, forwarded, feed>>

\* No field has, but the session has placeholders: redact_body goes on.
Sweeps(r, b) ==
  /\ Accepts(r, b) /\ ~Scannable(b) /\ known
  /\ stage' = [stage EXCEPT ![r] = "scanning"]
  /\ UNCHANGED <<detector, answer, conn, known, replay, forwarded, feed>>

\* No field has and there is nothing to sweep: refused if a secret shows
\* anywhere in the body, else forwarded as it is.
Skips(r, b) ==
  /\ Accepts(r, b) /\ ~Scannable(b) /\ ~known
  /\ IF b.hidden
     THEN Answers(r, "redaction_failed") /\ UNCHANGED <<conn, replay, forwarded, feed>>
     ELSE Proceeds(r, b, FALSE, FALSE)
  /\ UNCHANGED <<detector, known>>

Scanned(r) == stage[r] = "scanning" /\ \A p \in Places : task[<<r, p>>].stage \in {"none", "done"}

\* All fields are scanned: mint, sweep, save and forward, without an await.
Redacts(r) ==
  /\ Scanned(r)
  /\ \E minted \in BOOLEAN :
       /\ (\E p \in Places : \E s \in task[<<r, p>>].scans : SeesPerson(s)) => minted
       /\ known' = (known \/ minted)
  /\ Proceeds(r, body[r], Degraded(r), known')
  /\ UNCHANGED <<detector, body>>

\* The map's lock or file fails: refused.
RedactionFails(r) ==
  /\ Scanned(r)
  /\ Answers(r, "redaction_failed")
  /\ UNCHANGED <<detector, body, conn, known, replay, forwarded, feed>>
-----------------------------------------------------------------------------
Closes(r) == conn' = [conn EXCEPT ![r] = "closed"]

\* The events of an answer: tokens it had, tokens left literal in arguments.
Reports(r, events) == feed' = [feed EXCEPT ![r] = @ \o events]
AnswerEvents(r) ==
  IF ~replay[r] THEN {<<>>}
  ELSE {<<>>, <<"response">>}
       \cup (IF "withheld" \in body[r].route.tells THEN {<<"response", "withheld">>} ELSE {})

\* The connection fails, or the answer cannot be read: an error of the route.
UpstreamFails(r) ==
  /\ stage[r] = "sent"
  /\ Answers(r, "error")
  /\ Closes(r)
  /\ UNCHANGED <<detector, body, known, replay, forwarded, feed>>

\* The answer is read whole, reported, and restored where it is JSON.
WholeAnswer(r) ==
  /\ stage[r] = "sent"
  /\ \E events \in AnswerEvents(r) : Reports(r, events)
  /\ Answers(r, IF replay[r] THEN "restored" ELSE "verbatim")
  /\ Closes(r)
  /\ UNCHANGED <<detector, body, known, replay, forwarded>>

\* The answer is a stream of events: its response is handed to the server.
Opens(r) ==
  /\ stage[r] = "sent" /\ body[r].stream
  /\ stage' = [stage EXCEPT ![r] = "opened"]
  /\ answer' = [answer EXCEPT ![r] = "stream"]
  /\ UNCHANGED <<detector, body, conn, known, replay, forwarded, feed>>

\* gen() begins, or never does because the client has left.
Starts(r) ==
  /\ stage[r] = "opened"
  /\ stage' = [stage EXCEPT ![r] = "streaming"]
  /\ UNCHANGED <<detector, body, answer, conn, known, replay, forwarded, feed>>
LeftBefore(r) ==
  /\ stage[r] = "opened"
  /\ stage' = [stage EXCEPT ![r] = "abandoned"]
  /\ UNCHANGED <<detector, body, answer, conn, known, replay, forwarded, feed>>

\* The upstream ends, or fails: _tally_rehydrations reports, then gen().
Drained(r) ==
  /\ stage[r] = "streaming"
  /\ \E events \in AnswerEvents(r) : Reports(r, events)
  /\ Closes(r)
  /\ stage' = [stage EXCEPT ![r] = "over"]
  /\ UNCHANGED <<detector, body, answer, known, replay, forwarded>>

\* [mutant] Only a drained stream is closed.
LeavesOpen(r) ==
  /\ stage[r] = "streaming"
  /\ stage' = [stage EXCEPT ![r] = "left"]
  /\ UNCHANGED <<detector, body, answer, conn, known, replay, forwarded, feed>>

\* [mutant] What the answer had is reported here too.
LeavesReporting(r) ==
  /\ stage[r] = "streaming"
  /\ \E events \in AnswerEvents(r) : Reports(r, events)
  /\ Closes(r)
  /\ stage' = [stage EXCEPT ![r] = "left"]
  /\ UNCHANGED <<detector, body, answer, known, replay, forwarded>>

\* The client leaves: gen() is closed at its yield, and the wrapper it read
\* from only when it is collected.
Leaves(r) ==
  /\ stage[r] = "streaming"
  /\ \E events \in {<<>>} \cup (IF replay[r] /\ "withheld" \in body[r].route.tells
                                THEN {<<"withheld">>} ELSE {}) : Reports(r, events)
  /\ Closes(r)
  /\ stage' = [stage EXCEPT ![r] = "left"]
  /\ UNCHANGED <<detector, body, answer, known, replay, forwarded>>
Collected(r) ==
  /\ stage[r] = "left"
  /\ \E events \in {<<>>} \cup (IF replay[r] THEN {<<"response">>} ELSE {}) : Reports(r, events)
  /\ stage' = [stage EXCEPT ![r] = "over"]
  /\ UNCHANGED <<detector, body, answer, conn, known, replay, forwarded>>
-----------------------------------------------------------------------------
ScanStep(k) == FieldStep(k) /\ UNCHANGED request

Console ==
  /\ \/ \E text \in ConsoleTexts, score \in Scores : ConsoleAsks(text, score)
     \/ ConsoleAnswered
     \/ ConsoleFails
  /\ UNCHANGED request

Arrival(r, b) ==
  \/ Rejects(r, b) \/ Bootstrap(r, b) \/ Refuses(r, b)
  \/ Scans(r, b) \/ Sweeps(r, b) \/ Skips(r, b)
Redaction(r) == Redacts(r) \/ RedactionFails(r)
Upstream(r) == UpstreamFails(r) \/ WholeAnswer(r) \/ Opens(r)
Client(r) == Starts(r) \/ LeftBefore(r) \/ Drained(r) \/ Leaves(r) \/ Collected(r)

Next ==
  \/ \E k \in Tasks : ScanStep(k)
  \/ Console
  \/ \E r \in Requests : \/ \E b \in Bodies[r] : Arrival(r, b)
                         \/ Redaction(r) \/ Upstream(r) \/ Client(r)

Spec == Init /\ [][Next]_vars

\* Every gate call and every upstream call ends, by its timeout if need be.
Fairness ==
  /\ \A k \in Tasks : WF_vars(ScanStep(k))
  /\ \A r \in Requests : WF_vars(Redaction(r)) /\ WF_vars(Upstream(r))
FairSpec == Spec /\ Fairness
-----------------------------------------------------------------------------
RequestTypeOK ==
  /\ stage \in [Requests -> {"new", "scanning", "sent", "opened", "abandoned", "streaming", "left", "over"}]
  /\ body \in [Requests -> (UNION {Bodies[r] : r \in Requests}) \cup {None}]
  /\ answer \in [Requests -> {None, "413", "400", "redaction_failed", "pii_gate_unavailable", "dryrun",
                               "error", "restored", "verbatim", "stream"}]
  /\ conn \in [Requests -> {"none", "open", "closed"}]
  /\ known \in BOOLEAN /\ replay \in [Requests -> BOOLEAN]
  /\ forwarded \subseteq Requests
  /\ feed \in [Requests -> Seq({"request", "response", "withheld"})]

TypeOK == DetectorTypeOK /\ RequestTypeOK

\* A scan that may stand for a whole text: whatever of it is not longer than
\* the overlap was before the one gate in one piece.
Covers(scan, text) ==
  /\ scan.key = <<text, RedactScore>>
  /\ \A a \in 0..Length[text] : \A b \in a + 1..Length[text] :
       b - a <= Overlap =>
         \E w \in scan.windows : w[1] = scan.gate /\ w[2] <= a /\ b <= w[3]

ScannedWhole(scans, text) ==
  \E s \in scans :
    /\ Covers(s, text)
    /\ NameShaped(text) /\ ~SeesPerson(s) => \E c \in scans : Covers(c, Carriers[text])

\* What is forwarded, unless the operator chose to fail open, was scanned: every
\* field with text, whole, by one gate, from the cache or not, and a bare name
\* in which nobody was found once more in its carrier (_degraded_block).
ScannedOrRefused ==
  FailClosed => \A r \in forwarded : \A p \in Places :
    LET text == body[r].fields[p]
    IN  text # None /\ body[r].route.reads => ScannedWhole(task[<<r, p>>].scans, text)

\* The live feed tells of a request before it leaves, once, and of its answer
\* after, once: nothing goes upstream that its operator cannot see.
FeedTellsAll ==
  \A r \in Requests :
    LET At(kind) == {i \in DOMAIN feed[r] : feed[r][i] = kind}
    IN  /\ \A kind \in {"request", "response", "withheld"} : Cardinality(At(kind)) <= 1
        /\ r \in forwarded /\ body[r].route.reads => At("request") = {1}
        /\ At("response") \cup At("withheld") # {} => r \in forwarded /\ At("request") = {1}

\* When the work for a request has ended its upstream connection is closed,
\* whichever side ended it (the finally clauses; a response whose generator
\* never began has none to run).
NoConnectionLeft ==
  \A r \in Requests : stage[r] \in {"left", "over"} => conn[r] # "open"

\* Whoever asks is told something, whatever gates and upstreams fail and
\* however many fields wait for the semaphore.
EveryoneAnswered ==
  \A r \in Requests : stage[r] # "new" ~> answer[r] # None
=============================================================================
