-------------------------- MODULE ResponseStream --------------------------
(***************************************************************************)
(* The streamed answer of one request, in whichever protocol the client    *)
(* speaks, and what the client may rely on: the pieces it receives add up  *)
(* to the restored text, however the upstream cuts its events and          *)
(* interleaves its channels, and no secret reaches what it executes.       *)
(***************************************************************************)
EXTENDS AnthropicStream, ChatStream, ResponsesStream

CONSTANT Scenarios   \* bound: the streams considered

\* What the channels of each protocol may carry.
KindsOf(a) ==
  CASE a = "anthropic" -> {"text", "thinking", "tool_use", "server_tool_use"}
    [] a = "chat" -> {"content", "refusal", "tool_calls", "function_call"}
    [] a = "responses" -> {"output_text", "aux", "code", "arguments"}

ASSUME ScenarioAssumption ==
  \A s \in Scenarios :
    /\ s.api \in {"anthropic", "chat", "responses"}
    /\ s.kind \in [Channels -> KindsOf(s.api)]
    /\ DOMAIN s.replay \subseteq Labels

\* The upstream was not given the values of a withheld class: it sends none,
\* and none is also the value of a label that is restored in what is executed.
ASSUME SecretAssumption ==
  \A s \in Scenarios : \A l \in DOMAIN s.replay :
    s.strict \/ IsWithheldPlaceholder(s.replay[l]) =>
      \A v \in {Value[l], Escaped[l]} :
        /\ \A p \in Pieces : \A i \in 1..Len(p) : p[i] # v
        /\ \A k \in DOMAIN s.replay :
             ~(s.strict \/ IsWithheldPlaceholder(s.replay[k])) => v \notin {Value[k], Escaped[k]}

Init ==
  /\ \E s \in Scenarios :
       /\ api = s.api /\ kind = s.kind /\ choice = s.choice
       /\ replay = s.replay /\ strict = s.strict
  /\ json \in [Channels -> BOOLEAN]
  /\ \A c \in Channels : kind[c] \notin ArgumentKinds => json[c]
  /\ sent = [c \in Channels |-> <<>>]
  /\ deltas = 0
  /\ phase = [c \in Channels |-> IF api = "anthropic" THEN "new" ELSE "open"]
  /\ carry = [c \in Channels |-> <<>>]
  /\ acc = [c \in Channels |-> <<>>]
  /\ got = [c \in Channels |-> <<>>]
  /\ snapshot = [c \in Channels |-> None]
  /\ reported = {}
  /\ over = "no"

Next == AnthropicNext \/ ChatNext \/ ResponsesNext \/ EndOfStream

Spec == Init /\ [][Next]_vars
-----------------------------------------------------------------------------
\* What the client has of a text, with the held tail, is the restored text of
\* all that was sent (_transform_event and its two mirrors): no piece is lost,
\* doubled, shown out of order or shown before its placeholder is whole,
\* wherever the upstream cuts it.  The held tail is at most the beginning of one
\* placeholder (split_safe), and gone when the text ends, so a stream that is
\* cut loses no value and no sentence.
TextExact ==
  \A c \in Channels : kind[c] \in TextKinds =>
    /\ got[c] \o carry[c] = RehydrateText(sent[c], ReplayOf(c))
    /\ carry[c] # <<>> =>
         phase[c] # "closed" /\ carry[c][1] = "<" /\ \A i \in 2..Len(carry[c]) : carry[c][i] \in Labels

\* The arguments of a call that the client executes reach it once, whole, when
\* the call ends, restored as JSON where they are JSON (rehydrate_json_string):
\* the client never acts on a part of them, or on a placeholder it could not
\* resolve.  The input of a call that the server executes (server_tool_use) is
\* buffered like them, but not flushed at the end of its block: nothing of it
\* reaches the client, then or later (README, section 6).
ArgumentsExact ==
  \A c \in Channels :
    /\ kind[c] \in ArgumentKinds =>
         got[c] = IF phase[c] = "closed" THEN Arguments(c, sent[c]) ELSE <<>>
    /\ kind[c] = "server_tool_use" => got[c] = <<>>

\* No value of a withheld class is in what the client executes, arguments or
\* interpreter code, in a delta or in a final copy (tool_arg_policy), and of an
\* Anthropic stream the live feed is told which placeholders were left literal
\* in the arguments of its finished calls, and no others (_withheld_tokens).
SecretsInert ==
  /\ \A c \in Channels : kind[c] \in ArgumentKinds \cup {"code", "server_tool_use"} =>
       \A l \in DOMAIN replay : strict \/ IsWithheldPlaceholder(replay[l]) =>
         \A text \in {got[c], snapshot[c]} \ {None} :
           \A i \in DOMAIN text : text[i] \notin {Value[l], Escaped[l]}
  /\ api = "anthropic" =>
       reported = UNION {TokensIn(got[c]) \cap DOMAIN replay :
                           c \in {d \in Channels : kind[d] = "tool_use" /\ phase[d] = "closed"}}

\* The increments of a finished output add up to the copy of it that the
\* final events carry (response.*.done, response.completed): a client that
\* reads deltas and one that reads the final answer see the same.
SnapshotAgrees ==
  \A c \in Channels : phase[c] = "closed" /\ snapshot[c] # None => got[c] = snapshot[c]
=============================================================================
