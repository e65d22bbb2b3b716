--------------------------- MODULE StreamState ---------------------------
(***************************************************************************)
(* What a streamed answer consists of in all three protocols: channels     *)
(* (content blocks, choices' fields, output items) whose text the upstream *)
(* sends in pieces cut anywhere, and what the proxy keeps of each of them  *)
(* between events.                                                         *)
(***************************************************************************)
EXTENDS PlaceholderText

CONSTANTS
  Channels,   \* the channels of one stream
  Pieces,     \* bound: the pieces of text an event may carry
  MaxDeltas,  \* bound: delta events of a stream
  None        \* no snapshot

ASSUME PieceAssumption == Pieces \subseteq Seq(Atoms)

VARIABLES
  api,      \* the protocol of this stream
  kind,     \* what each channel carries
  choice,   \* the choice a channel of a chat completion belongs to
  json,     \* whether the whole text of a channel parses as JSON
  replay,   \* the placeholders of the request and what they stand for
  strict,   \* GATEWAY_TOOL_ARG_STRICT
  sent,     \* history: the text the upstream has sent on each channel
  deltas,   \* delta events so far
  phase,    \* new, open or closed
  carry,    \* the held tails
  acc,      \* the buffered arguments
  got,      \* the text the client has received on each channel
  snapshot, \* the whole text a final event gave the client, or None
  reported, \* labels reported to the live feed as withheld
  over      \* whether the stream runs, was ended by the upstream, or was cut

scenario == <<api, kind, choice, json, replay, strict>>
vars == <<scenario, sent, deltas, phase, carry, acc, got, snapshot, reported, over>>

TextKinds == {"text", "content", "refusal", "output_text", "aux", "code"}
\* What is buffered and given out at its end.  The input of server_tool_use is
\* buffered too, and given out never.
ArgumentKinds == {"tool_use", "tool_calls", "function_call", "arguments"}

ToolReplay == ToolArgReplay(replay, strict)

\* [mutant] Code is restored as a text to be read.
DisplayReplay(c) == replay

\* Code is executed: its text is restored as an argument's is.
ReplayOf(c) == IF kind[c] = "code" THEN ToolReplay ELSE replay

Arguments(c, text) == RehydrateJsonString(text, replay, strict, json[c])

\* What is left to give the client when channel c ends with text p.
Rest(c, p) ==
  IF kind[c] \in TextKinds THEN RehydrateText(carry[c] \o p, ReplayOf(c))
  ELSE Arguments(c, acc[c] \o p)

Running(c) == over = "no" /\ phase[c] = "open"

Sends(c, p) ==
  /\ deltas < MaxDeltas
  /\ deltas' = deltas + 1
  /\ sent' = [sent EXCEPT ![c] = @ \o p]

Emit(c, text) == got' = [got EXCEPT ![c] = @ \o text]

\* A text delta: the safe part goes on, the tail is kept for the next event.
Incremental(c, p) ==
  /\ Sends(c, p)
  /\ LET text == carry[c] \o p
     IN  /\ Emit(c, RehydrateText(SafePrefix(text), ReplayOf(c)))
         /\ carry' = [carry EXCEPT ![c] = HeldTail(text)]
  /\ UNCHANGED <<scenario, phase, acc, snapshot, reported, over>>

\* An argument delta: nothing goes on.
Buffered(c, p) ==
  /\ Sends(c, p)
  /\ acc' = [acc EXCEPT ![c] = @ \o p]
  /\ UNCHANGED <<scenario, phase, carry, got, snapshot, reported, over>>

\* The upstream closes the connection, whatever is held; nothing is flushed.
EndOfStream ==
  /\ over = "no"
  /\ over' = "cut"
  /\ UNCHANGED <<scenario, sent, deltas, phase, carry, acc, got, snapshot, reported>>
=============================================================================
