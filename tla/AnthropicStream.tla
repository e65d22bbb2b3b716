------------------------- MODULE AnthropicStream -------------------------
(***************************************************************************)
(* _transform_event of appliance/egress_proxy.py: the events of a streamed *)
(* Anthropic message, whose channels are its content blocks.               *)
(***************************************************************************)
EXTENDS StreamState

BlockStart(c) ==
  /\ api = "anthropic" /\ over = "no" /\ phase[c] = "new"
  /\ phase' = [phase EXCEPT ![c] = "open"]
  /\ carry' = [carry EXCEPT ![c] = IF kind[c] = "text" THEN <<>> ELSE @]
  /\ acc' = [acc EXCEPT ![c] = IF kind[c] = "tool_use" THEN <<>> ELSE @]
  /\ UNCHANGED <<scenario, sent, deltas, got, snapshot, reported, over>>

TextDelta(c, p) ==
  /\ api = "anthropic" /\ Running(c) /\ kind[c] = "text"
  /\ Incremental(c, p)

\* Any call block streams its input so, a server's tool call too.
InputJsonDelta(c, p) ==
  /\ api = "anthropic" /\ Running(c) /\ kind[c] \in {"tool_use", "server_tool_use"}
  /\ Buffered(c, p)

\* A thinking block is signed: it passes as it came.
ThinkingDelta(c, p) ==
  /\ api = "anthropic" /\ Running(c) /\ kind[c] = "thinking"
  /\ Sends(c, p)
  /\ Emit(c, p)
  /\ UNCHANGED <<scenario, phase, carry, acc, snapshot, reported, over>>

\* [mutant] Every withheld label is reported, present or not.
AllWithheld(text) == DOMAIN replay \ DOMAIN ToolReplay

\* Placeholders the arguments still show because they are withheld.
Withheld(text) ==
  {l \in DOMAIN replay \ DOMAIN ToolReplay : l \in TokensIn(text)}

BlockStop(c) ==
  /\ api = "anthropic" /\ Running(c)
  /\ phase' = [phase EXCEPT ![c] = "closed"]
  /\ IF kind[c] \in {"text", "tool_use"} THEN Emit(c, Rest(c, <<>>)) ELSE UNCHANGED got
  /\ carry' = [carry EXCEPT ![c] = IF kind[c] = "text" THEN <<>> ELSE @]
  /\ acc' = [acc EXCEPT ![c] = IF kind[c] = "tool_use" THEN <<>> ELSE @]
  /\ reported' = IF kind[c] = "tool_use" THEN reported \cup Withheld(Rest(c, <<>>)) ELSE reported
  /\ UNCHANGED <<scenario, sent, deltas, snapshot, over>>

MessageStop ==
  /\ api = "anthropic" /\ over = "no" /\ \A c \in Channels : phase[c] # "open"
  /\ over' = "done"
  /\ UNCHANGED <<scenario, sent, deltas, phase, carry, acc, got, snapshot, reported>>

AnthropicNext ==
  \/ \E c \in Channels : BlockStart(c) \/ BlockStop(c)
  \/ \E c \in Channels, p \in Pieces :
       TextDelta(c, p) \/ InputJsonDelta(c, p) \/ ThinkingDelta(c, p)
  \/ MessageStop
=============================================================================
