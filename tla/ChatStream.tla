---------------------------- MODULE ChatStream ----------------------------
(***************************************************************************)
(* transform_openai_event of appliance/openai_adapter.py: the chunks of a  *)
(* streamed chat completion.  A channel is a field of a choice: its        *)
(* content, its refusal, or the arguments of one of its calls.             *)
(***************************************************************************)
EXTENDS StreamState

ChatDelta(c, p) ==
  /\ api = "chat" /\ Running(c)
  /\ IF kind[c] \in TextKinds THEN Incremental(c, p) ELSE Buffered(c, p)

Flushed(ended, last) ==
  /\ got' = [c \in Channels |-> IF c \in ended THEN got[c] \o Rest(c, last[c]) ELSE got[c]]
  /\ carry' = [c \in Channels |-> IF c \in ended THEN <<>> ELSE carry[c]]
  /\ acc' = [c \in Channels |-> IF c \in ended THEN <<>> ELSE acc[c]]
  /\ phase' = [c \in Channels |-> IF c \in ended THEN "closed" ELSE phase[c]]

OfChoice(i) == {c \in Channels : choice[c] = i /\ phase[c] = "open"}

\* The chunk with the finish reason, alone.
Finish(i) ==
  /\ api = "chat" /\ over = "no" /\ OfChoice(i) # {}
  /\ Flushed(OfChoice(i), [c \in Channels |-> <<>>])
  /\ UNCHANGED <<scenario, sent, deltas, snapshot, reported, over>>

\* The chunk with the finish reason and the last piece of a channel.
FinishWith(c, p) ==
  /\ api = "chat" /\ Running(c)
  /\ Sends(c, p)
  /\ Flushed(OfChoice(choice[c]), [d \in Channels |-> IF d = c THEN p ELSE <<>>])
  /\ UNCHANGED <<scenario, snapshot, reported, over>>

\* [DONE], also from an upstream that gave some choice no finish reason.
Done ==
  /\ api = "chat" /\ over = "no"
  /\ Flushed({c \in Channels : phase[c] = "open"}, [c \in Channels |-> <<>>])
  /\ over' = "done"
  /\ UNCHANGED <<scenario, sent, deltas, snapshot, reported>>

ChatNext ==
  \/ \E c \in Channels, p \in Pieces : ChatDelta(c, p) \/ FinishWith(c, p)
  \/ \E i \in {choice[c] : c \in Channels} : Finish(i)
  \/ Done
=============================================================================
