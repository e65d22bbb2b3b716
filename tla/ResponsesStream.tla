------------------------- MODULE ResponsesStream -------------------------
(***************************************************************************)
(* transform_responses_event of appliance/responses_adapter.py: the typed  *)
(* events of a streamed response.  A channel is the text of an output      *)
(* part, a display text of another family, the code of an interpreter      *)
(* call, or the arguments of a call.                                       *)
(***************************************************************************)
EXTENDS StreamState

Delta(c, p) ==
  /\ api = "responses" /\ Running(c)
  /\ IF kind[c] \in TextKinds THEN Incremental(c, p) ELSE Buffered(c, p)

\* [mutant] The final copy of a code is restored as a text to be read.
WholeDisplayed(c, text) ==
  IF kind[c] \in TextKinds THEN RehydrateText(text, replay) ELSE Arguments(c, text)

\* The blanket walk over the copy of the text that a final event carries.
Whole(c, text) ==
  IF kind[c] \in TextKinds THEN RehydrateText(text, ReplayOf(c)) ELSE Arguments(c, text)

\* The done event of a text carries it whole; the held tail goes before it.
TextDone(c) ==
  /\ api = "responses" /\ Running(c) /\ kind[c] \in TextKinds
  /\ phase' = [phase EXCEPT ![c] = "closed"]
  /\ Emit(c, Rest(c, <<>>))
  /\ carry' = [carry EXCEPT ![c] = <<>>]
  /\ snapshot' = [snapshot EXCEPT ![c] = Whole(c, sent[c])]
  /\ UNCHANGED <<scenario, sent, deltas, acc, reported, over>>

\* [mutant] Arguments that came in no delta are forgotten.
OnlyBuffered(c) ==
  /\ api = "responses" /\ Running(c) /\ kind[c] \in ArgumentKinds
  /\ \/ /\ UNCHANGED <<sent, deltas>>
        /\ Emit(c, Rest(c, <<>>))
     \/ \E p \in Pieces : acc[c] = <<>> /\ Sends(c, p) /\ UNCHANGED got
  /\ phase' = [phase EXCEPT ![c] = "closed"]
  /\ acc' = [acc EXCEPT ![c] = <<>>]
  /\ UNCHANGED <<scenario, carry, snapshot, reported, over>>

\* The done event of arguments: what was buffered or, if nothing was, its own.
ArgumentsDone(c) ==
  /\ api = "responses" /\ Running(c) /\ kind[c] \in ArgumentKinds
  /\ \/ /\ UNCHANGED <<sent, deltas>>
        /\ Emit(c, Rest(c, <<>>))
     \/ \E p \in Pieces :
          /\ acc[c] = <<>>
          /\ Sends(c, p)
          /\ Emit(c, Arguments(c, p))
  /\ phase' = [phase EXCEPT ![c] = "closed"]
  /\ acc' = [acc EXCEPT ![c] = <<>>]
  /\ UNCHANGED <<scenario, carry, snapshot, reported, over>>

\* response.completed, incomplete or failed: the answer as a whole.
Completed ==
  /\ api = "responses" /\ over = "no"
  /\ over' = "done"
  /\ snapshot' = [c \in Channels |-> Whole(c, sent[c])]
  /\ UNCHANGED <<scenario, sent, deltas, phase, carry, acc, got, reported>>

ResponsesNext ==
  \/ \E c \in Channels, p \in Pieces : Delta(c, p)
  \/ \E c \in Channels : TextDone(c) \/ ArgumentsDone(c)
  \/ Completed
=============================================================================
