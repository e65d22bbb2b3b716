------------------------- MODULE PlaceholderText -------------------------
(***************************************************************************)
(* The text helpers the three protocol adapters share: the substitution of *)
(* placeholders by values (rehydrate_text, rehydrate_json_string) and the  *)
(* split of a growing text into a part that may be shown and a tail that   *)
(* may be the beginning of a placeholder (split_safe).                     *)
(*                                                                         *)
(* A text is a sequence of atoms: "<", ">", the labels, which stand for    *)
(* runs of the characters a placeholder may have inside, and any other.    *)
(* The placeholder of label l is <<"<", l, ">">>.                          *)
(***************************************************************************)
EXTENDS Naturals, Sequences, ToolArgPolicy

CONSTANTS
  Atoms,    \* what texts are made of
  Labels,   \* atoms a placeholder has between its brackets
  Value,    \* the value each label's placeholder stands for
  Escaped   \* that value as it is written inside a JSON string

ASSUME AtomAssumption ==
  /\ Labels \subseteq Atoms \ {"<", ">"} /\ {"<", ">"} \subseteq Atoms
  /\ Value \in [Labels -> Atoms] /\ Escaped \in [Labels -> Atoms]

\* A value is text, no bracket and no label.
ASSUME ValueAssumption ==
  \A l \in Labels : {Value[l], Escaped[l]} \cap (Labels \cup {"<", ">"}) = {}

Token(l) == <<"<", l, ">">>

\* The labels whose placeholder occurs in s.
TokensIn(s) ==
  {l \in Labels : \E i \in DOMAIN s : i + 2 <= Len(s) /\ SubSeq(s, i, i + 2) = Token(l)}

TokenAt(s, i, replay) ==
  i + 2 <= Len(s) /\ \E l \in DOMAIN replay : SubSeq(s, i, i + 2) = Token(l)

\* What each suffix of s becomes when the placeholders that replay knows become
\* values, in one pass.
Suffixes(s, replay, render) ==
  LET from[i \in 1..Len(s) + 1] ==
        IF i > Len(s) THEN <<>>
        ELSE IF TokenAt(s, i, replay) THEN <<render[s[i + 1]]>> \o from[i + 3]
             ELSE <<s[i]>> \o from[i + 1]
  IN  from

Substituted(s, replay, render) == Suffixes(s, replay, render)[1]

RehydrateText(s, replay) == Substituted(s, replay, Value)

\* Arguments that parse are written anew, with their values escaped.
RehydrateJsonString(s, replay, strict, parses) ==
  Substituted(s, ToolArgReplay(replay, strict), IF parses THEN Escaped ELSE Value)

\* [mutant] Only a "<" at the very end is held.
OnlyBracketHeld(s) == IF s # <<>> /\ s[Len(s)] = "<" THEN <<"<">> ELSE <<>>

\* [mutant] Everything after the last "<" is held, whatever it is.
AnyTailHeld(s) ==
  LET from == {i \in DOMAIN s : s[i] = "<" /\ \A j \in i + 1..Len(s) : s[j] # "<"}
  IN  IF from = {} THEN <<>> ELSE SubSeq(s, CHOOSE i \in from : TRUE, Len(s))

\* The tail from the last "<", when it may still become a placeholder.
HeldTail(s) ==
  LET from == {i \in DOMAIN s : s[i] = "<" /\ \A j \in i + 1..Len(s) : s[j] \in Labels}
  IN  IF from = {} THEN <<>> ELSE SubSeq(s, CHOOSE i \in from : TRUE, Len(s))

SafePrefix(s) == SubSeq(s, 1, Len(s) - Len(HeldTail(s)))
=============================================================================
