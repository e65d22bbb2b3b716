-------------------------- MODULE ToolArgPolicy --------------------------
(***************************************************************************)
(* appliance/tool_arg_policy.py: which placeholders stay literal in the    *)
(* arguments of a tool call, which the client executes, and which parts of *)
(* an answer are such arguments.                                           *)
(*                                                                         *)
(* A replay map is a function from the labels of its placeholders to       *)
(* entries: the class of the label and the shape of the value.             *)
(***************************************************************************)
EXTENDS Functions

Classes == {"credential", "account", "ref", "plain"}
Shapes == {"text", "uuid", "path"}
Entries == [class : Classes, shape : Shapes]

\* FLOOR_LABELS, by the canonical key of the label
FloorClasses == {"credential", "account"}

\* identity labels, whose older placeholders may hold a UUID or a path
IdentityClasses == {"account", "ref"}

IsWithheldPlaceholder(entry) ==
  /\ entry.class \in FloorClasses \cup {"ref"}
  /\ ~(entry.class \in IdentityClasses /\ entry.shape \in {"uuid", "path"})

ToolArgReplay(replay, strict) ==
  Restrict(replay, {l \in DOMAIN replay : ~strict /\ ~IsWithheldPlaceholder(replay[l])})
=============================================================================
