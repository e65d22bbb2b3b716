----------------------------- MODULE MintedMap -----------------------------
(***************************************************************************)
(* The part of a session's map that concurrent requests can spoil for each *)
(* other: when it was created, the number each value has (0: none yet) and *)
(* the counter.  One label, and values that differ by more than case:      *)
(* EntityMap models what one instance does in full.                        *)
(***************************************************************************)
EXTENDS Naturals

CONSTANTS
  Values,    \* values to mint placeholders for
  Instants   \* what time.time() can say when a map is created

Maps == [created : Instants, ids : [Values -> Nat], count : Nat]

NewMap(created) == [created |-> created, ids |-> [v \in Values |-> 0], count |-> 0]

\* placeholder_for: the map afterwards.
Minted(map, v) ==
  IF map.ids[v] # 0 THEN map
  ELSE [map EXCEPT !.ids[v] = map.count + 1, !.count = map.count + 1]

\* placeholder_for: what it returns, and in which life of the map.
Answer(map, v) == [created |-> map.created, value |-> v, num |-> Minted(map, v).ids[v]]

Answers == [created : Instants, value : Values, num : Nat]
=============================================================================
