---------------------------- MODULE MCEntityMap ----------------------------
EXTENDS EntityMap, TLC

CONSTANTS jane, JANE, rob, ann

\* Three unrelated names, each its own casefold.
ThreeNames == {jane, rob, ann}
NameSymmetry == Permutations(ThreeNames)
NoCase == [v \in Values |-> v]

\* One name in two spellings, and an unrelated one.
CaseFamily == {jane, JANE, rob}
JaneCase == [v \in Values |-> IF v = JANE THEN jane ELSE v]
=============================================================================
