CONSTANTS
  jane = jane
  JANE = JANE
  rob = rob
  ann = ann
  Values <- ThreeNames
  Fold <- NoCase
  Labels = {"PERSON", "EMAIL"}
  CaseSensitive = {"PERSON"}
  MaxEntities = 2
  MaxTomb = 2
  SaveMayFail = FALSE
  MaxNum = 2
  MaxGen = 1
SPECIFICATION Spec
SYMMETRY NameSymmetry
INVARIANT SamePlaceholder
CHECK_DEADLOCK FALSE
