CONSTANTS
  jane = jane
  JANE = JANE
  rob = rob
  ann = ann
  Values <- CaseFamily
  Fold <- JaneCase
  Labels = {"PERSON", "EMAIL"}
  CaseSensitive = {"PERSON"}
  MaxEntities = 2
  MaxTomb = 0
  SaveMayFail = FALSE
  MaxNum = 2
  MaxGen = 1
SPECIFICATION Spec
INVARIANTS NeverWrongValue NeverReissued ReturnedIsRestored
CHECK_DEADLOCK FALSE
