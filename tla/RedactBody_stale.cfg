CONSTANTS
  Procs = {p, q}
  Texts <- AllTexts
  Worlds <- Renewed
  Label <- Labels
  FloorWords = {"card"}
  CodingPasses = {"organization"}
  MaxGen = 1
  MaxEdits = 1
  MaxRequests = 2
  None = None
SPECIFICATION Spec
INVARIANTS ReplaysMasked
CHECK_DEADLOCK FALSE
