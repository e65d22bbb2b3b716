CONSTANTS
  Procs = {p, q}
  Texts <- AllTexts
  Worlds <- Sessions
  Label <- Labels
  FloorWords = {"card"}
  CodingPasses = {"organization"}
  MaxGen = 2
  MaxEdits = 2
  MaxRequests = 3
  None = None
SPECIFICATION Spec
INVARIANTS AsConfigured BytesStable Rehydratable FloorMasked
PROPERTIES NoNewExposure
CHECK_DEADLOCK FALSE
