CONSTANTS
  Labels <- AllLabels
  Sticky <- Floor
  IdentityFloor = {"sensitive_account_id"}
  CredFloor = {"password"}
  UuidRelabel = {"sensitive_account_id"}
  CodingPasses = {"organization", "uuid"}
  Certain = 3
  Texts <- AllTexts
  Configs <- Dictionaries
  MaxSpans = 3
  None = None
SPECIFICATION Spec
INVARIANTS MergedExactly FloorKept NothingExposed
CHECK_DEADLOCK FALSE
