CONSTANTS
  Channels = {"c", "d"}
  Atoms <- AllAtoms
  Labels <- TwoLabels
  Value <- Values
  Escaped <- EscapedValues
  Pieces <- AllPieces
  MaxDeltas = 3
  None = None
  Scenarios <- AllScenarios
SPECIFICATION Spec
INVARIANTS TextExact ArgumentsExact SecretsInert SnapshotAgrees
CHECK_DEADLOCK FALSE
