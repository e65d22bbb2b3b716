CONSTANTS
  Bodies <- MCBodies
  Maps <- MCMaps
  ReplyShapes <- MCReplyShapes
  Detects <- MCDetects
  Secrets = {"sk"}
  Short = {"834", "t", "sk"}
  Folded <- MCFolded
SPECIFICATION Spec
INVARIANTS NothingRaw StructureKept RoundTrip
CHECK_DEADLOCK FALSE
