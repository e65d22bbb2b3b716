CONSTANTS
  Consoles = {panel, page}
  Pages = {page}
  RingMax = 2
  QueueMax = 2
  RowsMax = 3
  Editors = {panel, page}
  PageEditors = {page}
  Terms = {term}
  panel = panel  page = page  term = term
  None = None  Nothing = Nothing  NoRecord = NoRecord  NoDoc = NoDoc
  Fold <- MCFold
  Short <- MCShort
  NameLike <- MCNames
  FloorLabels = {"email"}
  CaseSensitive = {"person"}
  Propagated = {"person"}
  Text <- MCText
  Floor <- MCFloor
  Neural <- MCNeural
  Batches <- MCBatches
  Boxes <- MCBoxes
  Budgets <- ConsoleBudgets
  Works <- WorkBudgets
  Uses <- MCUses
SPECIFICATION ShellSpec
INVARIANTS NothingSkipped PageInOrder SavedIsEnforced SessionsApart GateHolds KnownValuesSwept RestoreRight
PROPERTIES EventsShown
CHECK_DEADLOCK FALSE
