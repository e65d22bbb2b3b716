CONSTANTS
  r1 = r1  r2 = r2
  Requests = {r1, r2}
  Places = {1, 2}
  Texts <- AllTexts
  Length <- Lengths
  Spaces <- SpaceSets
  Carriers <- CarrierOf
  Persons <- Found
  ChunkSize = 5
  Overlap = 2
  CacheMax = 2
  DetectConcurrency = 1
  HasFallback = TRUE
  ConsoleTexts = {"long"}
  Scores = {50, 60}
  None = None
  Bodies <- BodiesOf
  FailClosed = TRUE
  DryRun = FALSE
SPECIFICATION FairSpec
INVARIANTS ScannedOrRefused FeedTellsAll NoConnectionLeft
PROPERTIES EveryoneAnswered
CHECK_DEADLOCK FALSE
