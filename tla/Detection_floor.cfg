SPECIFICATION Spec
CONSTANTS
  Digits <- MCDigits
  Lower <- MCLower
  Shapes <- MCShapes
  AsciiForm <- MCAsciiForm
  BrowserForm <- MCBrowserForm
  Invisible <- MCInvisible
  SinCues = {"NAS"}
  DobCues = {"dob"}
  IdCues = {"NAS", "compte"}
  NeqCues = {"NEQ"}
  Programs = {"RT"}
  Capitalized <- MCCapitalized
  Initials = {"M"}
  DottedInitials = {}
  Particles = {"de"}
  Roles = {"support"}
  Stopwords = {"vu"}
  Honorifics = {}
  HeaderCues = {"From:"}
  LedgerCues = {"VIR INTERAC"}
  SlashCues = {"interac /"}
  SecretCues <- MCSecretCues
  ZipCues = {"zip"}
  NumberCues <- MCNumberCues
  Secrets <- MCSecrets
  LocalTexts <- MCLocalTexts
  Size = 15
  Overlap = 5
  FloorLabels <- MCFloorLabels
  RepeatLabels = {"person"}
  StatusWords = {"solde"}
  Short = {"M", "vu", "de", "RT", "NAS", "Roy", "IER", "046", "454", "286", "1"}
  Texts <- MCTexts
  Tags <- MCTags
  Tagged <- MCTagged
  Scores = {50, 80}
  Headers = {"absent", "token", "wrong"}
  NoHeader = "absent"
  Token = "token"
  NoToken = "none"
  Hosts = {"127.0.0.1", "0.0.0.0"}
  Loopback = "127.0.0.1"
  CaseSensitive = {"person"}
  Placeholder <- MCPlaceholder
INVARIANTS
  NumbersFound
  PortInStep
  NumbersAnswered
  NoRepeatLeft
  RoundTrips
CHECK_DEADLOCK FALSE
