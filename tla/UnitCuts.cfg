SPECIFICATION MCSpec
CHECK_DEADLOCK FALSE
CONSTANTS
  Tested = {"unit"}
  Shapes <- AllShapes
  MaxCandidates = 4
  Boundaries = {0, 3}
  WidthCap = 100
  OrderCap = 100
  Width = 5
  LongestSpan = 3
  BuiltIns <- MCBuiltIns
  Texts <- MCTexts
  Asked <- MCAsked
  Buffers = {b1, b2}
  Lengths = {2, 3}
  Starts = {0, 1}
  b1 = b1
  b2 = b2
  MaxSlots = 3
  ExactFrom = 3
  MaxCustom = 1
  MaxDepth = 1
  Invisible = {"z"}
  DashRun = 2
  ProbeBytes = 2
  Labels <- MCLabels
  Appends <- SharedDashes
  NetrcLines = 1
  AuthorizationRows = 1
  CliTableRows = 2
  PropertyLines = 2
  SiblingLines = 2
  BlockLines = 2
  JsonWindow = 3
  RequestWindow = 4
  MaxWindowBytes = 5
  WindowBytes = 8
  Carriers <- MCCarriers
  Blocking = {"private_key"}
  Redacting = {"github"}
  Manifest <- MCManifest
  Contexts <- MCContexts
  Requests <- MCRequests
  MaxCompared = 2
  PiiAdapter = "pii"
  Inputs <- MCInputs
  Vocabularies <- MCVocabularies
  FieldDistance = 1
  MaxDistance = 2
  Families <- MCFamilies
  Compositions <- MCCompositions
  None = None
  Nowhere = Nowhere
  Nil = Nil
INVARIANTS
  FindingsIgnoreCuts
