SPECIFICATION MCSpec
CHECK_DEADLOCK FALSE
CONSTANTS
  Threads = {t1, t2}
  t1 = t1
  t2 = t2
  MaxCalls = 4
  Selections = {Off, Email}
  Off = Off
  Email = Email
  Rulesets = {RulesA, Broken}
  Malformed = {Broken}
  Broken = Broken
  RulesA = RulesA
  BuiltIn = BuiltIn
  Requests <- MCRequests
  None = None
  Full = Full
  Common = Common
  Github = Github
  Jwt = Jwt
  Profiles = {Full, Common}
  Included <- MCIncluded
  MaxDepth = 1
  Tested = {"python", "addon", "stream", "offsets"}
  Inputs <- MCInputs
  MaxChunk = 4
  Hosts = {"cli", "node", "web"}
  UnitKinds = {"code points", "utf16"}
  BufferLimits = {6}
  MaxChars = 5
  MaxAppend = 4
  CountMax = 3
INVARIANTS
  CacheIsCurrent
  ServedAsConfigured
  NeverBorrowedTwice
  CellsAgree
  RunsAsAsked
  DeliveredInOrder
  HostEndsTheSession
  OffsetsAreExact
PROPERTIES
  EveryCallReturns
  SettledForGood
  StreamEnds
