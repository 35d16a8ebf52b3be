SPECIFICATION MCSpec
CHECK_DEADLOCK FALSE
CONSTANTS
  Threads = {t1, t2}
  t1 = t1
  t2 = t2
  MaxCalls = 4
  Selections = {Off, Email}
  Off = Off
  Email = Email
  Rulesets = {RulesA, Broken}
  Malformed = {Broken}
  Broken = Broken
  RulesA = RulesA
  BuiltIn = BuiltIn
  Requests <- MCRequests
  None = None
  Full = Full
  Common = Common
  Github = Github
  Jwt = Jwt
  Profiles = {Full, Common}
  Included <- MCIncluded
  MaxDepth = 1
  Tested = {"python"}
  Inputs <- MCInputs
  MaxChunk = 1
  Hosts = {"cli"}
  UnitKinds = {"utf16"}
  BufferLimits = {6}
  MaxChars = 1
  MaxAppend = 1
  CountMax = 1
PROPERTIES
  LazyRegistryIsFixed
