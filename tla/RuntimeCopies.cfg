SPECIFICATION Spec
CONSTANTS
  Calls = {c1, c2, c3}
  Options <- MCOptions
  Rewrites <- MCRewrites
  Artifacts = {Default, Pii, Silent}
  Loads <- MCLoads
  Reports = {Default, Pii}
  PiiRuntime = {Pii}
  None = None
  Default = Default
  Pii = Pii
  Silent = Silent
  c1 = c1
  c2 = c2
  c3 = c3
CHECK_DEADLOCK FALSE
PROPERTY OptionsAreCopiedAtCallTime
