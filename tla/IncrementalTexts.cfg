SPECIFICATION Spec
CONSTANTS
  Candidates <- Proposed
  Select <- StrictestDisjoint
  DetectorFails <- Rejected
  Types <- DetectedTypes
  PlaceholderText <- NumberedPlaceholder
  Hosts <- InstalledHosts
  EchoText <- EchoedText
  Symbols <- AllSymbols
  LF = "n"
  CR = "r"
  MaxInputBytes = 7
  MaxTokenBytes = 5
  MaxMultilineBytes = 6
  MaxBufferedBytes = 7
  Lookaround = 1
  CarriesId <- carries_aws_access_key_id
  OpenConstruct <- has_open_contextual_assignment
  OpenAwsCandidate <- has_open_aws_secret_candidate_line
  Continues <- continues_previous_line
  SeesBegin <- HasBegin
  BlockOpen <- HasOpenBlock
  Chunks <- AllChunks
  MaxLength = 7
  Alphabets = {{"n", "r", "I", "S"}, {"n", "N", "=", "V"}, {"n", "B", "E", "F"}, {"n", "B", "E", "I"}}
  Policies = {"mixed"}
  Answers = {"numbered"}
INVARIANTS
  TypeOK
  RetainedIsSuffix
  OneLineWaitsForAnId
  HoldsOnlyOpenText
  TerminalHoldsNothing
PROPERTIES
  ImplementsAbstract
