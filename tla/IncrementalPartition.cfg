SPECIFICATION Spec
CONSTANTS
  Candidates <- Proposed
  Select <- StrictestDisjoint
  DetectorFails <- Rejected
  Types <- DetectedTypes
  PlaceholderText <- NumberedPlaceholder
  Hosts <- InstalledHosts
  EchoText <- EchoedText
  Symbols <- AllSymbols
  LF = "n"
  CR = "r"
  MaxInputBytes = 6
  MaxTokenBytes = 2
  MaxMultilineBytes = 4
  MaxBufferedBytes = 5
  Lookaround = 1
  CarriesId <- carries_aws_access_key_id
  OpenConstruct <- has_open_contextual_assignment
  OpenAwsCandidate <- has_open_aws_secret_candidate_line
  Continues <- continues_previous_line
  SeesBegin <- HasBegin
  BlockOpen <- HasOpenBlock
  Chunks <- AllChunks
  MaxLength = 5
  Alphabets = {{"n", "x", "B", "E"}}
  Policies = {"redact"}
  Answers = {"numbered"}
INVARIANTS
  AcceptanceIgnoresPartition
