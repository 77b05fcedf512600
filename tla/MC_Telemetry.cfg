SPECIFICATION Spec
CONSTANTS
  Reqs = {r1, r2}
  Methods <- MCMethods
  Paths <- MCPaths
  Codes <- MCCodes
  Parents <- MCParents
  Settings <- MCSettings
  MaxCalls = 2
  QueueSize = 1
  NoStatus = NoStatus
SYMMETRY MCSymmetry
INVARIANTS
  RecordedAsServed
  NoSpanIsForgotten
  StopIsReported
  OnlyGroupsEscape
