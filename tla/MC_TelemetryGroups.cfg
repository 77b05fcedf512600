SPECIFICATION Spec
CONSTANTS
  Reqs = {r1}
  Methods <- MCMethods
  Paths <- MCPaths
  Codes <- MCCodes
  Parents <- MCParents
  Settings <- MCSettings
  MaxCalls = 2
  QueueSize = 1
  NoStatus = NoStatus
INVARIANT RawNeverWritten
