CONSTANTS
  Empty = Empty
  Malformed = Malformed
  HostPrefixed = {"__Host-session"}
  Bases <- MCBases
  Edits <- MCEdits
  Exports <- MCExports
  Secrets <- MCSecrets
  Damages <- MCDamages
  Tunnel <- MCTunnel
  HostFiles <- MCHostFiles
  NonDNS = {"my_host"}
  MaxEdits = 2
SPECIFICATION Spec
INVARIANTS
  PreflightCovers
  FilterIsComplete
  PoliciesAreValid
  ValidatedIsWhatRuns
