SPECIFICATION Spec
CONSTANTS
  Runs = {b1, b2}
  Ids = {i1, i2}
  Files = {f1, f2}
  MaxEpoch = 2
  Restores = {r1, r2}
  KeyRuns = {k1, k2}
  Logins = {l1, l2}
  None = None
INVARIANTS
  VerifiedPairMatches
  RecoveredKeysOpen
  OkMeansRestored
  LoginsMeanRestored
  KeysNeverMixed
