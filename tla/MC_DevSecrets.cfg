SPECIFICATION Spec
CONSTANTS
  Runs = {r1, r2, r3}
  NoRun = NoRun
  Files <- MCFiles
  WriteOrder <- MCWriteOrder
  RenameOrder <- MCRenameOrder
  RedisPassword = "redis_password"
  RedisURL = "redis_url"
INVARIANTS
  OneRunsInventory
  SuccessMeansComplete
  NoTempLeft
PROPERTY SomeRunSucceeds
