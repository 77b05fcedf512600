SPECIFICATION Spec
CONSTANTS
  RoleSteps = 2
  MaxFaults = 1
  Runs = {r1, r2}
  Changes = {c1, c2}
  None = None
SYMMETRY MCSymmetry
INVARIANTS
  OnlyInitializedIsMigrated
  ServedAfterMigrated
  EvidenceIsTruthful
