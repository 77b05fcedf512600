SPECIFICATION Spec
CONSTANTS
  Runs = {r1, r2, r3}
  Revisions = {v1, v2}
  Payloads = {p1, p2}
  None = None
SYMMETRY MCSymmetry
INVARIANTS
  CurrentResolves
  UnkilledRunsFailOnlyOverAChange
  OnePayloadPerRevision
PROPERTIES
  OkMeansCurrent
