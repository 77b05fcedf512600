SPECIFICATION Spec
CONSTANTS
  Reqs = {r1, r2}
  Graces <- MCGraces
  StopGrace = 8
INVARIANTS
  GraceIsHonoured
