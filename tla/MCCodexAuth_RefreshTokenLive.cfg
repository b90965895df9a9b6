CONSTANTS
  c1 = c1
  c2 = c2
  Callers <- MCCallers
  MaxIssued = 3
  MaxTime = 3
  Lifetime = 2
  Leeway = 1
  WriteBack = TRUE
  Faults = {"crash", "lostResponse"}
SPECIFICATION Spec
SYMMETRY CallerSymmetry
CHECK_DEADLOCK FALSE
INVARIANT RefreshTokenLive
