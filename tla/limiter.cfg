SPECIFICATION Spec
CONSTANTS
  Keys = {k1}
  Calls = {p1, p2, p3}
  Limit = 2
  Threshold = 1
  WithRedis = TRUE
  WindowTicks = 2
  ExpiryTicks = 4
  Patience = 2
SYMMETRY LimiterSymmetry
INVARIANT TypeOK
INVARIANT AdmittedWithinLimit
PROPERTY RefusedAtLimit
