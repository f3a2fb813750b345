SPECIFICATION BreakerSpec
CONSTANTS
  c1 = c1
  c2 = c2
  Callers = {c1, c2}
  FailureThreshold = 2
  OpenTimeout = 1
  HalfOpenMaxProbes = 1
PROPERTIES
  CooldownHonoured
CHECK_DEADLOCK FALSE
