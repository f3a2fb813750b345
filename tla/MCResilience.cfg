SPECIFICATION Spec
CONSTANTS
  c1 = c1
  c2 = c2
  c3 = c3
  b1 = b1
  b2 = b2
  b3 = b3
  b4 = b4
  b5 = b5
  Callers = {c1, c2, c3}
  FailureThreshold = 2
  OpenTimeout = 2
  HalfOpenMaxProbes = 2
  BulkheadCallers = {b1, b2, b3, b4, b5}
  MaxConcurrent = 2
  MaxQueue = 2
INVARIANTS
  BreakerTypeOK
  ProbesBounded
  FailuresBounded
  BulkheadTypeOK
  Accounting
  QueueBounded
  NoIdleSlot
PROPERTIES
  OnlyLateDisturbsOpen
  Recovers
  WaitEnds
CHECK_DEADLOCK FALSE
