SPECIFICATION Spec
SYMMETRY OutboxSymmetry
CONSTANTS
  o1 = o1
  o2 = o2
  e1 = e1
  e2 = e2
  k1 = k1
  NoKey = NoKey
  NoEntry = NoEntry
  Outboxes = {o1, o2}
  Envelopes = {e1, e2}
  IdempotencyKey <- Keys
  MaxRetries = 1
  BatchSize = 2
  ClaimTTL = 1
INVARIANTS
  TypeOK
  DuplicatesExplained
PROPERTIES
  StoppedForGood
  ImplementsDelivery
CHECK_DEADLOCK FALSE
