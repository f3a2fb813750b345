SPECIFICATION WindowSpec
SYMMETRY OutboxSymmetry
CONSTANTS
  o1 = o1
  o2 = o2
  e1 = e1
  NoKey = NoKey
  NoEntry = NoEntry
  Outboxes = {o1, o2}
  Envelopes = {e1}
  IdempotencyKey <- NoKeys
  MaxRetries = 2
  BatchSize = 1
  ClaimTTL = 2
INVARIANTS
  ClaimReserves
CHECK_DEADLOCK FALSE
