SPECIFICATION BacklogSpec
CONSTANTS
  o1 = o1
  o2 = o2
  e1 = e1
  e2 = e2
  k1 = k1
  NoKey = NoKey
  NoEntry = NoEntry
  Outboxes = {o1, o2}
  Envelopes = {e1, e2}
  IdempotencyKey <- NoKeys
  MaxRetries = 2
  BatchSize = 1
  ClaimTTL = 2
PROPERTIES
  EverySavedSettles
  StopReturns
CHECK_DEADLOCK FALSE
