SPECIFICATION MCSqlSpec
CONSTANTS
  d1 = d1
  d2 = d2
  e1 = e1
  e2 = e2
  e3 = e3
  k1 = k1
  NoKey = NoKey
  NoEntry = NoEntry
  Dispatchers = {d1, d2}
  Envelopes = {e1, e2, e3}
  Rank <- Ranks
  IdempotencyKey <- Keys
  MaxRetries = 1
  BatchSize = 2
  ClaimTTL = 1
  MaxAge = 1
  MaxFaults = 1
INVARIANTS
  OneHolder
  LoserToldDuplicate
PROPERTIES
  SqlImplementsDelivery
  KeptSettles
CHECK_DEADLOCK FALSE
