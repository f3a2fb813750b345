SPECIFICATION Spec
CONSTANTS
  p1 = p1
  p2 = p2
  w1 = w1
  w2 = w2
  h1 = h1
  h2 = h2
  Publishers = {p1}
  Workers = {w1, w2}
  Handlers = {h1, h2}
  QueueSize = 1
INVARIANTS
  PublishNeverPanics
CHECK_DEADLOCK FALSE
