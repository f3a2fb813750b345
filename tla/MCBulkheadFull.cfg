SPECIFICATION BulkheadSpec
CONSTANTS
  c1 = c1
  c2 = c2
  c3 = c3
  BulkheadCallers = {c1, c2, c3}
  MaxConcurrent = 1
  MaxQueue = 1
PROPERTIES
  FullMeansFull
CHECK_DEADLOCK FALSE
