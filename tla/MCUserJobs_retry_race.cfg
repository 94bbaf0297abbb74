SPECIFICATION FairSpec
CONSTANTS
  Requests = {r1}
  Slots = {w1}
  Attempts = 2
  MaxStalled = 1
  Nobody = nobody
  Limit <- OneRetry
CHECK_DEADLOCK FALSE
PROPERTIES
  QueuedRowSettles
