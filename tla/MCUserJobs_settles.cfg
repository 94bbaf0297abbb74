SPECIFICATION FairSpec
CONSTANTS
  Requests = {r1}
  Slots = {w1, w2}
  Attempts = 2
  MaxStalled = 1
  Nobody = nobody
  Limit <- SettlesLimit
CHECK_DEADLOCK FALSE
INVARIANTS
  CompletionReachesRow
  NeverDeliveredMeansNeverRan
PROPERTIES
  RowReachesVerdict
