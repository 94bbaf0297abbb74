SPECIFICATION Spec
CONSTANTS
  Requests = {r1, r2}
  Slots = {w1}
  Attempts = 1
  MaxStalled = 1
  Nobody = nobody
  Limit <- EnqueueLimit
SYMMETRY SymmetricActors
CHECK_DEADLOCK FALSE
INVARIANTS
  ReceiptMeansWork
