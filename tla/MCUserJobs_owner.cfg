SPECIFICATION Spec
CONSTANTS
  Requests = {r1}
  Slots = {w1, w2}
  Attempts = 2
  MaxStalled = 1
  Nobody = nobody
  Limit <- OwnerLimit
SYMMETRY SymmetricActors
CHECK_DEADLOCK FALSE
INVARIANTS
  NoRunAfterCancel
  AttemptsWithinBudget
PROPERTIES
  CancelStands
  VerdictStands
