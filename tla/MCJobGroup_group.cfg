SPECIFICATION FairSpec
CONSTANTS
  N = 2
  Locked = {1}
  Weekly = {2}
  Attempts = {a1, a2}
  Tries = 2
  MaxStalled = 1
  Events <- Faults
  Budget = 2
INVARIANTS
  OneHandlerPerLock
  LaterStepsWait
  SuccessIsNotRepeated
  SuccessIsEarned
PROPERTY
  OccurrenceSettles
CHECK_DEADLOCK FALSE
