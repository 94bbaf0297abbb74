SPECIFICATION Spec
CONSTANTS
  MaxId = 2
  alice = alice
  bob = bob
  Users <- TwoUsers
  Owner <- OneOwner
  Dispatchers = {d1, d2}
  BatchSize = 2
  MaxBackoffs = 1
  Limit <- FaultLimit
  Nobody = nobody
SYMMETRY SymmetricProcesses
CHECK_DEADLOCK FALSE
INVARIANTS
  PublishedWasDelivered
  HeardKicksAreServed
PROPERTIES
  KeepsPromise
  PublishedOnce
