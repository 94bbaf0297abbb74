SPECIFICATION FairSpec
CONSTANTS
  MaxId = 1
  alice = alice
  bob = bob
  Users <- TwoUsers
  Owner <- MixedOwners
  Dispatchers = {d1, d2}
  BatchSize = 2
  MaxBackoffs = 1
  Limit <- RecoveryLimit
  Nobody = nobody
CHECK_DEADLOCK FALSE
PROPERTIES
  EveryCommitIsPublished
