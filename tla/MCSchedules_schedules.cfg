SPECIFICATION FairSpec
CONSTANTS
  added = added
  daily = daily
  old = old
  new = new
  Names = {daily, added}
  Machines = {old, new}
  Wanted <- Lists
  Due <- Crons
  Horizon = 2
  Boots <- OldTwice
  Limit <- Once
INVARIANTS
  DueRunsAreKept
  RunsOnce
  ListIsArmed
PROPERTY
  DueRunsHappen
CHECK_DEADLOCK FALSE
