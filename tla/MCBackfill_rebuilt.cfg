SPECIFICATION FairSpec
CONSTANTS
  c1 = c1  c2 = c2  w1 = w1  w2 = w2
  Changes <- OneChange
  Slots <- MCSlots
  Days = 2
  Chunk = 1
  CoalesceSlots = 2
  DeferMax = 1
  FreshIds = 2
  Budget = 2
  Attempts = 2
  Events <- Disturbances
  Firsts = {0, 2}
  Phases = Phases
  Cron = Cron
  CronDays = 1
  Nobody = Nobody

CHECK_DEADLOCK FALSE

PROPERTY StaleDaysAreRebuilt
