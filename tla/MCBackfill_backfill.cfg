SPECIFICATION Spec
CONSTANTS
  c1 = c1  c2 = c2  w1 = w1  w2 = w2
  Changes <- MCChanges
  Slots <- MCSlots
  Days = 2
  Chunk = 1
  CoalesceSlots = 1
  DeferMax = 1
  FreshIds = 1
  Budget = 1
  Attempts = 2
  Events <- NotLate
  Firsts = {2}
  Phases = Phases
  Cron = Cron
  CronDays = 1
  Nobody = Nobody
SYMMETRY Symmetry
CHECK_DEADLOCK FALSE
INVARIANT RebuildsAreOwed

PROPERTY RowsNeverGoBack
