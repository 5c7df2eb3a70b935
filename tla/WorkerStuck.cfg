\* Windows event: the caller overwrites Completed and polls for ever.
SPECIFICATION FairSpec
CONSTANTS
  c1 = c1
  t1 = t1
  t2 = t2
  NoTask = NoTask
  Clients = {c1}
  Tasks = {t1, t2}
  QueueSize = 3
  Remembers = TRUE
  Policies <- Ignoring
  TaskReturns <- AlwaysTrue
  MayAbandon = FALSE
  MaxSubmits = 2
PROPERTIES
  StuckOnlyAfterFailure
CHECK_DEADLOCK FALSE
