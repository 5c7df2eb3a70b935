\* POSIX event: the signal of Event is lost.
SPECIFICATION FairSpec
CONSTANTS
  c1 = c1
  t1 = t1
  NoTask = NoTask
  Clients = {c1}
  Tasks = {t1}
  QueueSize = 3
  Remembers = FALSE
  Policies <- Ignoring
  TaskReturns <- AlwaysTrue
  MayAbandon = FALSE
  MaxSubmits = 1
PROPERTIES
  EventWakesThread
CHECK_DEADLOCK FALSE
