\* One caller that ignores what Event returns, Windows event, tasks return TRUE.
SPECIFICATION FairSpec
CONSTANTS
  c1 = c1
  t1 = t1
  t2 = t2
  NoTask = NoTask
  Clients = {c1}
  Tasks = {t1, t2}
  QueueSize = 3
  Remembers = TRUE
  Policies <- Ignoring
  TaskReturns <- AlwaysTrue
  MayAbandon = TRUE
  MaxSubmits = 3
INVARIANTS
  RejectedOnlyBeforeFirstRun
  DestroyedOnlyWhenDown
  NoSleepOnWork
PROPERTIES
  EventWakesThread
  StopEndsThread
  PollEndsUnlessOverwritten
CHECK_DEADLOCK FALSE
