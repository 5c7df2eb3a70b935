\* Two callers, POSIX event, every caller policy, tasks that may end the thread.
SPECIFICATION Spec
CONSTANTS
  c1 = c1
  c2 = c2
  t1 = t1
  t2 = t2
  NoTask = NoTask
  Clients = {c1, c2}
  Tasks = {t1, t2}
  QueueSize = 2
  Remembers = FALSE
  Policies <- AllPolicies
  TaskReturns <- AllReturns
  MayAbandon = TRUE
  MaxSubmits = 2
INVARIANTS
  TypeOK
  EveryPushRunsOnce
  CompletionIsFresh
PROPERTIES
  ImplementsExecutor
CHECK_DEADLOCK FALSE
