\* Two processes that nest, fail to open the mutex and crash.
SPECIFICATION FairSpec
CONSTANTS
  p1 = p1
  p2 = p2
  o1 = o1
  o2 = o2
  o3 = o3
  NoObject = NoObject
  Procs = {p1, p2}
  Objects = {o1, o2, o3}
  MaxNested = 2
  MayFail = TRUE
  MayCrash = TRUE
INVARIANTS
  TypeOK
  OneHolderPerObject
  HeldToTheMatchingUnlock
  LeftoverIsNotWaitedFor
PROPERTIES
  WaitEnds
