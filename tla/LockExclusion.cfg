\* Two processes, no crash, no failure: both hold the lock.
SPECIFICATION Spec
CONSTANTS
  p1 = p1
  p2 = p2
  o1 = o1
  o2 = o2
  o3 = o3
  NoObject = NoObject
  Procs = {p1, p2}
  Objects = {o1, o2, o3}
  MaxNested = 0
  MayFail = FALSE
  MayCrash = FALSE
INVARIANTS
  MutualExclusion
