SPECIFICATION Spec
CONSTANTS
  f1 = f1
  f2 = f2
  p1 = p1
  p2 = p2
  Procs <- Processes
  IDs = {f1, f2}
  NoFile = NoFile
  Length <- ShortAndLong
  Size = 1
  MaxCells = 4
  MaxEntries = 3
  MayCrash = TRUE
  ClearsBehind = FALSE
SYMMETRY Alike
INVARIANT TypeOK
PROPERTIES ImplementsRecords StaysConsistent WriteReadsBack FinishedIsForgotten
CHECK_DEADLOCK FALSE
