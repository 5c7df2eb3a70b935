\* Two files, two blocks, one interval; the program may be killed and the resume
\* files may fail.
SPECIFICATION Spec
CONSTANTS
  MaxIDs = 2
  Size = 2
  LastInterval = 1
  MaxFiles = 2
  StoreMayFail = TRUE
  MayCrash = TRUE
INVARIANTS TypeOK NoBlockSkipped
PROPERTIES RecordsLeaveFinished RecordsAsPromised
