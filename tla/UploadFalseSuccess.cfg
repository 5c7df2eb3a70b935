SPECIFICATION Spec
CONSTANTS
  MaxIDs = 1
  Size = 2
  LastInterval = 5
  MaxFiles = 1
  StoreMayFail = FALSE
  MayCrash = FALSE
INVARIANT SuccessMeansUploaded
