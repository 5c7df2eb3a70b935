\* No crash, and the resume files can always be written.
SPECIFICATION FairSpec
CONSTANTS
  MaxIDs = 2
  Size = 3
  LastInterval = 3
  MaxFiles = 2
  StoreMayFail = FALSE
  MayCrash = FALSE
INVARIANTS UnfinishedCanResume SuccessUnlessSpent AttemptsBounded
PROPERTY CommandEnds
