SPECIFICATION Spec
CONSTANTS
  Workers    = {w1}
  Clients    = {c1}
  Sectors    = {1}
  Zero       = 0
  None       = None
  MaxSize    = 2
  MaxEpoch   = 1
  MaxTime    = 0
  Week       = 1
  MaxReaders = 1
  MaxLate    = 0
  InitSeals  <- RepeatedSeals
  CanCrash   = FALSE
INVARIANTS
  BlobMatchesHeader
PROPERTIES
  ImplementsNameStore
CHECK_DEADLOCK FALSE
VIEW Unsent
