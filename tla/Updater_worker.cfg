SPECIFICATION FairSpec
CONSTANTS
  Workers    = {w1}
  Clients    = {}
  Sectors    = {1, 2}
  Zero       = 0
  None       = None
  MaxSize    = 2
  MaxEpoch   = 2
  MaxTime    = 4
  Week       = 2
  MaxReaders = 1
  MaxLate    = 1
  InitSeals  <- ResumedSeals
  CanCrash   = FALSE

  
PROPERTIES
  
  LockReleased
CHECK_DEADLOCK FALSE
