SPECIFICATION Spec
CONSTANTS
  Workers    = {w1}
  Clients    = {}
  Sectors    = {1, 2}
  Zero       = 0
  None       = None
  MaxSize    = 2
  MaxEpoch   = 1
  MaxTime    = 2
  Week       = 1
  MaxReaders = 0
  MaxLate    = 0
  InitSeals  <- HonestSeals
  CanCrash   = FALSE
INVARIANTS
  HonestNeverBanned
CHECK_DEADLOCK FALSE
