SPECIFICATION Spec
SYMMETRY Symmetry
CONSTANTS
  Workers    = {w1, w2}
  Clients    = {}
  Sectors    = {1, 2}
  Zero       = 0
  None       = None
  MaxSize    = 2
  MaxEpoch   = 1
  MaxTime    = 1
  Week       = 1
  MaxReaders = 1
  MaxLate    = 1
  InitSeals  <- EquivocalSeals
  CanCrash   = TRUE
INVARIANTS
  HeaderSigned
  
CHECK_DEADLOCK FALSE
