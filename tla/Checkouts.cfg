SPECIFICATION FairSpec
CONSTANTS
  Writers      = {w1, w2}
  Requests     = {q1}
  Readers      = {r1}
  Keys         <- TwoKeys
  Zero         = Zero
  None         = None
  MaxSectors   = 2
  CurrentEpoch = 1
  FirstHeader  <- OneSector
INVARIANTS
  PoolCounts
  BlobMatchesHeader
  ReadsAreCommitted
PROPERTIES
  AnswersVerifyAgain
CHECK_DEADLOCK FALSE
