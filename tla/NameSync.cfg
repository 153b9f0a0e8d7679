SPECIFICATION FairSpec
CONSTANTS
  BlobNames = {n1}
  Peers = {p1, p2}
  Slots = {s1}
  SampleSize = 1
  None = None
  Headers <- OneEpoch
  MaxFaults = 1
  MaxLate = 1
PROPERTIES
  JobsEnd
  CatchesUp
  
