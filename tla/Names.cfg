SPECIFICATION FairSpec
CONSTANTS
  n1 = n1
  n2 = n2
  k1 = k1
  k2 = k2
  junk = junk
  HnsNames = {n1, n2}
  Keys = {k1, k2}
  Blocks <- MCBlocks
  None = None
  Depth = 2
  Workers = 2
  NumLists = 1
  Lists = {{}, {n1, n2}}
  MaxHeight = 5
  MaxFaults = 2
INVARIANTS
  LastRecordWins
  NamesMatchChain
  
  
  
  HeadersCounted
PROPERTIES
  ImportCatchesUp
