SPECIFICATION FairSpec
CHECK_DEADLOCK FALSE
CONSTANTS
  out = out
  in = in
  k1 = k1
  k2 = k2
  h1 = h1
  h2 = h2
  s1 = s1
  None = None
  Ends <- MCEnds
  Nodes <- MCNodes
  Script <- MCScript
  Messages <- MCMessages
  SendBuffer = 1
  Deadline = 2
INVARIANTS
  
  EveryMessageSurvives
  HandshakeAgrees
PROPERTIES
  CloseReturns
  NoHalfOpen
