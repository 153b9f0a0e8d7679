SPECIFICATION FairSpec
CONSTANTS
  Conns = {c1, c2}
  Ids   = {i1, i2}
  ip1   = ip1
  host1 = host1
  Ips   = {ip1, host1}
  RemoteIP <- AliasRemoteIP
  Self  = self
  None  = None
  MaxInbound  = 1
  MaxOutbound = 1
  MaxPendingInbound  = 2
  MaxPendingOutbound = 1
INVARIANTS
  
  OneReaderPerPeer
  LimitsBounded
PROPERTIES
  BrokenIsRemoved
  CallsReturn
