SPECIFICATION FairSpec
CONSTANTS
  h1          = h1
  h2          = h2
  Hosts       = {h1, h2}
  d1          = d1
  d2          = d2
  FixedSeeds  = {}
  Lookup      <- SeedLookup
  Failed      = Failed
  Lists       <- SeedLists
  Callers     = {h2}
  MaxInbound  = 2
  MaxOutbound = 2
  Unstable    = {h2}
  MaxFaults   = 2
INVARIANTS
  BanHolds
PROPERTIES
  SilentIsClosed
  Reconnects
  Discovers
