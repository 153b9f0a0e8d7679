SPECIFICATION Spec
SYMMETRY Symmetry
CONSTANTS
  Names    = {n1}
  Peers    = {p1, p2}
  Handlers = {h1, h2}
  Workers  = {w1}
  Items    = {i1, i2, i3}
  NoItem   = NoItem
  MaxLen   = 2
  MaxEpoch = 1
  MaxSize  = 2
  Updates  <- MergeUpdates
INVARIANT
  PeersAnnouncedItem

  
