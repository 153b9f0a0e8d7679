SPECIFICATION FairSpec
CONSTANTS
  Names    = {n1, n2, n3}
  Peers    = {p1}
  Handlers = {h1, h2}
  Workers  = {w1}
  Items    = {i1, i2, i3, i4}
  NoItem   = NoItem
  MaxLen   = 1
  MaxEpoch = 0
  MaxSize  = 1
  Updates  <- DispatchUpdates
INVARIANTS
  QueueIndexesEntries
  QueueBounded
PROPERTY
  QueuedIsDispatched
