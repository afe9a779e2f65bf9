CONSTANTS
  f = f
  g = g
  h = h
  Files = {f, g, h}
  Peer <- Senders
  Name <- Paths
  Meta <- Offered
  Size <- Sizes
  Silent = {h}
  FileMax = 2
  Budget = 3
  HardMax = 6
  PerPeer = 1
  PerPeerMax = 2
  Concurrent = 2
  Settings = {4}
  Clients = 2
  MaxSave <- Clicks
  MaxDisturbance = 0
SPECIFICATION Spec
INVARIANT SavedStaysWhole
CHECK_DEADLOCK FALSE
