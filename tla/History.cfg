CONSTANTS
  alice = alice
  bob = bob
  ask = ask
  text = text
  photo = photo
  ours = ours
  Peers = {alice, bob}
  Inbound = {ask, text, photo}
  Requests = {ask}
  Posts = {photo}
  Outbound = {ours}
  PeerOf <- Parties
  Readers = {r}
  Marks = {edited}
  Limit = 2
  HeldMax = 1
  HeldGlobal = 2
  MaxCopies <- Copies
  MaxCommand = 2
  MaxFault = 2
SPECIFICATION Spec
INVARIANTS TypeOK NotTwice DeletedStaysDeleted RemovedIsForgotten FileFollows
CHECK_DEADLOCK FALSE
