SPECIFICATION FairSpec
CONSTANTS
  Conns = {w1, w2}
  Clients = {c1, c2}
  MaxWorkers = 2
  Window = 1
  SendMax = 1
  AuthMax = 1
  MaxTry = 2
  MaxClock = 1
  MaxCommand = 2
  MaxFault = 1
INVARIANTS SlotsCounted SendsBounded GuessesBounded SwitchHolds
PROPERTIES SlotsReturn CommandsEnd
CHECK_DEADLOCK FALSE
