CONSTANTS
  A = a
  B = b
  Commands = {"request", "accept"}
  Accepting = {a, b}
  MaxHeld = 1
  MaxCommand = 4
  MaxMessage = 0
  MaxFault = 0
SPECIFICATION FairSpec
INVARIANTS BothConsented
PROPERTIES AcceptCompletes
CHECK_DEADLOCK FALSE
