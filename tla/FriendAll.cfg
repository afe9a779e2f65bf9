CONSTANTS
  A = a
  B = b
  Commands = {"request", "cancel", "accept", "reject", "set", "unfriend"}
  Accepting = {a}
  MaxHeld = 1
  MaxCommand = 3
  MaxMessage = 1
  MaxFault = 2
SPECIFICATION Spec
INVARIANTS TypeOK ConsentStands
PROPERTIES RestartKeeps
CHECK_DEADLOCK FALSE
