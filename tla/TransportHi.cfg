CONSTANTS
  Lo = lo
  Hi = hi
  MaxSock = 3
  MaxMsg = 2
  DeferMax = 1
  MaxFault = 1
  Kind <- AcceptThenMsg
  Quota <- HiWrites
SPECIFICATION Spec
INVARIANTS TypeOK SlotHasReader HoldDrained AtMostOnce WrittenInOrder
PROPERTIES LiveSocketKept
CHECK_DEADLOCK FALSE
