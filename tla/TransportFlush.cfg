CONSTANTS
  Lo = lo
  Hi = hi
  MaxSock = 2
  MaxMsg = 3
  DeferMax = 3
  MaxFault = 1
  Kind <- ThreeMsgs
  Quota <- HiWrites
SPECIFICATION Spec
INVARIANTS FlushKeepsRest
CHECK_DEADLOCK FALSE
