CONSTANTS
  Lo = lo
  Hi = hi
  MaxSock = 2
  MaxMsg = 2
  DeferMax = 1
  MaxFault = 1
  Kind <- MsgThenControl
  Quota <- LoWrites
SPECIFICATION FairSpec
PROPERTIES ImplementsLink HeldIsWritten Converges
CHECK_DEADLOCK FALSE
