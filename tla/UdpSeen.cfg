CONSTANTS
  Packets = {p, q}
  Validity = 2
  Slack = 1
  MaxClock = 7
  MaxFault = 2
SPECIFICATION Spec
INVARIANTS HonouredOnce GenuineAccepted
CHECK_DEADLOCK FALSE
