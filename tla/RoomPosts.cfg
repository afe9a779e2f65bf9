CONSTANTS
  o = o
  a = a
  b = b
  text = text
  file = file
  reply = reply
  Owner = o
  Others = {a, b}
  Friends <- Befriended
  Texts = {text, reply}
  Files = {file}
  Author <- Authors
  MaxRoster = 1
  MaxFault = 1
SPECIFICATION Spec
INVARIANTS ShownOnce EverybodyHears RemovedIsUnheard
CHECK_DEADLOCK FALSE
