SPECIFICATION Spec
CONSTANTS
  n1 = n1
  n2 = n2
  v1 = v1
  v2 = v2
  NoVersion = NoVersion
  Collector = {d1, d2}
  Note = {n1, n2}
  Version = {v1, v2}
  Written <- Edits
  Retained = 1
  Excess = 0
  MaxPushes = 3
  MaxPins = 1
  MaxCleans = 1
  MaxCrashes = 1
  Races = {}
INVARIANTS
  PinsKept
CHECK_DEADLOCK FALSE
