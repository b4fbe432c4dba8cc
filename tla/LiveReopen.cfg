SPECIFICATION Spec
CONSTANTS
  a = a
  b = b
  e0 = e0
  e1 = e1
  e2 = e2
  Device = {a, b}
  Edit = {e0, e1}
  Start = {e0}
  None = None
  CompactAfter = 2
  MaxGen = 0
  MaxRotations = 0
  Fault = {"close", "reopen"}
  MaxFaults = 1
  MaxSent = 2
  MaxSaves = 0
INVARIANTS
  AgreedIsRoom
CHECK_DEADLOCK FALSE
