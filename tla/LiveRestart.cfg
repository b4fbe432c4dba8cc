SPECIFICATION Spec
CONSTANTS
  a = a
  b = b
  e0 = e0
  e1 = e1
  e2 = e2
  Device = {a, b}
  Edit = {e0, e1}
  Start = {e0}
  None = None
  CompactAfter = 3
  MaxGen = 1
  MaxRotations = 1
  Fault = {"crash", "close", "wipe", "early"}
  MaxFaults = 1
  MaxSent = 2
  MaxSaves = 2
INVARIANTS
  RestartKeeps
CHECK_DEADLOCK FALSE
SYMMETRY Interchangeable
