SPECIFICATION Spec
CONSTANTS
  a = a
  b = b
  e0 = e0
  e1 = e1
  e2 = e2
  Device = {a, b}
  Edit = {e0, e1, e2}
  Start = {e0}
  None = None
  CompactAfter = 3
  MaxGen = 1
  MaxRotations = 1
  Fault = {"drop", "late", "over"}
  MaxFaults = 1
  MaxSent = 2
  MaxSaves = 0
INVARIANTS
  TypeOK
  AgreedIsRoom
  RoomKept
  OwnEditsTracked
  NoDoubling
PROPERTIES
  ViewKeeps
CHECK_DEADLOCK FALSE
SYMMETRY Interchangeable
