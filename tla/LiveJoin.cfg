SPECIFICATION ISpec
CONSTANTS
  Device = {a, b}
  None = None
  Later = Later
  Fresh = {a, b}
  MaxEdits = 2
  MaxOpens = 2
  MaxSyncs = 3
  MaxCrashes = 0
PROPERTIES
  JoinKeepsTheFile
CHECK_DEADLOCK FALSE
