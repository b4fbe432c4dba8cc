SPECIFICATION Spec
CONSTANTS
  h1 = h1
  h2 = h2
  h3 = h3
  NoFile = NoFile
  Path = {p}
  Hash = {h1, h2}
  Scene <- NoDrawings
  Device = {a, b}
  MaxEdits = 3
  MaxKeeps = 1
  MaxPuts = 3
  MaxFaults = 0
  MaxLag = 0
  Exclusive = {"put"}
  StartSynced = TRUE
PROPERTIES
  AcceptSparesLaterEdits
