SPECIFICATION Spec
CONSTANTS
  h1 = h1
  h2 = h2
  h3 = h3
  NoFile = NoFile
  Path = {p, q}
  Hash = {h1, h2}
  Scene <- NoDrawings
  Device = {a, b}
  MaxEdits = 2
  MaxKeeps = 1
  MaxPuts = 4
  MaxFaults = 1
  MaxLag = 0
  Exclusive = {"put"}
  StartSynced = TRUE
INVARIANTS
  TypeOK
  HeadComplete
PROPERTIES
  ReplacesOnlyHeldOrKept
  PullSparesUnpublished
  RemovesOnlyDeleted
  ImplementsSharedVault
SYMMETRY Interchangeable
