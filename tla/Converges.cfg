SPECIFICATION FairSpec
CONSTANTS
  a = a
  b = b
  p = p
  h1 = h1
  h2 = h2
  NoFile = NoFile
  None = None
  e0 = e0
  e1 = e1
  ra = ra
  rb = rb
  v1 = v1
  v2 = v2
PROPERTIES
  VaultConverges
  RoomConverges
  RecordsConverge
CHECK_DEADLOCK FALSE
