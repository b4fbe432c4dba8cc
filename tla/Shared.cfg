SPECIFICATION Spec
CONSTANTS
  None = None
  Later = Later
  NoVersion = NoVersion
  Owner = Owner
  guest = guest
  d1 = d1
  d2 = d2
  n1 = n1
  n2 = n2
  n3 = n3
  v1 = v1
  v2 = v2
  w1 = w1
  w2 = w2
  u1 = u1
  u2 = u2
  a1 = a1
  a2 = a2
  b1 = b1
  p1 = p1
  p2 = p2
INVARIANTS
  HistorySafe
  VersionsSafe
  AccessSafe
  LinkSafe
  OneRoomAPath
  ShowsWhoIsHere
  KeyringSafe
PROPERTIES
  RecordsSafe
  NothingTakenBack
SYMMETRY Interchangeable
CHECK_DEADLOCK FALSE
