SPECIFICATION Spec
CONSTANTS
  None = None
  NoFile = NoFile
  u1 = u1
  u2 = u2
  p1 = p1
  p2 = p2
  p3 = p3
  f1 = f1
  d1 = d1
  d2 = d2
  n1 = n1
  n2 = n2
  s1 = s1
  h1 = h1
  h2 = h2
  h3 = h3
INVARIANTS
  TreeSafe
  DrawingSafe
  TimersSafe
PROPERTIES
  SettingsSafe
  FirstSafe
SYMMETRY Interchangeable
CHECK_DEADLOCK FALSE
