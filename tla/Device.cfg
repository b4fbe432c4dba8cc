SPECIFICATION Spec
CONSTANTS
  None = None
  NoFile = NoFile
  Torn = Torn
  Own = Own
  Foreign = Foreign
  x = x
  y = y
  d1 = d1
  d2 = d2
  acct = acct
  n1 = n1
  c1 = c1
  s1 = s1
  root = root
  conf = conf
  shr = shr
INVARIANTS
  StateSafe
  DecisionSafe
  MergeSafe
  StoresSafe
  SignInSafe
  SharesSafe
  ScanSafe
  LinearHistory
PROPERTIES
  OperationsSafe
  IgnoringSafe
SYMMETRY Interchangeable
CHECK_DEADLOCK FALSE
