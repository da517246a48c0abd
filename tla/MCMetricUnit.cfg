\* A file with two functions: every way to count, raise and set their metrics.
SPECIFICATION Spec
CONSTANTS
  f1 = f1  g1 = g1  g2 = g2  l1 = l1  l2 = l2
  Files <- OneFile
  FnNames <- TwoFunctions
  NoFile = NoFile
  NoFn = NoFn
  Modulus = 8
  Increments = {1, 2}
  Samples = {0, 1, 2}
  Locations <- TwoLocations
  InvalidLoc = InvalidLoc
  MaxTotal = 8
  MaxCalls = 3
SYMMETRY Sym
CONSTRAINT OneKind
INVARIANTS
  TypeOK
  SaturatingCount
  FirstLocationIsFirst
  CumulativeExact
  PeakIsFirstMaximum
CHECK_DEADLOCK FALSE
