CONSTANTS
  db = db
  a = a
  b = b
  h1 = h1
  h2 = h2
  Names <- MCNames
  Handles <- MCHandles
  Careful = TRUE
  Clusters = 4
  SecPerClus = 2
  SectorUnits = 1
  Host = db
  HostSize = 1
  MaxSize = 3
  MaxWrites = 1
SPECIFICATION Spec
INVARIANTS ReadBack
SYMMETRY Symmetry
CHECK_DEADLOCK FALSE
