CONSTANTS
  db = db
  a = a
  b = b
  h1 = h1
  h2 = h2
  Names <- MCNames
  Handles <- MCHandles
  Careful = TRUE
  Clusters = 5
  SecPerClus = 1
  SectorUnits = 2
  Host = db
  HostSize = 3
  MaxSize = 3
  MaxWrites = 1
SPECIFICATION Spec
INVARIANTS ChainsApart ChainFits HandlesAgree CrashKeeps ReadBack
SYMMETRY Symmetry
CHECK_DEADLOCK FALSE
