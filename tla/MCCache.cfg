CONSTANTS
  Blocks = 3
  CacheSize = 2
  MaxCaches = 2
  MaxRequests = 3
  MaxWrites = 2
  Careful = TRUE
SPECIFICATION Spec
INVARIANTS BlockTable NothingLost CleanIsOnDisk ReadsRight
