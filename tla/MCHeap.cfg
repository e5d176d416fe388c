CONSTANTS
  Base = 6
  Total = 30
  Page = 6
  Sizes <- MCSizes
  MaxFrees = 2
  Align = 2
  Header = 2
  Limit = 4
  Requests <- MCRequests
  TableSize = 5
  MaxLive = 4
SPECIFICATION HSpec
INVARIANTS Coalesced Partition TableIsGiven BlocksApart PagesCounted LiveMapped
PROPERTY AllocatorSpec
CHECK_DEADLOCK FALSE
