CONSTANTS
  MaxTasks = 4
  MaxLevels = 4
  MaxTasksLv = 4
  RunLevels <- MCRunLevels
SPECIFICATION FairSpec
INVARIANTS RunQueues TaskNowIsCpu TopServed
PROPERTY SwitchToTop RoundRobin
