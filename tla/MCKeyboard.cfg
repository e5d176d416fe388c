CONSTANTS
  Size = 3
  Data <- MCData
  HasTask = TRUE
  Locks <- MCLocks
  KeycmdSize = 3
  MaxPresses = 3
  MaxErrors = 1
SPECIFICATION KSpec
INVARIANTS NoSleepOnData AnswerDue ValueAfterLed NoSleepOnCommand
PROPERTIES QueueSpec LedsFollow
