CONSTANTS
  MaxTimer = 4
  Fifos <- MCFifos
  Word = 3
  Timeouts <- MCTimeouts
  Slice = 2
  Careful = TRUE
  Undisturbed = TRUE
  MaxTime = 5
SPECIFICATION Spec
INVARIANTS TimerList TaskTimerRuns
PROPERTY TimerSpec
