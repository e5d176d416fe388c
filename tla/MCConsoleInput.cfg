CONSTANTS
  Cap = 4
  MouseCap = 4
  Clicks = TRUE
SPECIFICATION Spec
INVARIANTS NoSleepOnData CursorOnce MouseHasEntry
PROPERTY DataTaken
CHECK_DEADLOCK FALSE
