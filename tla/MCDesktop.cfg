CONSTANTS
  cons1 = cons1
  cons2 = cons2
  Consoles <- MCConsoles
  ScreenRows = 2
  BodyRows = 1
  MaxSid = 4
  OpenRow = 1
  Careful = TRUE
  Clear = Clear
  Glass = Glass
  Mix = Mix
  None = None
SPECIFICATION Spec
INVARIANTS Stacked MapTop Screen FocusShown
PROPERTY SwitchShows
SYMMETRY Symmetry
VIEW View
