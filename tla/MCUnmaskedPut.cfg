CONSTANTS
  Size = 3
SPECIFICATION Spec
INVARIANT Counted
