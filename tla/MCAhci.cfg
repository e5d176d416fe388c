CONSTANTS
  Blocks = 3
  NumSlots = 2
  MaxSync = 2
SPECIFICATION Spec
INVARIANT Transferred
