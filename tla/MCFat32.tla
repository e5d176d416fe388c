------------------------------ MODULE MCFat32 ------------------------------
EXTENDS Fat32, TLC

CONSTANTS
  db, a, b,  \* the names of files; the volume comes with db
  h1, h2     \* the handles

MCNames == {db, a, b}
MCHandles == {h1, h2}

\* The handles are alike, and so are the files that are not there at first.
Symmetry == Permutations({a, b}) \cup Permutations(MCHandles)
=============================================================================
