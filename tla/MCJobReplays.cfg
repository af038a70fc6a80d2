SPECIFICATION Spec
CONSTANTS
  r1 = r1
  r2 = r2
  r3 = r3
  a1 = a1
  a2 = a2
  Runs = {r1, r2}
  Admins = {a1, a2}
  Raising = {"extract", "persist", "embed", "write", "finish"}
  Crashing = TRUE
  Doubling = TRUE
  MaxSent = 4
SYMMETRY Symmetry
INVARIANTS DlqHasEntry
CHECK_DEADLOCK FALSE
