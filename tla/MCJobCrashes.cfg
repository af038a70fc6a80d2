SPECIFICATION FairSpec
CONSTANTS
  r1 = r1
  r2 = r2
  r3 = r3
  a1 = a1
  a2 = a2
  Runs = {r1, r2, r3}
  Admins = {}
  Raising = {}
  Crashing = TRUE
  Doubling = FALSE
  MaxSent = 4
INVARIANTS TypeOK QuietIsTerminal AllEmbedded
PROPERTIES JobEnds
CHECK_DEADLOCK FALSE
