SPECIFICATION DeskSpec
CONSTANTS
  w1 = w1
  r1 = r1
  r2 = r2
  k1 = k1
  i1 = i1
  i2 = i2
  Keys = {k1}
  Workers = {w1}
  Reviewers = {r1, r2}
  Items = {i1}
  Asserted <- Unreadable
  TypeOf <- NumTypes
  MaxId = 3
  MaxCands = 2
SYMMETRY Symmetry
INVARIANT ResolvedHasFact
PROPERTIES VerdictIsFinal ImplementsHistory
CHECK_DEADLOCK FALSE
