SPECIFICATION Spec
CONSTANTS
  w1 = w1
  w2 = w2
  r1 = r1
  r2 = r2
  k1 = k1
  k2 = k2
  Keys = {k1}
  Workers = {w1}
  Reviewers = {r1}
  Asserted <- Bools
  TypeOf <- BoolTypes
  MaxId = 3
  MaxCands = 2
SYMMETRY Symmetry
INVARIANTS HumanOutranks
