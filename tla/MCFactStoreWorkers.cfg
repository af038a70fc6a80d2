SPECIFICATION FairSpec
CONSTANTS
  w1 = w1
  w2 = w2
  r1 = r1
  r2 = r2
  k1 = k1
  k2 = k2
  Keys = {k1, k2}
  Workers = {w1, w2}
  Reviewers = {}
  Asserted <- TrueOrWord
  TypeOf <- MixedTypes
  MaxId = 4
  MaxCands = 2
INVARIANTS TypeOK LookupIsUnique OneLive ChainIsLinear
PROPERTIES HistoryKept TransactionsEnd
