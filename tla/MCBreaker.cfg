SPECIFICATION FairSpec
CONSTANTS
  j1 = j1
  j2 = j2
  Jobs = {j1, j2}
  Cancellable = {j1, j2}
  FailsToOpen = 2
  Window = 2
  OpenFor = 2
  MaxAttempts = 2
INVARIANTS BurstOpens HalfOpenHasProbe
PROPERTIES OpensOnBurstOnly Recovery
