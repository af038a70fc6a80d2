SPECIFICATION FairSpec
CONSTANTS
  MaxRequests = 5
  MaxLogins = 1
INVARIANTS ChainIsClosed OneLiveToken ClosedForGood
PROPERTIES RequestsEnd
CHECK_DEADLOCK FALSE
