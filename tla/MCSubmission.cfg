SPECIFICATION FairSpec
CONSTANTS
  MaxRequests = 3
  Keys = {"k"}
  Venues = {"here", "gone"}
  Known = {"here"}
  Texts = {"t1", "t2"}
INVARIANTS AnswersHold SameKeySameJob PollConsistent
PROPERTIES RequestsEnd
CHECK_DEADLOCK FALSE
