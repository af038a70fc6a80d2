SPECIFICATION Spec
CONSTANTS
  Writers = {"w1", "w2"}
  MaxRows = 3
  MaxTime = 2
  MaxLimit = 2
  Attributes = {"step_free_v1", "step_free_v2", "lift_v1"}
  KeyOf <- Keys
  Initial = {"step_free_v1", "lift_v1"}
  Filters = {{}, {"step_free"}, {"step_free", "lift"}}
  MaxFacts = 2
INVARIANTS NoneTwice NoneMissed RequiresEvery
CHECK_DEADLOCK FALSE
