SPECIFICATION Spec
CONSTANTS
  Calls = {"c"}
  MaxItems = 2
  MaxBreaks = 1
INVARIANTS NoLostWakeup EndMeansAll
PROPERTIES StreamsEnd KeepsPromise
CHECK_DEADLOCK FALSE
