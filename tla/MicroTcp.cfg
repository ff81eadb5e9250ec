SPECIFICATION Spec
CONSTANTS
  Sends = {"s1", "s2"}
  Events = {"e"}
  Unknown = {"s2"}
  Untimed = {"s1"}
  MaxConnects = 2
  MaxBreaks = 1
  Splits = {"toServer", "toClient"}
INVARIANTS TasksAreWaiting
PROPERTIES HealthyCallsAnswered KeepsPromise
CHECK_DEADLOCK FALSE
