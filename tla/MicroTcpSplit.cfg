SPECIFICATION Spec
CONSTANTS
  Sends = {"s1"}
  Events = {}
  Unknown = {}
  Untimed = {}
  MaxConnects = 1
  MaxBreaks = 0
  Splits = {"toServer", "toClient"}
INVARIANTS NoFrameRejected
CHECK_DEADLOCK FALSE
