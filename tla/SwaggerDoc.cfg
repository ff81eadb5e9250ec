SPECIFICATION Spec
CONSTANTS
  Apps <- MCApps
  Requests <- MCRequests
INVARIANTS RefsResolve NoReentry ComponentsAreWhole ComponentsAreReached
CHECK_DEADLOCK FALSE
