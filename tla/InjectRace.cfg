SPECIFICATION Spec
CONSTANTS
  Reqs = {"r1", "r2"}
  Keys = {"B", "S"}
  Classes = {"B", "S"}
  Args <- PairArgs
  Props <- PairArgs
  Binds <- PairBinds
  Default <- ScopedByDefault
  Given <- PairGiven
  Instances = {}
  Wanted = {"B"}
  MaxParses = 1
  MaxErrors = 0
INVARIANTS OneSingletonEach
CHECK_DEADLOCK FALSE
