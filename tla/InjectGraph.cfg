SPECIFICATION Spec
CONSTANTS
  Reqs = {"r1", "r2"}
  Keys = {"A", "B", "C", "M", "S"}
  Classes = {"A", "B", "C", "M", "S"}
  Args <- GraphArgs
  Props <- GraphProps
  Binds <- GraphBinds
  Default <- ScopedByDefault
  Given <- GraphGiven
  Instances = {1}
  Wanted = {"A"}
  MaxParses = 1
  MaxErrors = 1
INVARIANTS OneScopedEach ScopedIsReady NothingDisposedInUse ScopesAreApart DisposedAtTheEnd
PROPERTIES EveryRequestEnds
CHECK_DEADLOCK FALSE
