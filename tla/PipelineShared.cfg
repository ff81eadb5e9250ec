SPECIFICATION Spec
CONSTANTS
  Reqs = {"r1", "r2"}
  mds <- SharedChain
  Main <- OneStartup
  ErrorKinds = {"plain"}
  MaxNext = 1
  MaxErrors = 1
  None = None
INVARIANTS ErrorsReportedToOwner
CHECK_DEADLOCK FALSE
