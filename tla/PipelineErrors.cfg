SPECIFICATION Spec
CONSTANTS
  Reqs = {"r1"}
  mds <- ErrorChain
  Main <- OneStartup
  ErrorKinds = {"plain", "breakthrough", "primitive"}
  MaxNext = 2
  MaxErrors = 2
  None = None
INVARIANTS ErrorAccounting NextSparesItsCaller
CHECK_DEADLOCK FALSE
