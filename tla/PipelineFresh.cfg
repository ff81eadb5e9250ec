SPECIFICATION Spec
CONSTANTS
  Reqs = {"r1", "r2", "r3"}
  mds <- FreshChain
  Main <- FreshStartups
  ErrorKinds = {"plain"}
  MaxNext = 1
  MaxErrors = 1
  None = None
INVARIANTS ErrorsReportedToOwner HooksApplyBehindThem
PROPERTIES AnswerIsFinal ServesRequests
CHECK_DEADLOCK FALSE
