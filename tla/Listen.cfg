CONSTANTS
  Servers = {"http", "tcp"}
  Native = {"http"}
  Clients = {"c"}
  LastPort = 3
  Asked = {1, 2}
  Denied = {1}
  MaxListens = 2
  MaxOthers = 1
  MaxFaults = 1
SPECIFICATION Spec
INVARIANTS ResolvedWhereItListens ClosedStaysClosed PendingIsUnderWay
PROPERTIES RequestsAnswered CloseEnds
CHECK_DEADLOCK FALSE
