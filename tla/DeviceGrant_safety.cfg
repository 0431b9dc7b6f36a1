SPECIFICATION Spec
CONSTANTS
  Codes = {"c1"}
  Users = {"ann", "bob"}
  Clients = {"tv", "cli"}
  ValidClients = {"tv"}
  Requests = {p1, p2, p3, p4}
  NoUser = NoUser
  NoCode = NoCode
  NoClient = NoClient
  Lifetime = 0
  Interval = 1
  Faults = TRUE
  Ops = {"poll", "verify", "approve", "deny"}
  MaxTime = 1
  p1 = p1
  p2 = p2
  p3 = p3
  p4 = p4
SYMMETRY SymRequests
INVARIANT DecisionStands
PROPERTY KeepsPromise
CHECK_DEADLOCK FALSE
