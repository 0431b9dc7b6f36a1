SPECIFICATION Spec
CONSTANTS
  Keys = {"k1"}
  Users = {"ann"}
  Orgs = {"org"}
  Managers <- MCManagers
  Requests = {p1, p2, p3}
  NoUser = NoUser
  NoKey = NoKey
  ExpiresIn = {1}
  DefaultExpiresIn <- MCNoExpiry
  DefaultRemaining = 1
  HostQuotas = {1}
  RefillInterval = 1
  RefillAmount = 2
  RateLimited = TRUE
  Window = 1
  MaxRequests = 2
  Throttle = 1
  Second = 1
  Faults = TRUE
  Ops = {"use", "get", "list", "create", "disable", "renew", "delete"}
  MaxTime = 2
  p1 = p1
  p2 = p2
  p3 = p3
  p4 = p4
  p5 = p5
SYMMETRY SymRequests
INVARIANT QuotaConserved
INVARIANT WindowLimit
INVARIANT RevocationBinds
CHECK_DEADLOCK FALSE
