SPECIFICATION Spec
CONSTANTS
  Users = {"ann", "bob"}
  Tokens = {t1, t2}
  Requests = {p1, p2}
  NoUser = NoUser
  NoToken = NoToken
  ExpiresIn = 1
  UpdateAge = 1
  RefreshOn = TRUE
  DeferRefresh = TRUE
  Faults = TRUE
  Ops = {"get", "post_get", "sign_out", "list", "revoke", "revoke_all", "revoke_others"}
  MaxTime = 2
  t1 = t1
  t2 = t2
  t3 = t3
  p1 = p1
  p2 = p2
SYMMETRY SymBoth
INVARIANT AuthenticatedWasLive
INVARIANT OthersRevoked
INVARIANT IdleLimit
PROPERTY OnlyOwnerRevokes
PROPERTY KeepsPromise
CHECK_DEADLOCK FALSE
