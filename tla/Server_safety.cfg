SPECIFICATION FairSpec
CONSTANTS
  Backends = {"postgres", "mysql", "sqlite"}
  OldKeys = {"k"}
  MaxCrashes = 1
  Requests = {1, 2, 3}
  Offers <- MCOffers
  Names = {"n"}
  Owners <- MCOwners
  SessionOf <- MCSessionOf
  Disabled = {"off"}
  Trusted = {"home"}
  Allowed = {"home", "page"}
  MaxPerWindow = 2
  Overrides <- MCOverrides
  Window = 2
  ExpiresIn = 1
  MaxTime = 2
  Served <- MCServed
INVARIANT TypeOK
INVARIANT RateHolds
INVARIANT OnlyAllowedHandled
INVARIANT KeysKept
INVARIANT ServesCurrent
INVARIANT OrganizationsCanOwn
PROPERTY ComesUp
CHECK_DEADLOCK FALSE
