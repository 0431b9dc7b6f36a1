SPECIFICATION Spec
CONSTANTS
  Backends = {"postgres", "mysql", "sqlite"}
  OldKeys = {"k"}
  MaxCrashes = 1
  Requests = {1}
  Offers <- MCApp
  Names = {"n"}
  Owners <- MCOwners
  SessionOf <- MCSessionOf
  Disabled = {"off"}
  Trusted = {"home"}
  Allowed = {"home", "page"}
  MaxPerWindow = 2
  Overrides <- MCOverrides
  Window = 2
  ExpiresIn = 1
  MaxTime = 2
  Served <- MCServed
INVARIANT ExtractorAdmitsLive
CHECK_DEADLOCK FALSE
