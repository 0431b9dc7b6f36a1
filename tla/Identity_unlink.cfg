SPECIFICATION Spec
CONSTANTS
  Emails = {"a", "b", "c"}
  Names = {}
  Reports <- MCNoReports
  MaxCount = 2
  MaxIds = 24
  Requests = {p1, p2}
  Ops = {"unlink"}
  AdminPlugin = TRUE
  Faults = FALSE
  MaxCalls = 1
  SignUpEnabled = TRUE
  AutoSignIn = TRUE
  RequireVerified = FALSE
  RequireCurrent = TRUE
  RevokeOnReset = TRUE
  BanEnds = "never"
  ImpersonateAdmins = FALSE
  Sender = TRUE
  ConfirmChange = TRUE
  UpdateUnverified = TRUE
  AutoSignInVerified = TRUE
  VerifyDeletion = FALSE
  StateInCookie = FALSE
  SkipStateCheck = FALSE
  AccountCookies = TRUE
  UpdateOnSignIn = TRUE
  OverrideInfo = FALSE
  SocialSignUp = TRUE
  Linking = TRUE
  ImplicitLinking = TRUE
  Trusted = FALSE
  LocalVerified = FALSE
  OtherEmails = FALSE
  UnlinkAll = FALSE
  p1 = p1
  p2 = p2
SYMMETRY SymRequests
INVARIANT AlwaysAWayIn
CHECK_DEADLOCK FALSE
