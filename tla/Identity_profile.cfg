SPECIFICATION Spec
CONSTANTS
  Emails = {"a", "b", "c"}
  Names = {}
  Reports <- MCNoReports
  MaxCount = 2
  MaxIds = 24
  Requests = {p1, p2}
  Ops = {"send_verification", "verify_email", "change_email", "delete_user", "delete_callback", "create_key", "register_options", "register", "authenticate_options", "authenticate", "delete_passkey"}
  AdminPlugin = TRUE
  Faults = TRUE
  MaxCalls = 4
  SignUpEnabled = TRUE
  AutoSignIn = TRUE
  RequireVerified = FALSE
  RequireCurrent = TRUE
  RevokeOnReset = TRUE
  BanEnds = "never"
  ImpersonateAdmins = FALSE
  Sender = TRUE
  ConfirmChange = TRUE
  UpdateUnverified = TRUE
  AutoSignInVerified = TRUE
  VerifyDeletion = TRUE
  StateInCookie = FALSE
  SkipStateCheck = FALSE
  AccountCookies = TRUE
  UpdateOnSignIn = TRUE
  OverrideInfo = FALSE
  SocialSignUp = TRUE
  Linking = TRUE
  ImplicitLinking = TRUE
  Trusted = FALSE
  LocalVerified = FALSE
  OtherEmails = FALSE
  UnlinkAll = FALSE
  p1 = p1
  p2 = p2
SYMMETRY SymRequests
INVARIANT EveryAnswerEarned
INVARIANT SpentOnce
INVARIANT VerifiedIsProven
INVARIANT NoOrphanKey
PROPERTY CounterForward
CHECK_DEADLOCK FALSE
