SPECIFICATION Spec
CONSTANTS
  Emails = {"a", "b", "c"}
  Names = {"m"}
  Reports <- MCNoReports
  MaxCount = 2
  MaxIds = 24
  Requests = {p1, p2}
  Ops = {"sign_up", "sign_in", "sign_in_username", "request_reset", "reset", "change_password", "verify_password", "create_user", "update_user", "set_role", "set_password", "ban", "unban", "impersonate", "stop_impersonating", "revoke_session", "revoke_sessions", "remove_user"}
  AdminPlugin = TRUE
  Faults = TRUE
  MaxCalls = 3
  SignUpEnabled = TRUE
  AutoSignIn = TRUE
  RequireVerified = TRUE
  RequireCurrent = TRUE
  RevokeOnReset = TRUE
  BanEnds = "never"
  ImpersonateAdmins = FALSE
  Sender = TRUE
  ConfirmChange = TRUE
  UpdateUnverified = TRUE
  AutoSignInVerified = TRUE
  VerifyDeletion = FALSE
  StateInCookie = FALSE
  SkipStateCheck = FALSE
  AccountCookies = TRUE
  UpdateOnSignIn = TRUE
  OverrideInfo = FALSE
  SocialSignUp = TRUE
  Linking = TRUE
  ImplicitLinking = TRUE
  Trusted = FALSE
  LocalVerified = FALSE
  OtherEmails = FALSE
  UnlinkAll = FALSE
  p1 = p1
  p2 = p2
SYMMETRY SymRequests
INVARIANT TypeOK
INVARIANT EveryAnswerEarned
INVARIANT SpentOnce
INVARIANT OustedStayOut
PROPERTY BanStands
CHECK_DEADLOCK FALSE
