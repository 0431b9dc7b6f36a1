SPECIFICATION Spec
CONSTANTS
  Emails = {"a", "b", "c"}
  Names = {}
  Reports <- MCReports
  MaxCount = 2
  MaxIds = 24
  Requests = {p1, p2}
  Ops = {"social_sign_in", "link_social", "callback", "id_token_sign_in", "link_id_token", "refresh_token", "get_access_token", "account_info", "unlink"}
  AdminPlugin = TRUE
  Faults = TRUE
  MaxCalls = 3
  SignUpEnabled = TRUE
  AutoSignIn = TRUE
  RequireVerified = FALSE
  RequireCurrent = TRUE
  RevokeOnReset = TRUE
  BanEnds = "never"
  ImpersonateAdmins = FALSE
  Sender = TRUE
  ConfirmChange = TRUE
  UpdateUnverified = TRUE
  AutoSignInVerified = TRUE
  VerifyDeletion = FALSE
  StateInCookie = FALSE
  SkipStateCheck = FALSE
  AccountCookies = TRUE
  UpdateOnSignIn = TRUE
  OverrideInfo = TRUE
  SocialSignUp = TRUE
  Linking = TRUE
  ImplicitLinking = TRUE
  Trusted = FALSE
  LocalVerified = FALSE
  OtherEmails = FALSE
  UnlinkAll = FALSE
  p1 = p1
  p2 = p2
SYMMETRY SymRequests
INVARIANT EveryAnswerEarned
INVARIANT NobodyStranded
INVARIANT StoredGrantLive
CHECK_DEADLOCK FALSE
