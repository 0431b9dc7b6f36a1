SPECIFICATION Spec
CONSTANTS
  Requests = {p1, p2}
  Ops = {"sign_in", "send_otp", "verify_otp", "verify_totp", "verify_backup", "enable", "disable", "generate"}
  OtpAttempts = 1
  BackupCodes = 2
  SkipVerification = FALSE
  Faults = TRUE
  MaxCalls = 4
  MaxIds = 24
  p1 = p1
  p2 = p2
SYMMETRY SymRequests
INVARIANT TypeOK
INVARIANT AcceptedOnce
INVARIANT GuessesBounded
INVARIANT NewestOnly
CHECK_DEADLOCK FALSE
