SPECIFICATION Spec
CONSTANTS
  Requests = {r1, r2}
  Emails = {e1}
  Passwords = {p1, p2}
  NoPassword = NoPassword
  RequireVerifiedEmail = TRUE
  MaxAttempts = 1
  CodeTTL = 1
  ResetTTL = 1
  MaxSecrets = 3
  MaxClock = 1
SYMMETRY Symmetry
INVARIANTS TypeOK SessionsAreVerified OnlyLiveCodesRedeemed
  AnsweredResetIsBurned AttemptsBounded
PROPERTIES OnlyLiveLinksChangePasswords DeadSecretsStayDead
