SPECIFICATION MCSpec
CONSTANTS
  ACCESS_TTL = 1
  REFRESH_TTL = 3
  MaxTime = 2
  MaxSessions = 3
  MaxCrashes = 1
  Tabs = {"t1", "t2"}
  Slots <- MCSlots
  MaxLost = 1
  Emails = {"ann", "bob"}
  Registered = {"ann"}
  Claims <- MCClaims
  VerifyEmails = TRUE
  LOCKOUT_THRESHOLD = 2
  LOCKOUT_TIME = 2
  MFA_MAX_ATTEMPTS = 2
  RECOVERY_CODES = 1
  TOKEN_TTL <- MCTTL
  MaxTokens = 2
  MaxSecrets = 1
  MaxWrong = 3
  People = {p, q, r}
  Strangers = {r}
  Settings = {s1, s2}
  MaxUpdates = 1
INVARIANTS
  MCTypeOK
  EndedStaysEnded
  ReuseNeedsLossOrTabs
  SecondFactorSpentOnce
  OrgKeepsAdmin
PROPERTIES
  LockoutHolds
  
CHECK_DEADLOCK FALSE
