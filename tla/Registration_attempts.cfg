CONSTANTS
  Email = {root, ann, bob}
  Root = root
  Mistaken = {root}
  Referrer = {root}
  Ip = {ip1}
  Invite = {i1}
  Handler = {h1, h2}
  None = None
  Modes = {"invite", "moderated", "open"}
  CodeTtl = 1
  MinInterval = 0
  DayLength = 4
  OtpDailyLimit = 2
  OtpIpHourlyLimit = 2
  Hour = 1
  OtpMaxAttempts = 1
  CaptchaAfter = 1
  LookupLimit = 1
  LookupCaptchaAfter = 0
  TokenTtl = 1
  InviteTtl = 1
  Window = 1
  ReferralDailyLimit = 1
  MaxTime = 1
  MaxCodes = 2
  MaxTokens = 2
  MaxLinks = 2
  MaxWrong = 1
  MaxRequests = 4
SPECIFICATION Spec
CHECK_DEADLOCK FALSE
INVARIANT SpentAttemptsStay
