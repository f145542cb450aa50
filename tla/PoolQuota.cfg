CONSTANTS
  NoIP = NoIP
  IP = {ip1}
  Cooldown = 1
  RotationRetry = 1
  Quotas = {1}
  MaxAttempts = 1
  NumNodes = 1
  Standby = {}
  Managed = {0}
  Enabled = {0}
  RequireVerified = FALSE
  Drainable = {}
  MaxLeases = 1
  MaxManual = 0
CHECK_DEADLOCK FALSE
SPECIFICATION FairSpec
PROPERTIES QuotasExpire
