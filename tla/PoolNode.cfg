CONSTANTS
  NoIP = NoIP
  IP = {ip1}
  Cooldown = 1
  RotationRetry = 1
  Quotas = {1}
  MaxAttempts = 2
  NumNodes = 1
  Standby = {}
  Managed = {0}
  Enabled = {0}
  RequireVerified = FALSE
  Drainable = {0}
  MaxLeases = 2
  MaxManual = 1
CHECK_DEADLOCK FALSE
SPECIFICATION Spec
INVARIANTS TypeOK Coherence
