SPECIFICATION MCSpec
CONSTANTS
  NoIP = NoIP
  IP = {ip1, ip2}
  Cooldown = 1
  RotationRetry = 1
  Quotas = {1}
  MaxAttempts = 1
  NumNodes = 2
  Standby = {1}
  Managed = {0}
  Enabled = {0}
  RequireVerified = FALSE
  Drainable = {}
  MaxLeases = 2
  MaxManual = 0
  MaxFaults = 2
  MaxRequests = 2
CONSTRAINT FewRequests
INVARIANTS UniqueExit ProtectedUntouched
PROPERTIES FreshLeaseOutsideQuota
CHECK_DEADLOCK FALSE
