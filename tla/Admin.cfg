SPECIFICATION Spec
CONSTANTS
  Operators = {o1, o2}
  Settings = {s1, s2}
  Providers = {p1, p2}
  Secrets = {1, 2, 3}
  Default = Default
  Namings = {{"provider", "key", "pool"}}
  MaxEdits = 2
  MaxFaults = 2
  Requests = {r1}
  Quota = 1
  MaxConcurrent = 1
  MaxDays = 1
INVARIANTS UncontestedApplyKept KeysFitUpstream DecisionsHold QuotaCarriesOver
CHECK_DEADLOCK FALSE
SYMMETRY Symmetry
CONSTRAINT Apart
