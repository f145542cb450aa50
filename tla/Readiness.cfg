CONSTANTS
  NumNodes = 2
  Owned = {1}
  MinExits = 1
  Bootstrap = 2
  HeartbeatBudget = 3
  Tries = 2
  AtOnce = 1
  MaxFaults = 1
CHECK_DEADLOCK FALSE
SPECIFICATION ReadinessFair
INVARIANTS ReadinessTruthful
PROPERTIES HealthyExitsGetUsed
