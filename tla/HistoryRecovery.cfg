CONSTANTS
  original = original
  recovery = recovery
  NoRequest = NoRequest
  Request <- MCRequest
  Parent <- MCParent
  QueueCapacity = 2
CHECK_DEADLOCK FALSE
SPECIFICATION Spec
INVARIANTS RecoveryMerged
