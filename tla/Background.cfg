CONSTANTS
  original = original
  recovery = recovery
  NoRequest = NoRequest
  Request <- MCRequest
  Parent <- MCParent
  QueueCapacity = 2
  Managed = {1}
  Protected = {4}
  Job = {j1, j2}
  MaxJobs = 2
  MaxFaults = 1
CHECK_DEADLOCK FALSE
SPECIFICATION FairBackgroundSpec
INVARIANTS BytesAccounted RunningRowWillEnd MissingInboundFlagged
PROPERTIES
  TerminalStateKept EveryCompletionRecorded
  ProtectedKept RotationRenews ContainersReturn
