SPECIFICATION Spec
CONSTANTS
  Pids = {p1, p2}
  Commands = {c1, c2}
  Shell = Shell
  NoMark = NoMark
  MaxStarts = 2
  MaxFaults = 2
INVARIANTS SignalsVerified SuccessfulExitLosesNothing
PROPERTIES TrackingTruthful
CHECK_DEADLOCK FALSE
SYMMETRY Symmetry
CONSTRAINT Apart
