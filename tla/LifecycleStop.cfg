SPECIFICATION Spec
CONSTANTS
  Pids = {p1, p2}
  Commands = {c1, c2}
  Shell = Shell
  NoMark = NoMark
  MaxStarts = 2
  MaxFaults = 1
PROPERTY CalmStopIsHonest
CHECK_DEADLOCK FALSE
