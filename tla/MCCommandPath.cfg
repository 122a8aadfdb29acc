\* Two commands, a breaking connection, a stall, restarts of both sides.
CONSTANTS
  Cmd = {c1, c2}
  NoCmd = NoCmd
  RingCap = 2
  MaxStalls = 1
  MaxBlips = 1
  MaxReboots = 1
  MaxRestarts = 1
SPECIFICATION FairSpec
INVARIANTS
  PathInv
  OneRun
  ResultOnce
  NoOrphan
PROPERTY EndsIfNoticed
CHECK_DEADLOCK FALSE
