\* A module that the configuration allows and that is adopted twice.
CONSTANTS
  known = known
  stranger = stranger
  old = old
  Module = {known}
  Allowed = {known}
  OldProto = {}
  NoSerial = {}
  MaxConns = 2
  MaxTelems = 0
  MaxDrops = 1
  MaxRestarts = 0
  MaxFaults = 0
SPECIFICATION Spec
INVARIANT LogIsHistory
CHECK_DEADLOCK FALSE
