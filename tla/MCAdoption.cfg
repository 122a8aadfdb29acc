\* A module that is known, one that has to be released, and one that speaks an
\* old protocol and has no serial; every failure of a connection, of a write and
\* of the hub.
CONSTANTS
  known = known
  stranger = stranger
  old = old
  Module = {known, stranger, old}
  Allowed = {known, old}
  OldProto = {old}
  NoSerial = {old}
  MaxConns = 2
  MaxTelems = 1
  MaxDrops = 1
  MaxRestarts = 1
  MaxFaults = 1
SPECIFICATION FairSpec
INVARIANTS
  AdoptedWasReleased
  AdoptionInv
  ReleasedStaysTrusted
PROPERTIES
  SessionsEnd
  RestartIsNotLoss
CHECK_DEADLOCK FALSE
