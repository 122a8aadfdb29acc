\* A queue and a backlog limit small enough to overflow.
CONSTANTS
  Thread = {t1}
  NoThread = NoThread
  Queue = {c1}
  QueueCap = 2
  MaxAppends = 4
  MaxCrashes = 1
  MaxFaults = 1
  BacklogLimit = 2
  MaxHangups = 1
SPECIFICATION FairStreamSpec
INVARIANTS
  GapFree
  StreamInv
PROPERTY Delivered
CHECK_DEADLOCK FALSE
