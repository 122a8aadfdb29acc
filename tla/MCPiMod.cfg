\* The module may be left with nothing to receive: no check for deadlock.
CONSTANTS
  run1 = run1
  run2 = run2
  take = take
  back = back
  halt = halt
  Cmd = {run1, run2, take, back, halt}
  NoCmd = NoCmd
  TypeOf <- MCTypeOf
  Timeline <- MCTimeline
  RingCap = 1
  MaxBreaks = 1
  MaxTroubles = 1
SPECIFICATION FairSpec
INVARIANTS
  PiInv
  AuthorityKept
  AbortCounts
PROPERTIES
  BusyEnds
  ResultIfLinked
CHECK_DEADLOCK FALSE
