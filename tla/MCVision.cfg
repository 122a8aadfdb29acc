\* Commands and frames come to an end: no check for deadlock.
CONSTANTS
  shot = shot
  base = base
  area = area
  move = move
  Cmd = {shot, base, area, move}
  NoCmd = NoCmd
  TypeOf <- MCTypeOf
  RingCap = 2
  QueueCap = 1
  MaxSent = 2
  MaxFrames = 3
  MaxTroubles = 1
SPECIFICATION FairSpec
INVARIANT VisionInv
PROPERTIES
  NeverBehind
  Answered
CHECK_DEADLOCK FALSE
