\* Two modules of one role, a thread that acknowledges. The engine's thread may
\* die, and then nothing is left to do: no check for deadlock.
CONSTANTS
  Module = {a, b}
  NoModule = NoModule
  Rule <- MCRule
  Caller = {k1}
  Streak = 2
  QueueCap = 2
  MaxInputs = 5
  MaxTroubles = 1
SPECIFICATION FairSpec
INVARIANT AlarmInv
PROPERTIES
  LifeCycle
  AlarmsFollow
CHECK_DEADLOCK FALSE
