\* A thread that has ended and modules that are gone leave nothing to do: no
\* check for deadlock.
CONSTANTS
  m1 = m1
  m2 = m2
  Module = {m1, m2}
  Early = {m1}
  MaxMoves = 2
  MaxTroubles = 1
SPECIFICATION FairSpec
INVARIANT SchedInv
PROPERTY CadenceGoesOn
CHECK_DEADLOCK FALSE
