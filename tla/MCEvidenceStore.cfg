\* Two threads appending, one subscriber, a queue that overflows, and a bundle
\* of several pages.
CONSTANTS
  Thread = {t1, t2}
  NoThread = NoThread
  Queue = {q1}
  QueueCap = 2
  MaxAppends = 4
  MaxCrashes = 2
  MaxFaults = 2
  TimeOf <- MCTimeOf
  OfKind = {1, 2, 4}
  PageLimit = 2
  MaxBundles = 1
SPECIFICATION ExportSpec
SYMMETRY ThreadSymmetry
INVARIANTS
  ChainLinked
  BreaksBounded
  HeadIsCommitted
  FanOutFaithful
  IInv
  BundleSound
PROPERTY LogSpec
