\* Two requests, two threads that decide, a cache of one entry.
CONSTANTS
  ali = ali
  bo = bo
  eddy = eddy
  key1 = key1
  key2 = key2
  Actor = {ali, bo, eddy}
  ClassOf <- MCClassOf
  Path = {"local", "cellular"}
  Authority <- MCAuthority
  Ceiling <- MCCeiling
  Req = {r1, r2}
  NoReq = NoReq
  Key = {key1, key2}
  NoKey = NoKey
  Ask <- MCAsk
  Caller = {k1, k2}
  NoActor = NoActor
  CacheCap = 1
  MaxTroubles = 1
SPECIFICATION FairSpec
INVARIANTS
  GatewayTypeOK
  Authorized
  SameAnswer
  OutcomeInv
PROPERTY OverdueEnds
