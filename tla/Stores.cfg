CONSTANTS
  p1 = p1
  p2 = p2
  p3 = p3
  CacheUrls = {u1, u2, u3, u4, u5}
  Hashes = {a}
  NoHash = NoHash
  MaxEntries = 4
  Fills <- FullAndBare
  Clients = {c1, c2, c3}
  Limit = 2
  MaxIps = 1
  Window = 2
  MaxTime = 4
  Pages = {p1, p2, p3}
  PageKey <- KeyOf
  PageValue <- ValueOf
  SourceValue <- ValueOfSource
  Depths <- UpToTwo
  MaxLinkDepth = 1
  MaxCrawled = 1
  Labels = {en, hi}
  Gauges = {g1, g2, g3, g4}
  Samples = {1, 2}
  MaxSamples = 3
  MaxCalls = 6
  Callers = {a1, a2, a3}
  Token = 2
  Flow = 1
  Burst = 4
  Nobody = Nobody
SPECIFICATION ProcessSpec
INVARIANTS
  StoresInv
  LimitHolds
  TwiceTheRateAtMost
PROPERTIES
  OldestGoFirst
  EveryCallerIsServed
CHECK_DEADLOCK FALSE
