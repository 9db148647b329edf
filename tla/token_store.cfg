SPECIFICATION FairSpec
CONSTANTS
  c1 = c1  c2 = c2  c3 = c3
  NoCaller = NoCaller
  Callers = {c1, c2, c3}
  LockTtl = 2
  WaitSteps = 2
  SafeTtl = 3
  MinTtl = 2
  Lifetimes = {1, 6}
  Latencies = {1, 3}
  MaxTokens = 2
INVARIANT TypeOK OneRefresher CachedIsLatest CachedHasMargin
PROPERTY ReleasesOwnLock LockOpens
