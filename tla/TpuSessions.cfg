SPECIFICATION FairSpec
CONSTANTS
  Threads = {t1, t2}
  MaxH = 2
  Fence = TRUE
  MaxQueue = 2
  None = None
INVARIANTS OkMeansComplete AwaitedIsMapped AwakeWhileInferring
PROPERTIES LeaseSpec IdleReleases
