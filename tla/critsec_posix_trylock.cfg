SPECIFICATION FairSpec
CONSTANTS
  t1 = t1
  t2 = t2
  t3 = t3
  Threads <- TwoThreads
  NoThread = none
  MaxDepth = 1
  MaxDrift = 1
  Builds = {"posix"}
  TryLockBuilds = {"posix"}
PROPERTIES NonBlockingReturns
