SPECIFICATION FairSpec
CONSTANTS
  t1 = t1
  t2 = t2
  t3 = t3
  Threads <- TwoThreads
  NoThread = none
  MaxDepth = 2
  MaxDrift = 0
  Builds = {"posix", "win32"}
  TryLockBuilds = {"win32"}
PROPERTY UnlockReturnsRemaining
