\* Every service but PostgreSQL may throw, and a worker may die once at any point.
SPECIFICATION FairSpec
CONSTANTS
  Runs = {r1}
  Workers = {w1}
  NoRun = NoRun
  Cancellable = {r1}
  MaxIterations = 1
  MaxTexts = 1
  MaxToolUses = 1
  MaxStalledCount = 1
  Faults <- OutsideCalls
  LostReplies = FALSE
  KeysExpire = FALSE
  MaxWorkerCrashes = 1
  MaxApiCrashes = 0
  MaxLockLosses = 0
INVARIANTS
  NoOrphanedRun
  CancelRequestKept
  AnnouncedOutcomeFinal
PROPERTIES
  RunSettles
\* A run that has ended has nothing left to do.
CHECK_DEADLOCK FALSE
