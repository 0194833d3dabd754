\* A worker dies once and the run is executed again: a step is not mirrored.
SPECIFICATION Spec
CONSTANTS
  Runs = {r1}
  Workers = {w1}
  NoRun = NoRun
  Cancellable = {}
  MaxIterations = 2
  MaxTexts = 1
  MaxToolUses = 1
  MaxStalledCount = 1
  Faults <- NoServices
  LostReplies = FALSE
  KeysExpire = FALSE
  MaxWorkerCrashes = 1
  MaxApiCrashes = 0
  MaxLockLosses = 0
INVARIANTS
  SettledStepsMirrored
\* A run that has ended has nothing left to do.
CHECK_DEADLOCK FALSE
