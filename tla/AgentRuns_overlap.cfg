\* Two workers, and a job whose lock lapses while its worker lives, so that two
\* executions of the run overlap; a worker may die once, too.
SPECIFICATION Spec
CONSTANTS
  Runs = {r1}
  Workers = {w1, w2}
  NoRun = NoRun
  Cancellable = {}
  MaxIterations = 1
  MaxTexts = 1
  MaxToolUses = 1
  MaxStalledCount = 1
  Faults <- NoServices
  LostReplies = FALSE
  KeysExpire = FALSE
  MaxWorkerCrashes = 1
  MaxApiCrashes = 0
  MaxLockLosses = 1
SYMMETRY WorkerSymmetry
INVARIANTS
  StepsContiguous
  TranscriptPaired
  MirroredStepsMatch
\* A run that has ended has nothing left to do.
CHECK_DEADLOCK FALSE
