\* PostgreSQL, Firestore and Anthropic may throw, before or after their effect, and
\* the API process may die once.
SPECIFICATION Spec
CONSTANTS
  Runs = {r1}
  Workers = {w1}
  NoRun = NoRun
  Cancellable = {r1}
  MaxIterations = 2
  MaxTexts = 2
  MaxToolUses = 2
  MaxStalledCount = 1
  Faults <- CallsOutcome
  LostReplies = TRUE
  KeysExpire = FALSE
  MaxWorkerCrashes = 0
  MaxApiCrashes = 1
  MaxLockLosses = 0
INVARIANTS
  TypeOK
  EnqueuedRunRecorded
  LateCallBound
  CountedOnce
  SandboxesOwned
PROPERTIES
  ImplementsLifecycle
\* A run that has ended has nothing left to do.
CHECK_DEADLOCK FALSE
