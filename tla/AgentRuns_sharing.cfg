\* Two runs share one worker, one of them may be cancelled and its key may expire;
\* Firestore, Anthropic and E2B may throw, before or after their effect.
SPECIFICATION FairSpec
CONSTANTS
  Runs = {r1, r2}
  Workers = {w1}
  NoRun = NoRun
  Cancellable = {r1}
  MaxIterations = 1
  MaxTexts = 1
  MaxToolUses = 0
  MaxStalledCount = 1
  Faults <- OutsideExceptRedis
  LostReplies = TRUE
  KeysExpire = TRUE
  MaxWorkerCrashes = 0
  MaxApiCrashes = 0
  MaxLockLosses = 0
INVARIANTS
  CancelledOnlyIfAsked
  SettledRunMirrored
PROPERTIES
  StreamEnds
\* A run that has ended has nothing left to do.
CHECK_DEADLOCK FALSE
