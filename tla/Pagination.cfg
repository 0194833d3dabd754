\* Four rows, pages of one or two of them, and each of the four listings.
SPECIFICATION Spec
CONSTANTS
  Listings = {"sessions", "messages", "agentRuns", "steps"}
  MaxRows = 4
  MaxLimit = 2
  MaxTime = 2
  MaxUpdates = 2
INVARIANTS
  ListedInOrder
  NothingMissed
  SeenOnce
  StepsWithoutGap
\* A walk ends.
CHECK_DEADLOCK FALSE
