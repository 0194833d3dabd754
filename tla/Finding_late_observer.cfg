\* A client connects while the run is about to end: only the end is still to come.
SPECIFICATION FairSpec
CONSTANTS
  Runs = {r1}
  Observers = {o1}
  MaxEvents = 0
  MaxEnds = 1
  NoObserver = NoObserver
PROPERTIES
  AuthorisedStreamEnds
\* When the streams have ended nothing is left to do.
CHECK_DEADLOCK FALSE
