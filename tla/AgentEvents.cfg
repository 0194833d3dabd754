\* Three clients observe a run of which two executions publish: the Subject of the
\* first stream, one made for the second, and a client that joins that one.
SPECIFICATION FairSpec
CONSTANTS
  Runs = {r1}
  Observers = {o1, o2, o3}
  MaxEvents = 2
  MaxEnds = 2
  NoObserver = NoObserver
INVARIANTS
  TypeOK
  SubscriptionFollowsSubject
  ReceivedUninterrupted
PROPERTIES
  AttachedStreamEnds
\* When the streams have ended nothing is left to do.
CHECK_DEADLOCK FALSE
