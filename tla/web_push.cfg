\* Two browsers come and go while two executions broadcast; one starts beside
\* the other, one fails.
CONSTANTS
  Job = {j1, j2}
  Endpoint <- Endpoints2
  MaxFaults = 1
  MaxOverlaps = 1
SPECIFICATION Spec
INVARIANTS
  TypeOK
  LiveSubscribersKept
  DuplicatesNeedFaultOrOverlap
PROPERTY StandingSubscriberTried
