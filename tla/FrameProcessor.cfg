\* Every arm of the loop, in every order, against a server that may do anything.
CONSTANTS
  MissedLimit = 3
  QueueCap = 1
  InboxCap = 1
SPECIFICATION Spec
INVARIANTS
  TypeOK
  HealthyServerSpared
  ToldUnlessLetGo
PROPERTY KeepsPromise
CHECK_DEADLOCK FALSE
