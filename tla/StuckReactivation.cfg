\* A server that falls silent during a reactivation.
CONSTANTS
  MissedLimit = 2
  QueueCap = 1
  InboxCap = 1
SPECIFICATION LiveSpec
PROPERTY DeadServerNoticed
CHECK_DEADLOCK FALSE
