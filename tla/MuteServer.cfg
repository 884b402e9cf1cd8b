\* A server that ignores refreshes, on an idle desktop.
CONSTANTS
  MissedLimit = 3
  QueueCap = 1
  InboxCap = 1
SPECIFICATION IdleSpec
INVARIANT MuteServerNeverArms
CHECK_DEADLOCK FALSE
