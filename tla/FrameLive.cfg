\* The clock runs: a dead server and a dead socket are noticed.
CONSTANTS
  MissedLimit = 2
  QueueCap = 1
  InboxCap = 1
SPECIFICATION LiveSpec
PROPERTIES
  SilentServerDropped
  UnwritableDropped
  StopsWhenAsked
CHECK_DEADLOCK FALSE
