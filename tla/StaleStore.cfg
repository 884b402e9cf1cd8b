\* A connect that overlaps a newer one: is a dead session ever stored for good?
CONSTANTS
  Clients = {c1, c2}
  MaxGen = 3
  MaxSerial = 2
  EventCap = 1
  MaxShort = 1
  Requests <- UnattendedOnly
  NoRequest = NoRequest
SPECIFICATION CalmSpec
INVARIANT NoForgottenDeadSession
CHECK_DEADLOCK FALSE
