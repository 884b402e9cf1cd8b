\* A disconnect that meets an automatic reconnect already under way.
CONSTANTS
  Clients = {c1, c2}
  MaxGen = 3
  MaxSerial = 2
  EventCap = 1
  MaxShort = 1
  Requests <- UnattendedOnly
  NoRequest = NoRequest
SPECIFICATION CalmSpec
PROPERTY ClosedStaysClosed
CHECK_DEADLOCK FALSE
