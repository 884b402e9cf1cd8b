\* A connect that slips in between a teardown's check and its lock on the stream.
CONSTANTS
  Clients = {c1}
  MaxGen = 3
  MaxSerial = 2
  EventCap = 1
  MaxShort = 1
  Requests <- FullOnly
  NoRequest = NoRequest
SPECIFICATION CalmSpec
PROPERTY TeardownSparesNewerStream
CHECK_DEADLOCK FALSE
