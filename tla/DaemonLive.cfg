\* One client, every kind of request, the drops and the automatic reconnects.
CONSTANTS
  Clients = {c1}
  MaxGen = 2
  MaxSerial = 2
  EventCap = 1
  MaxShort = 2
  Requests <- AnyRequest
  NoRequest = NoRequest
SPECIFICATION FairSpec
PROPERTIES
  DeadSessionLeaves
  InFlightReleased
  SessionsKeepPromise
CHECK_DEADLOCK FALSE
