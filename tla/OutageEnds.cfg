\* An outage with nobody at the keyboard, under the fairness of the runtime.
CONSTANTS
  Clients = {c1}
  MaxGen = 3
  MaxSerial = 1
  EventCap = 2
  MaxShort = 2
  Requests <- UnattendedOnly
  NoRequest = NoRequest
SPECIFICATION CalmFairSpec
PROPERTY OutageEnds
CHECK_DEADLOCK FALSE
