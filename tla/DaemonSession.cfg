\* Two clients racing each other, two drops and their automatic reconnects.
CONSTANTS
  Clients = {c1, c2}
  MaxGen = 3
  MaxSerial = 2
  EventCap = 1
  MaxShort = 1
  Requests <- UnattendedOnly
  NoRequest = NoRequest
SPECIFICATION FewDropsSpec
SYMMETRY Symmetry
INVARIANTS
  TypeOK
  NoOrphanSession
  CurrentDropIsHandled
  DropEvidenceKept
PROPERTY TeardownSparesNewerAlways
CHECK_DEADLOCK FALSE
