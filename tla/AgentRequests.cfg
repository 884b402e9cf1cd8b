CONSTANTS
  Callers = {c1, c2}
  a1 = a1
  a2 = a2
  s = s
  Instances = {a1, a2, s}
  Stale = {s}
  k = k
  NoKey = NoKey
  NoCaller = NoCaller
  MaxRequests = 2
  MaxChannels = 2
  MaxStops = 1
  Attempts = 1
  JournalLimit = 1
  EvictedLimit = 3
  Plans <- SafetyPlans
  Requests <- AnyOfTwo
SPECIFICATION BoundedSpec
SYMMETRY RequestSymmetry
INVARIANTS
  RequestsTypeOK
  HandshakeNamesPrimary
  WaitersAnswered
  KeyedRunsOnce
PROPERTY OutcomesKept
CHECK_DEADLOCK FALSE
