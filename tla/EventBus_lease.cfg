SPECIFICATION SafetySpec
CONSTANTS
  e1 = e1
  e2 = e2
  e3 = e3
  c1 = c1
  c2 = c2
  d1 = d1
  d2 = d2
  Event = {e1}
  Routed = {e1}
  Unsupported = {}
  Dispatcher = {d1, d2}
  Consumer = {c1, c2}
  BatchSize = 2
  MaxRetries = 1
  MaxFaults = 2
  NoEvent = NoEvent
  NoToken = NoToken
SYMMETRY Symmetry
CHECK_DEADLOCK FALSE
INVARIANT ActiveLeaseExcludesOthers
