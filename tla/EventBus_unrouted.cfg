SPECIFICATION SafetySpec
CONSTANTS
  e1 = e1
  e2 = e2
  e3 = e3
  c1 = c1
  c2 = c2
  d1 = d1
  d2 = d2
  Event = {e1, e3}
  Routed = {e1}
  Unsupported = {}
  Dispatcher = {d1}
  Consumer = {c1}
  BatchSize = 2
  MaxRetries = 1
  MaxFaults = 0
  NoEvent = NoEvent
  NoToken = NoToken
CHECK_DEADLOCK FALSE
INVARIANT PublishedHasReceiver
