SPECIFICATION Spec
CONSTANTS
  e1 = e1
  e2 = e2
  e3 = e3
  c1 = c1
  c2 = c2
  d1 = d1
  d2 = d2
  Event = {e1, e2}
  Routed = {e1, e2}
  Unsupported = {e2}
  Dispatcher = {d1}
  Consumer = {c1, c2}
  BatchSize = 2
  MaxRetries = 1
  MaxFaults = 1
  NoEvent = NoEvent
  NoToken = NoToken
CHECK_DEADLOCK FALSE
PROPERTY DeliveryImplemented
