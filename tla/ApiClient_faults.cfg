SPECIFICATION ClientSpec
CONSTANTS
  c1 = c1  c2 = c2  s404 = s404  s500 = s500
  Calls = {c1, c2}
  Refusals = {s404, s500}
  Nothing = Nothing
INVARIANTS
  RefusalIsReported
  HealthIsToldApart
PROPERTIES
  EveryCallSettles
  ImplementsRemoteCall
CHECK_DEADLOCK FALSE
