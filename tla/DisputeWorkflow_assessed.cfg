SPECIFICATION Spec
CONSTANTS
  w1 = w1  w2 = w2  d1 = d1  d2 = d2  t1 = t1  t2 = t2
  large = large  small = small  fraud = fraud  duplicate = duplicate
  Disputes = {d1, d2}
  Txns = {t1, t2}
  Profiles = {large, small}
  Claims = {fraud, duplicate}
  Unknown = Unknown
  Unlisted = Unlisted
  WorthFighting <- MCWorth
  Events <- MCEvents
  MaxIterations = 2
  NoState = NoState
  NoRow = NoRow
  Workers = {w1}
  Faults = {}
  Crashes = FALSE
  MaxDeliveries = 1
INVARIANTS
  NoServerError
