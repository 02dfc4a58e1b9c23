SPECIFICATION Spec
CONSTANTS
  w1 = w1  w2 = w2  w3 = w3
  e1 = e1  e2 = e2  t1 = t1  t2 = t2  m1 = m1  m2 = m2  d1 = d1
  EventIds = {e1, e2}
  TxnIds = {t1, t2}
  Merchants = {m1, m2}
  Devices = {d1}
  NoValue = NoValue
  NoRow = NoRow
  Workers = {w1, w2, w3}
  Envelopes <- MCEnvelopes
  Faults <- MCFaults
SYMMETRY Symmetry
INVARIANTS
  TypeOK
  AcceptedOnce
  EvidenceStepIsExclusive
  HealthyRejections
  HealthyAcceptances
PROPERTIES
  OrphansStay
  DeviceNeverLost
  ImplementsEventLog
