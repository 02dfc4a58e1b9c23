SPECIFICATION Spec
CONSTANTS
  w0 = w0  w1 = w1  w2 = w2  default = default  v1 = v1
  m1 = m1  m2 = m2  k1 = k1  t1 = t1  t2 = t2  p1 = p1  p2 = p2  p3 = p3
  Merchants = {m1, m2}
  Keys = {k1}
  NoKey = NoKey
  Txns = {t1, t2}
  Profiles = {p1, p2, p3}
  Weights <- MCWeights
  Logistic <- MCLogistic
  Linear <- MCLinear
  Quality <- MCQuality
  KnownIntent = {p2}
  DefaultConfig <- MCDefault
  NoConfig = NoConfig
  NoRecord = NoRecord
  Conflict = Conflict
  Configs <- MCConfigs
  Bodies <- MCBodies
  Sessions <- OneSession
  GraphFaults = {FALSE}
  Restarts = TRUE
  MaxRequests = 2
  MaxHistory = 2
INVARIANTS
  EveryDecisionRecorded
