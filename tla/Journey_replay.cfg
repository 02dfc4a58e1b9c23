SPECIFICATION JourneySafety
CONSTANTS
  normal = normal  velocity = velocity  entity = entity  audit_fail = audit_fail
  Scenarios = {normal, velocity, entity, audit_fail}
  DemoScenarios = {normal, velocity, entity}
  RingScenarios = {entity, audit_fail}
  Catalogue <- MCCatalogue
  Backend <- MCBackend
  AuditFail = audit_fail
  Initial = velocity
  Nothing = Nothing
  MaxRuns = 3
INVARIANTS
  AnsweredReplayIsShown
