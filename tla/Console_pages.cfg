SPECIFICATION ConsoleSpec
CONSTANTS
  Chapters = {"hero", "graph"}
  First = "hero"
  Roles = {"OWNER", "VIEWER"}
  Preselected = "OWNER"
  Tenants = {"m_sandbox", "m_acme"}
  Tenant0 = "m_sandbox"
  Picks <- MCPicks
  MaxSignIns = 2
  MaxKeys = 2
  MaxCopies = 2
  Rows = {1, 2}
  FirstRow = 1
  Values = {"a", "b"}
  Column <- MCColumn
  Searches <- MCSearches
INVARIANTS
  ConsoleTypeOK
  NoFrameLeftBehind
PROPERTIES
  RevealsArrive
  SecretShownOnce
  SignInArrives
  NothingStaysPending
