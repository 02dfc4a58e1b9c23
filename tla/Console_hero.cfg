SPECIFICATION ConsoleSpec
CONSTANTS
  Chapters = {"hero", "graph"}
  First = "hero"
  Roles = {"OWNER", "VIEWER"}
  Preselected = "OWNER"
  Tenants = {"m_sandbox", "m_acme"}
  Tenant0 = "m_sandbox"
  Picks <- MCPicks
  MaxSignIns = 1
  MaxKeys = 1
  MaxCopies = 1
  Rows = {1, 2}
  FirstRow = 1
  Values = {"a", "b"}
  Column <- MCColumn
  Searches <- MCSearches
PROPERTIES
  HeadlineReadable
