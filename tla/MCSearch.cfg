SPECIFICATION FairSpec
CONSTANTS
  Scopes = {"venue:read"}
  KeyScopes = {"venue:read"}
  TTL = 1
  MaxTime = 2
  MaxLogins = 1
  MaxTasks = 3
  Needed = "venue:read"
  Pool = 2
INVARIANT OneLoader
PROPERTIES ModelKept StaleForTTL SearchesEnd
CHECK_DEADLOCK FALSE
