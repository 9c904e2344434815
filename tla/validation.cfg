SPECIFICATION Spec
CONSTANTS
  Configs <- AllConfigs
  Requests <- AllRequests
  MaxRevision = 3
  MaxTaken = 2
  None = None
INVARIANTS OriginsAreDistinctAndOwn AcceptedRequestsFitTheTables OneSpellingPerRevision
CHECK_DEADLOCK FALSE
