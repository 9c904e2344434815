SPECIFICATION RegisteredSpec
CONSTANTS
  alice = alice
  bob = bob
  k1 = k1
  k2 = k2
  c1 = c1
  c2 = c2
  p1 = p1
  p2 = p2
  x1 = x1
  x2 = x2
  x3 = x3
  app = app
  other = other
  NoRow = NoRow
  MaxOrphans = 1
  MaxExpired = 0
  Calls = {f1, f2}
  Subjects = {alice}
  Credentials = {c1}
  PasskeyIds = {p1}
  ChallengeIds = {x1}
  Requests <- ReceiptRequests
  Counters = {0}
  DirectoryStatuses = {"active", "disabled"}
  ManagementCallers = {app}
  AuthenticationCallers = {app}
  MaxPasskeys = 1
SYMMETRY CallSymmetry
CONSTRAINT Bound
INVARIANTS CommandOwnership RecordedErrorsReplay OneSessionPerCeremony
PROPERTIES AnswerMatchesReceipt ImplementsCommandReceipts
