SPECIFICATION Spec
CONSTANTS
  alice = alice
  bob = bob
  k1 = k1
  k2 = k2
  c1 = c1
  c2 = c2
  p1 = p1
  p2 = p2
  x1 = x1
  x2 = x2
  x3 = x3
  app = app
  other = other
  NoRow = NoRow
  MaxOrphans = 0
  MaxExpired = 1
  Calls = {f1, f2}
  Subjects = {alice}
  Credentials = {c1, c2}
  PasskeyIds = {p1, p2}
  ChallengeIds = {x1, x2}
  Requests <- RegistrationRequests
  Counters = {0}
  DirectoryStatuses = {"active"}
  ManagementCallers = {app}
  AuthenticationCallers = {app}
  MaxPasskeys = 1
SYMMETRY Symmetry
CONSTRAINT Bound
ACTION_CONSTRAINT ReceiptsKept
INVARIANTS CredentialLimit OpenRegistrationsFit
