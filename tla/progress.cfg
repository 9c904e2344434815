SPECIFICATION FairSpec
CONSTANTS
  alice = alice
  bob = bob
  c1 = c1
  NoRow = NoRow
  Nobody = Nobody
  Calls = {f1, f2, f3}
  Subjects = {alice, bob}
  Credentials = {c1}
  Jobs <- EnrollmentJobs
  PoolSize = 2
  MaxPasskeys = 1
PROPERTIES EveryTransactionEnds
