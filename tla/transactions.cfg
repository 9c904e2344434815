SPECIFICATION Spec
CONSTANTS
  alice = alice
  bob = bob
  c1 = c1
  NoRow = NoRow
  Nobody = Nobody
  Calls = {f1, f2, f3}
  Subjects = {alice, bob}
  Credentials = {c1}
  Jobs <- MixedJobs
  PoolSize = 2
  MaxPasskeys = 1
SYMMETRY CallSymmetry
INVARIANTS TypeOK NoDeadlock
PROPERTIES ImplementsAtomicTransactions
