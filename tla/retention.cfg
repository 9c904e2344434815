SPECIFICATION Spec
CONSTANTS
  b1 = b1
  f1 = f1
  x1 = x1
  x2 = x2
  i1 = i1
  i2 = i2
  NoRow = NoRow
  Database = Database
  Calls = {a1, a2}
  Begins = {b1}
  Finishes = {f1}
  ChallengeIds = {x1, x2}
  Target <- FinishTargets
  Instances = {i1, i2}
  Offset <- InstanceOffsets
  ChallengeTtl = 2
  ReceiptTtl = 4
  Grace = 2
  MaxSkew = 4
  MaxWait = 1
  MaxTime = 7
SYMMETRY Symmetry
INVARIANTS OneOpenCeremonyPerCommand AliveCeremonyIsKept FinishReceiptOutlivesCeremony LostReplayWasOverdue
