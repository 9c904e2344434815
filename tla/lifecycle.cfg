SPECIFICATION FairSpec
CONSTANTS
  Calls = {h1, h2, h3}
  Runs = 3
  Activations <- NumberedActivations
  None = None
INVARIANTS NoDatabaseWorkAfterDeactivation NoPoolIsLost
PROPERTIES DeactivationEnds
CHECK_DEADLOCK FALSE
