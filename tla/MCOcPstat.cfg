SPECIFICATION FairSpec
CONSTANTS
  Client = {c1, c2}
INVARIANTS TypeOK OldOwnerIsForgotten OperationalIsOwned DocIsExclusive
PROPERTIES EntersRFOTMUnowned ResetCompletes
