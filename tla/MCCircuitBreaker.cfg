SPECIFICATION FairSpec
CONSTANTS
  Callers = {c1, c2, c3}
  MaxFailures = 2
  Timeout = 2
  HalfOpenMaxTries = 2
  FailureCap = 3
INVARIANTS TypeOK TripThreshold NeverWedged TrialAccounting
PROPERTIES OpenHoldsForTimeout Recovers
