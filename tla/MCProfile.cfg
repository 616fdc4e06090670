SPECIFICATION FairSpec
CONSTANTS
  MaxVersion = 3
  Malformed = {2}
  Callers = {c1, c2}
INVARIANTS
  StartsWithProfile
PROPERTIES
  FetchedIsApplied
  StartFailsOnlyWithoutProfile
  Converges
  RefreshReturns
CHECK_DEADLOCK FALSE
