SPECIFICATION FairSpec
CONSTANTS
  Fan = 4
  Scenarios <- Every
  MaxOutstanding = 2
  Ways = 1
INVARIANTS SameAsReference CachesRight FilledRight OutstandingMatches GroupCountsWalks
PROPERTY EveryWalkEnds
CHECK_DEADLOCK FALSE
