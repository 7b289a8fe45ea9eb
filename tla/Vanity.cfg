SPECIFICATION FairSpec
CONSTANTS
  Workers = 2
  IndexBound = 7
  Batch = 2
  ReportEvery = 3
  CharBits = 2
  WordBits = 5
  KeyBits = 6
  MaxSuffix = 2
  Keys <- MCKeys
  Wanted <- MCWanted
INVARIANTS OneResult PrefixReproduced ExhaustiveFailure AttemptsExact ReportsApart ReportedKeyKept
PROPERTY SearchEnds
CHECK_DEADLOCK FALSE
