SPECIFICATION Spec
CONSTANTS
  f1 = f1
  f2 = f2
  MaxKeys = 3
  MaxPackages = 2
  Friends <- MCNone
  Limits <- MCLimits
  MaxFaults = 1
INVARIANT ReplacementIsFresh
CHECK_DEADLOCK FALSE
