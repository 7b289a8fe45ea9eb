SPECIFICATION Spec
CONSTANTS
  f1 = f1
  f2 = f2
  MaxKeys = 2
  MaxPackages = 1
  Friends <- MCOne
  Limits <- MCLimits
  MaxFaults = 0
INVARIANT FriendsPreserved
CHECK_DEADLOCK FALSE
