SPECIFICATION FairSpec
CONSTANTS
  f1 = f1
  f2 = f2
  MaxKeys = 3
  MaxPackages = 2
  Friends <- MCOne
  Limits <- MCLimits
  MaxFaults = 2
INVARIANTS RotationInv KeysKept FundedBackedUp ScheduleOfConfiguredKey SwitchedAfterSweep
PROPERTY Restorable
CHECK_DEADLOCK FALSE
