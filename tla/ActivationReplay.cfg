SPECIFICATION Spec
CONSTANTS
  e1 = e1
  e2 = e2
  none = none
  other = other
  Epochs <- MCTwo
  Limits <- MCLimits
  NoLimits = 0
  None = none
  Other = other
  Backend = "electrum"
  Legacy = none
  MaxGen = 1
  MaxFaults = 1
PROPERTY ReplayNeverReplaces
CHECK_DEADLOCK FALSE
