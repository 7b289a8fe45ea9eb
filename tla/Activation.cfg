SPECIFICATION FairSpec
CONSTANTS
  e1 = e1
  e2 = e2
  none = none
  other = other
  Epochs <- MCTwo
  Limits <- MCLimits
  NoLimits = 0
  None = none
  Other = other
  Backend = "electrum"
  Legacy = e1
  MaxGen = 2
  MaxFaults = 2
INVARIANTS SupersededStaysRetired ActiveWasAccepted AcceptedIsStaged
PROPERTY AcceptedSettles ImplementsActivePolicy
CHECK_DEADLOCK FALSE
