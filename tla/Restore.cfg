SPECIFICATION Spec
CONSTANTS
  MaxAddresses = 3
  MaxPayments = 2
  StopGap = 2
  Lookahead = 1
  Proposal = 2
  MaxFaults = 1
  f1 = f1
  f2 = f2
  Friends <- MCFriends
  MaxCloudFaults = 1
INVARIANTS TypeOK NoBlockSkipped FriendsKeepAccess OnlyAddedFriends
PROPERTY RestoreDiscovers RevealedAreFound
SYMMETRY MCSymmetry
CHECK_DEADLOCK FALSE
