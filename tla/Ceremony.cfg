SPECIFICATION Spec
CONSTANTS
  Proposals <- MCProposals
  Vault = 2
  Months = 2
  Connector = 2
  Dust = 1
  Mixing = 3
  MaxApprovals = 2
INVARIANTS ApprovedIsSigned FundedIsApproved HonestNotRefused
PROPERTY SignsOnlyShown
CHECK_DEADLOCK FALSE
