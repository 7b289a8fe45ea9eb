SPECIFICATION Spec
CONSTANTS
  Months = 3
  Connector = 6
  Dust = 2
  ActionFee = 1
  OutputFee = 1
  MaxAmount = 127
  Totals <- MCTotals
  BaseFees <- MCBaseFees
  MonthlyLimits <- MCMonthly
  EmergencyLimits <- MCEmergency
INVARIANTS BuiltValidates EverySatoshiPlaced OutputsRelayable FailsExactlyForCause LargestCount
CHECK_DEADLOCK FALSE
