SPECIFICATION Spec
CONSTANTS
  MaxEpochs = 2
  MaxSteps = 2
  Deposits <- MCDeposits
  Backend = "electrum"
  MonthlyDelay = 1
  EmergencyDelay = 1
  PhoneDelay = 1
  HwwDelay = 2
  MaxPool = 2
INVARIANT OldEpochInvalidated
CHECK_DEADLOCK FALSE
