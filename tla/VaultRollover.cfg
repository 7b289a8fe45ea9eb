SPECIFICATION Spec
CONSTANTS
  MaxEpochs = 2
  MaxSteps = 1
  Deposits <- MCDeposits
  Backend = "core"
  MonthlyDelay = 1
  EmergencyDelay = 1
  PhoneDelay = 1
  HwwDelay = 1
  MaxPool = 2
INVARIANT OldOutputsSpent
PROPERTY MonthlyRate
CHECK_DEADLOCK FALSE
