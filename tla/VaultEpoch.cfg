SPECIFICATION FairSpec
CONSTANTS
  MaxEpochs = 1
  MaxSteps = 2
  Deposits <- MCDeposits
  Backend = "electrum"
  MonthlyDelay = 2
  EmergencyDelay = 1
  PhoneDelay = 1
  HwwDelay = 2
  MaxPool = 2
INVARIANTS TypeOK RevocationIsWholeChain CancelledStaysCancelled
PROPERTY MonthlyRate RevocationWins
CHECK_DEADLOCK FALSE
