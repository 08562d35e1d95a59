CONSTANTS
  Values <- ThreeOutputs
  QdayHeight = 2
  Shield = 32
  MaxInputs = 2
  Fee = 1
  Slack = 2
  MineDelay = 1
  MaxHeight = 36
  MaxWithdrawals = 1
  MaxRestarts = 1
SPECIFICATION Spec
INVARIANT
  RenewedInTime
PROPERTIES
  DefendSparesJournal
  UnitReviewed
