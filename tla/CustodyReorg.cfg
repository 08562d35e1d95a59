CONSTANTS
  Requests = {r1}
  Pars = {1, 3}
  Deposits <- OneDeposit
  MaxInputs = 2
  Supply = 2
  Window = 1
  MaxHeight = 3
  MaxDepth = 2
  MaxRestarts = 1
SPECIFICATION FairSpec
INVARIANTS
  JournaledBeforeRelease
  PaidAtMostOnce
  AnswersBound
  ProofMatchesBasis
  ConfirmationHoldsTx
  SyncedStatusExact
PROPERTIES
  ImplementsPayments
  Settles
