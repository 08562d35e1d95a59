CONSTANTS
  Deposits <- OneDeposit
  Step = 2
  MaxLength = 3
  MaxMoves = 1
  Parent <- ParentTx
  Child <- ChildTx
SPECIFICATION FairSpec
CHECK_DEADLOCK FALSE
INVARIANTS
  ProofsArrive
  StretchesAgree
PROPERTY
  Terminates
