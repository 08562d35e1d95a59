CONSTANTS
  Txs <- SmallTxs
  Kind <- SmallKind
  Limits = {1, 3}
  PageSize = 2
  Delay = 1
  MaxHeight = 4
  MaxDepth = 1
  MaxBlock = 1
SPECIFICATION Spec
INVARIANTS
  SweepComplete
  BalanceCountsOnce
PROPERTY
  PageIsOneChain
