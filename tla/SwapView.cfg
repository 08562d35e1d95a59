CONSTANTS
  SwapTxs <- TwoOutputs
  MaxHeight = 2
  MaxDepth = 1
  MaxBlock = 2
SPECIFICATION ViewSpec
INVARIANTS
  SettledExact
  AggregateIsFurthest
PROPERTY
  QuietViewExact
