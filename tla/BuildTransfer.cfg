CONSTANTS
  Wallet <- FiveCoins
  Required = {1, 2, 3, 4, 5, 6, 7, 8, 9}
  MaxInputs = 3
  Supply = 8
SPECIFICATION Spec
CHECK_DEADLOCK FALSE
INVARIANTS
  PicksTransfer
  ShortIsReal
