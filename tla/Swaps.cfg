CONSTANTS
  SwapIDs = {s1}
  RefundHeights = {2}
  Pars = {1}
  Deposits <- OneCoin
  Window = 1
  MaxHeight = 3
  MaxDepth = 1
  MaxRestarts = 1
SPECIFICATION Spec
INVARIANTS
  OneTransactionPerAction
  TermsHold
  PromptFundingLocked
