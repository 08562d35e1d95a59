CONSTANTS
  Requests = {r1, r2}
  Pars = {1}
  Deposits <- OneDeposit
  MaxInputs = 2
  Supply = 2
  Window = 1
  MaxHeight = 1
  MaxDepth = 0
  MaxRestarts = 1
SPECIFICATION Spec
INVARIANT AcceptedKeepsInputs
