CONSTANTS
  Requests = {r1, r2}
  Pars = {1}
  Deposits <- OneDeposit
  MaxInputs = 2
  Supply = 2
  Window = 1
  MaxHeight = 2
  MaxDepth = 1
  MaxRestarts = 0
SPECIFICATION FairSpec
INVARIANT TypeOK
PROPERTIES
  OrphansInReach
  Settles
