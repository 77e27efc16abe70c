CONSTANTS
  Pay = {1, 2}
  NoPay = 0
  Full = 2
  Parts = {}
  Odd = {}
  MaxDeals = 2
  MaxVoidAttempts = 1
  MaxPanel = 0
  Serial = FALSE
SPECIFICATION Spec
INVARIANT StartedIsSecured
