CONSTANTS
  Pay = {1, 2, 3}
  NoPay = 0
  Full = 2
  Parts = {1}
  Odd = {}
  MaxDeals = 2
  MaxVoidAttempts = 1
  MaxPanel = 0
  Serial = TRUE
SPECIFICATION Spec
INVARIANT StartedIsSecured
