CONSTANTS
  Pay = {1, 2}
  NoPay = 0
  Full = 2
  Parts = {1}
  Odd = {}
  MaxDeals = 1
  MaxVoidAttempts = 1
  MaxPanel = 0
  Serial = FALSE
SPECIFICATION FairSpec
PROPERTIES EventuallyCollected CollectedIsKnown HoldReleased
