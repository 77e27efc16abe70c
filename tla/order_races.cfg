CONSTANTS
  Pay = {1, 2}
  NoPay = 0
  Full = 3
  Parts = {1}
  Odd = {2}
  MaxDeals = 2
  MaxVoidAttempts = 2
  MaxPanel = 1
  Serial = FALSE
SPECIFICATION Spec
INVARIANTS TypeOK OneLivePayment BookedIsCollected ReviewableIsPaid NoMissedCapture ChargedOnce NoOrphanPayment QuoteIsCurrent
PROPERTY CaptureIsDue
