CONSTANTS
  Refunds = {r1, r2}
  Outside = {}
  Disputes = {c1}
  Amounts = {3}
  Contested = {5}
  Technician = 4
  Commission = 1
  Vat = 1
  Withholding = 1
  Faults = {TRUE}
  Threshold = 4
  Admins = {op, boss}
  High = {boss}
  Client = client
  Nobody = nobody
SYMMETRY Alike
SPECIFICATION Spec
INVARIANTS TypeOK NeverOverReturned RefundedIsSum PartiesNeverOwe BookedIsReturned BigRefundsSigned FullReturnClosesOrder LostIsChargedBack
