CONSTANTS
  Refunds = {r1}
  Outside = {}
  Disputes = {c1}
  Amounts = {3}
  Contested = {7}
  Technician = 4
  Commission = 1
  Vat = 1
  Withholding = 1
  Faults = {TRUE}
  Threshold = 7
  Admins = {op, boss}
  High = {boss}
  Client = client
  Nobody = nobody
SPECIFICATION Spec
INVARIANT FailedIsUnpaid
