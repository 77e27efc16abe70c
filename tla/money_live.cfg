CONSTANTS
  Refunds = {r1}
  Outside = {o1}
  Disputes = {c1}
  Amounts = {1}
  Contested = {1}
  Technician = 1
  Commission = 0
  Vat = 0
  Withholding = 0
  Faults = {FALSE}
  Threshold = 1
  Admins = {boss}
  High = {boss}
  Client = client
  Nobody = nobody
SPECIFICATION FairSpec
PROPERTIES ApprovedIsSent PendingIsSettled
