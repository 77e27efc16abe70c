CONSTANTS
  Reviewers = {rev}
  Supervisors = {sup}
  System = system
  Technician = technician
  Nobody = nobody
  Categories = {"IDENTITY", "ADDRESS"}
  Names = {"yes", "no"}
  Reports = {"complete", "started"}
SPECIFICATION KycSpec
INVARIANTS KycTypeOK HeldIsEligible SuspendedIsBlocked ApprovedIsProven
PROPERTY JobsCatchUp
