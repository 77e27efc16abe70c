CONSTANTS
  Reporters = {c1, c2}
  Credible = {c1, c2}
  AutoHide = 2
  MaxEdits = 1
  Overlap = TRUE
SPECIFICATION ReviewsSpec
INVARIANT RefundedIsHidden
CHECK_DEADLOCK FALSE
