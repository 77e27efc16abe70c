CONSTANTS
  Side = {"FRONT", "BACK"}
  MaxAttempts = 2
  MaxFalls = 1
  Reporters = {c1, c2}
  Credible = {c1, c2}
  AutoHide = 2
  MaxEdits = 2
  Overlap = TRUE
  Families = {f1}
  MaxTokens = 4
  MaxVersion = 2
  Refreshes = {1, 2}
  MaxFailedLogins = 2
  Callers = {1, 2, 3}
  Body <- MCBody
  Nothing = Nothing
  Events = {e1, e2}
  WebhookAttempts = 2
  Limit = 1
  MaxRequeues = 1
  MaxStops = 1
  Terms <- MCTerms
  Rates <- MCRates
  Prices <- MCPrices
  Discounts = {0, 1, 2, 3, 5, 8}
  ProviderRate = 360
  ProviderFixed = 3
  MinService = 50
  MaxService = 400
  RuleScopes = {"GLOBAL", "CATEGORY"}
  Proposed <- MCProposed
  Seed <- MCSeed
  Managers = {m1, m2}
  NoRule = NoRule
  Grace = 1
  Horizon = 2
  MaxRules = 3
  Writers = {w1, w2}
  NoWriter = NoWriter
  Tickets = {t1}
  NoTicket = NoTicket
  MaxEntries = 4
SPECIFICATION ServicesSpec
INVARIANTS ServicesTypeOK ReviewableIsClean FlaggedIsCleared ReusedFamilyIsDead EventTakesEffectOnce SplitIsExact RuleInForce ChainHoldsEveryView
PROPERTIES FileSettles NeverRepublished EventSettles RunsAtMostOnce
CHECK_DEADLOCK FALSE
