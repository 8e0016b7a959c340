SPECIFICATION TracedFairSpec
CONSTANTS
  t1 = t1
  order = order
  NoTicket = NoTicket
  NoOrder = NoOrder
  NoCheck = NoCheck
  NoCall = NoCall
  NaN = NaN
  NotNumber = NotNumber
  Tickets <- MCOneTicket
  TicketIds <- MCOneTicket
  TicketId <- MCTicketId
  Orders <- MCOrders
  OrderIds <- MCOrders
  OrderTerms <- MCTerms
  OrderAmount <- MCAmount
  AlreadyRefunded = {}
  Calls <- MCManyCalls
  Confidences = {5996, 9000}
  RefundHitlThreshold = 200
  AmountTolerance = 1
  LowConfidenceThreshold = 6000
  MaxRetries = 1
  MaxCalls = 4
  MaxIter = 3
  MaxBatch = 2
  EnoughCalls = 3
  IterationCap = 4
  PastTraces <- MCPastTraces
INVARIANTS
  ResolverTypeOK
  StatusMatchesEffects
  HealthyMeansHandled
  NoSafetyViolations
  EffectsAccounted
  TraceShowsTrail
  EffectsTraced
PROPERTIES
  TicketsSettle
  EveryStepCounts
CHECK_DEADLOCK FALSE
