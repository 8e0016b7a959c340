SPECIFICATION RestartSpec
CONSTANTS
  t1 = t1
  order = order
  NoTicket = NoTicket
  NoOrder = NoOrder
  NoCheck = NoCheck
  NoCall = NoCall
  NaN = NaN
  NotNumber = NotNumber
  Tickets <- MCTickets
  TicketIds <- MCTickets
  TicketId <- MCTicketId
  Orders <- MCOrders
  OrderIds <- MCOrders
  OrderTerms <- MCTerms
  OrderAmount <- MCAmount
  AlreadyRefunded = {}
  Calls <- MCCalls
  Confidences = {5500, 9000}
  RefundHitlThreshold = 200
  AmountTolerance = 1
  LowConfidenceThreshold = 6000
  MaxRetries = 0
  MaxCalls = 3
  MaxIter = 3
  MaxBatch = 1
  EnoughCalls = 3
  IterationCap = 4
  MaxRestarts = 1
INVARIANTS
  PaidOnceEver
CHECK_DEADLOCK FALSE
