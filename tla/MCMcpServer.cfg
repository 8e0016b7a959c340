SPECIFICATION McpSpec
CONSTANTS
  session = session
  Session = session
  small = small
  large = large
  unknown = unknown
  NoTicket = NoTicket
  NoOrder = NoOrder
  NoCheck = NoCheck
  NoCall = NoCall
  NaN = NaN
  NotNumber = NotNumber
  Tickets <- MCSessions
  TicketIds <- MCSessions
  TicketId <- MCSessionId
  Orders <- MCOrders
  OrderIds <- MCOrderIds
  OrderTerms <- MCTerms
  OrderAmount <- MCAmount
  AlreadyRefunded = {}
  Calls <- MCCalls
  Confidences = {10000}
  RefundHitlThreshold = 200
  AmountTolerance = 1
  LowConfidenceThreshold = 6000
  MaxRetries = 1
  MaxCalls = 4
PROPERTIES
  IdenticalGuardrails
CHECK_DEADLOCK FALSE
