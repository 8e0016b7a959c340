SPECIFICATION Spec
CONSTANTS
  t1 = t1
  t2 = t2
  id = id
  small = small
  large = large
  repaid = repaid
  unknown = unknown
  NoTicket = NoTicket
  NoOrder = NoOrder
  NoCheck = NoCheck
  NoCall = NoCall
  NaN = NaN
  NotNumber = NotNumber
  Tickets <- MCTickets
  TicketIds <- MCTicketIds
  TicketId <- MCTicketId
  Orders <- MCOrders
  OrderIds <- MCOrderIds
  OrderTerms <- MCTerms
  OrderAmount <- MCAmount
  AlreadyRefunded <- MCRepaid
  Calls <- MCNaNCalls
  Confidences = {5500, 9000}
  RefundHitlThreshold = 200
  AmountTolerance = 1
  LowConfidenceThreshold = 6000
  MaxRetries = 1
  MaxCalls = 3
INVARIANTS
  RefundsWithinEligible
CHECK_DEADLOCK FALSE
