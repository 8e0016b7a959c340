SPECIFICATION OfflineSpec
CONSTANTS
  t1 = t1
  t2 = t2
  small = small
  large = large
  old = old
  free = free
  unknown = unknown
  NoTicket = NoTicket
  NoOrder = NoOrder
  NoCheck = NoCheck
  NoCall = NoCall
  NaN = NaN
  NotNumber = NotNumber
  Tickets <- MCTickets
  TicketIds <- MCTickets
  TicketId <- MCTicketId
  Orders <- MCOrders
  OrderIds <- MCOrderIds
  OrderTerms <- MCTerms
  OrderAmount <- MCAmount
  AlreadyRefunded = {}
  WarrantyOrders = {old}
  FallbackAmount = 50
  Requests <- MCRequests
  Calls <- MCCalls
  Confidences = {5500, 9000}
  RefundHitlThreshold = 200
  AmountTolerance = 1
  LowConfidenceThreshold = 6000
  MaxRetries = 0
  MaxCalls = 12
  MaxIter = 12
  MaxBatch = 1
  EnoughCalls = 3
  IterationCap = 12
INVARIANTS
  ScriptEnds
  RefundDelivered
  GateHolds
SYMMETRY MCSymmetry
CHECK_DEADLOCK FALSE
