SPECIFICATION DashFairSpec
CONSTANTS
  a = a
  b = b
  r1 = r1
  r2 = r2
  NoRun = NoRun
  None = None
  Tickets <- MCOneTicket
  Runs <- MCOneRun
  MaxWorkers = 1
PROPERTIES
  EvaluationReported
CHECK_DEADLOCK FALSE
