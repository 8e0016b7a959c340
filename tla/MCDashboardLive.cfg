SPECIFICATION DashFairSpec
CONSTANTS
  a = a
  b = b
  r1 = r1
  r2 = r2
  NoRun = NoRun
  None = None
  Tickets <- MCOneTicket
  Runs <- MCRuns
  MaxWorkers = 1
PROPERTIES
  RunsEnd
  PageHearsComplete
CHECK_DEADLOCK FALSE
