SPECIFICATION DashSpec
CONSTANTS
  a = a
  b = b
  r1 = r1
  r2 = r2
  NoRun = NoRun
  None = None
  Tickets <- MCTickets
  Runs <- MCRuns
  MaxWorkers = 1
INVARIANTS
  DashTypeOK
  CompletedMeansDurable
  CompleteMeansAllIn
  RunningMeansBusy

CHECK_DEADLOCK FALSE
