SPECIFICATION StoreSpec
CONSTANTS
  Clients = {c1, c2}
  TicketIds = {t1}
  Keys = {k1, k2}
  MaxRows = 5
INVARIANTS
  StoreTypeOK
  AcknowledgedSurvives
PROPERTIES
  FirstResultStays
CHECK_DEADLOCK FALSE
