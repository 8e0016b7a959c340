SPECIFICATION RateFairSpec
CONSTANTS
  Callers = {c1, c2}
  Limit <- MCLimit
  Minute = 3
  Costs = {1, 4}
  Retries = 2
  Backoff <- MCBackoff
  MaxChats = 3
  Horizon = 1
INVARIANTS
  RateTypeOK
  RateBounded
  NoLostWakeup
PROPERTIES
  ChatsReturn
CHECK_DEADLOCK FALSE
