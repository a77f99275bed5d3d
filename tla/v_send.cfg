SPECIFICATION FairSpec
CONSTANTS
  c1 = c1
  c2 = c2
  Callers = {c1, c2}
  Ops = {"SIGSTOP", "SIGPIPE"}
  LongWaits = {}
  Modes = {"restore"}
  MaxRequests = 3
  ChanCap = 1
  ChainLimit = 0
  MaxCalls = 1
PROPERTIES RequestsReturn
CHECK_DEADLOCK FALSE
