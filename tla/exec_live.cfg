SPECIFICATION FairSpec
CONSTANTS
  c1 = c1
  c2 = c2
  Callers = {c1, c2}
  Ops = {"SIGKILL", "pause", "SIGSTART"}
  LongWaits = {}
  Modes = {"fresh"}
  MaxRequests = 2
  ChanCap = 1
  ChainLimit = 0
  MaxCalls = 1
PROPERTIES RequestsReturn SignalsConsumed GoalRuns
