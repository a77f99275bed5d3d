SPECIFICATION Spec
CONSTANTS
  c1 = c1
  c2 = c2
  Callers = {c1}
  Ops = {"kill"}
  LongWaits = {}
  Modes = {"fresh"}
  MaxRequests = 1
  ChanCap = 1
  ChainLimit = 0
  MaxCalls = 1
PROPERTIES FinalizedStaysFinal
