SPECIFICATION Spec
CONSTANTS
  c1 = c1
  c2 = c2
  Callers = {c1, c2}
  Ops = {"pause", "resume", "kill", "SIGSTART", "SIGSTOP", "SIGSAVE"}
  LongWaits = {"pausedWait", "waitGoal"}
  Modes = {"fresh", "restore"}
  MaxRequests = 2
  ChanCap = 1
  ChainLimit = 1
  MaxCalls = 2
SYMMETRY CallerSymmetry
INVARIANTS TypeOK PausedConsumesNothing PauseIsRecorded ChainWithinLimit KernelFinalizesOnce
PROPERTIES PauseHolds ImplementsMailbox
