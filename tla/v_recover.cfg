SPECIFICATION SessionsSpec
CONSTANTS Pids = {p1,p2} SessionIds = {s1} Callers = {c1,c2} NoPid = NoPid NoSession = NoSession MaxCrashes = 1 MaxCalls = 1
INVARIANTS NoStaleSession
CHECK_DEADLOCK FALSE
