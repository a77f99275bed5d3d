SPECIFICATION TasksSafety
CONSTANTS
    InFocus = {"jobs", "pipes", "hil", "services", "mcp", "client", "llm", "cron", "tui", "sessions", "events", "stream", "tools", "memory", "vfs", "workspace", "ipc", "boot", "notices"}
    JobIds = {j1, j2}
    NoJob = NoJob
    Watchers = {w1}
    JobEventCapacity = 2
    MaxReports = 2
    PipeConfigs <- MCPipeConfigs
    PipeCapacity = 1
    MaxWrites = 2
    HilIds = {h1}
    Clients = {"c1", "c2"}
    GatewayHasHil = TRUE
    Pids = {p1}
    SessionIds = {s1}
    Callers = {c1}
    NoPid = NoPid
    NoSession = NoSession
    MaxCrashes = 1
    MaxCalls = 1
    Units = {"u1", "u2"}
    RestartPolicy <- MCRestartPolicy
    MaxSvcPids = 3
    MaxSpawnFails = 1
    Servers = {m1}
    ToolsOf = {t1, t2}
    ToolCalls = {k1}
    Monitor = Monitor
    Nobody = Nobody
    MaxRefusals = 1
    MaxChanges = 1
    Invokers = {"i1", "i2"}
    MaxDials = 2
    Providers = {"pa", "pb"}
    Supports <- MCSupports
    DefaultOf <- MCDefaultOf
    TextFallback = "pb"
    ClientsFor <- MCClientsFor
    NoProvider = NoProvider
    Requests = {r1}
    MaxChunks = 1
    MaxOutages = 2
    Renewing = {"pa"}
    CronJobs = {"j0", "j1", "j2"}
    OnFailure <- MCOnFailure
    MaxAttempts <- MCMaxAttempts
    DueAt <- MCDueAt
    MaxCronTime = 2
    Hils = {h1}
    NoHil = NoHil
    ActionCapacity = 3
    MaxTuiEvents = 3
    MaxKeys = 3
    Publishers = {p1, p2}
    EventClasses <- MCClass
    ChunkKind = "chunk"
    ConnSession = "s1"
    ConnRole = 1
    OperatorRole = 2
    NoOwner = "none"
    NoOne = NoOne
    Subscriptions <- MCSubscription
    RingCapacity = 1
    BusCapacity = 1
    OutCapacity = 1
    MaxEvents = 2
    MaxConnects = 1
    CallNames <- MCCallNames
    SocketCapacity = 1
    ChunkCapacity = 1
    FlushPieces = 2
    MaxBytes = 2
    MaxPieces = 4
    TokenTtl = 2
    MaxClock = 3
    MaxChain = 3
    MaxGoals = 1
    Movable <- MCMovable
    Proposals <- MCProposals
    MOwners = {"u"}
    MNames = {"x", "y"}
    Keys = {k}
    Words = {w}
    Fields = {f, g}
    MSessions = {s}
    Handlers = {h1, h2}
    MaxRecords = 6
    MaxMemoryCalls = 2
    Recent = 1
    MNone = MNone
    VPaths <- MCVfsPaths
    BootPaths <- MCBootPaths
    MountTable <- MCMountTable
    MemMounts <- MCMemMounts
    Contents = {v1}
    Skeleton = Skeleton
    Gone = Gone
    Cut = Cut
    Mixed = Mixed
    AgentContexts <- MCContexts
    NoContext = NoContext
    VTasks = {t1, t2}
    MaxVfsCalls = 2
    MaxVfsCrashes = 1
    WUsers = {"a", "b", "anonymous"}
    WCalls <- MCWCalls
    WHandlers = {h1, h2}
    WFiles <- MCWFiles
    BeginWith = {"workspace", "workspace-old"}
    Within <- MCWithin
    MaxRequests = 2
    WNone = WNone
    IpcCalls = {"x1", "x2"}
    IpcServers = {1, 2}
    KindsOf <- MCKindsOf
    MaxIpcEvents = 3
    NoReply = NoReply
    Setups = {1, 2}
    Daemons = {1, 2}
    KernelEdits <- MCKernelEdits
    LlmEdits <- MCLlmEdits
    MaxCommands = 3
    MaxDeaths = 1
    NoteIds = {n1, n2}
    MaxProbes = 2
    MaxStarts = 2
CHECK_DEADLOCK FALSE
INVARIANTS TasksTypeOK WatchersHearTheTruth NothingLostOrReordered  OneProcessPerService ToolsFollowServers  AlertedOnceAtTheEnd    
