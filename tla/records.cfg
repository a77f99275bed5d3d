SPECIFICATION RecordsSpec
CONSTANTS
    Pids = {p1, p2}
    SessionIds = {s1}
    Callers = {c1, c2}
    NoPid = NoPid
    NoSession = NoSession
    MaxCrashes = 1
    MaxCalls = 1
    Publishers = {p1, p2}
    EventClasses <- MCClasses
    ChunkKind = "chunk"
    ConnSession = "s1"
    ConnRole = 1
    OperatorRole = 2
    NoOwner = "none"
    NoOne = NoOne
    Subscriptions <- MCSubscriptions
    RingCapacity = 1
    BusCapacity = 1
    OutCapacity = 1
    MaxEvents = 2
    MaxConnects = 2
    Logins = {l1}
    Conns = {c1, c2}
    CmdIds = {i1, i2}
    CmdOps = {"plain", "refresh", "logout", "denied"}
    TokenLife = 2
    SessionTtl = 1
    MaxTime = 2
    MaxFrames = 2
    Installs = {i1, i2, i3}
    Nothing = Nothing
    UserFiles <- MCUserFiles
    AskedUser = "ann"
    ExtraCrews <- MCExtraCrews
    DefaultsFiles <- MCDefaults
    LimitsFiles <- MCLimits
    Manifests <- MCManifests
    NoFile = NoFile
    Unset = Unset
    Askers = {"ann", "olga"}
    RoleOf <- MCRole
    UsesOf <- MCUses
    ApiPids = {"p1", "p2", "p3"}
    ApiSessions = {"s1", "s2", "s3"}
    Initially <- MCInitially
    MaxEntries = 3
    MaxReplies = 1
    MaxBatch = 1
    MaxRequests = 1
    MaxRestarts = 1
    McpServers <- MCServers
    Offers <- MCOffers
    Mounts <- MCMounts
    NoMount = NoMount
    McpCallers = {"h1"}
    McpCalls <- MCToolCalls
    PageSize = 1
    MaxNoise = 1
    MaxRounds = 1
    PkgNames <- MCPkgNames
    Within <- MCWithin
    Workdirs <- MCWorkdirs
    PackageCalls <- MCPackageCalls
    PkgTasks = {c1, c2}
    QuotaLimit = 1
    QuotaWindow = 0
    NoBytes = NoBytes
    NoDir = NoDir
    MaxPkgCalls = 3
    MaxPkgTime = 1
    MaxPkgEdits = 1
    MaxUploads = 2
    CatUsers <- MCCatUsers
    Listings <- MCListings
    CatLookups <- MCLookups
    CatTasks = {t1}
    NoDoc = NoDoc
    MaxLookups = 1
    MaxCatChanges = 1
SYMMETRY Alike
CHECK_DEADLOCK FALSE
INVARIANTS RecordsTypeOK  NoGap NoCmdTwice TokensEnd    
