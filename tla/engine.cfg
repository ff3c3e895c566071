CONSTANTS
    EngineParts = {"index", "txn", "query", "legacy", "ring", "reads", "fanout"}
    T1 = T1
    T2 = T2
    D1 = D1
    D2 = D2
    C1 = C1
    C2 = C2
    IndexEntries <- SomeEntries
    Order = 2
    Txns = {T1, T2}
    MaxCalls = 4
    MaxIncidents = 2
    DataSets <- SomeData
    Conditions <- SomeConditions
    MaxBuild = 4
    DbTasks = {D1, D2}
    DbIds = {1, 2}
    DbValues = {"v", "bad"}
    Unencodable = {"bad"}
    MaxDbRows = 3
    MaxDbCalls = 6
    RingNodes = {"p", "q", "me"}
    Me = "me"
    RingGuilds = {"g0", "g1"}
    GuildHash <- SomeHashes
    Layouts <- SomeLayouts
    HashSpace = 7
    VirtualNodes = 2
    Weights = {0, 2}
    HeartbeatTimeout = 1
    CleanupInterval = 2
    Claims <- SomeClaims
    Skew = 1
    Callers = {C1, C2}
    Keys = {"k"}
    Remotes = {"n"}
    Self = "self"
    Ttl = 2
    RequestTimeout = 1
    ConnectTime = 1
    BlacklistDuration = 1
    MaxTries = 3
    MaxCacheSize = 1
    MaxSockets = 2
    FanPeers <- SomePeers
    LocalReader = "here"
    RowKeys = {"r1", "r2"}
SPECIFICATION Spec
SYMMETRY interchangeable
INVARIANTS
    IndexPart
    RecoveryIsTrue
    QueryPart
    FileIsTable
    OwnerIsLive
    ServedFresh
    WritesDoneOnce
    AnswerIsWhole
PROPERTIES
    OwnerMoves
CHECK_DEADLOCK FALSE
