SPECIFICATION RowsSpec
CONSTANTS
    b1 = b1
    b2 = b2
    t1 = t1
    t2 = t2
    Bots <- MCBots
    Tasks <- MCTasks
    BotOf <- MCBotOf
    Conns <- MCConns
    Ids <- MCIds
    Keys = {k1, k2}
    Vals = {v1}
    NoKey = NoKey
    MaxRows = 3
    CacheSize = 1
    MaxConns = 3
    MaxCalls = 3
    Methods <- AllMethods
    RowParts = {"repository", "objects", "tickets"}
    Handlers = {h1, h2}
    Tables = {"guilds", "users", "user_levels"}
    DailyLimit = 2
    XpGains = {15, 25}
    OldLevel <- NearLevel
    MaxObjects = 2
    MaxChanges = 3
    MaxDay = 2
    TicketIds = {i1, i2}
    MaxOpenTickets = 1
    Staff = {"staff"}
    TicketHandlers = {h1, h2}
SYMMETRY RowSymmetry
INVARIANTS
    TypeOK
    OnlyFirstSavesInsert
    CountedOnce
    SanctionHasCase
    LevelsKept
    OpenTicketsLimited
PROPERTY SaveLeavesRow
CHECK_DEADLOCK FALSE
