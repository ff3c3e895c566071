SPECIFICATION Spec
CONSTANTS
    b1 = b1
    b2 = b2
    t1 = t1
    t2 = t2
    Bots <- MCBots
    Tasks <- MCTasks
    BotOf <- MCBotOf
    Conns <- MCConns
    Ids <- MCIds
    Keys = {k1}
    Vals = {v1}
    NoKey = NoKey
    MaxRows = 2
    CacheSize = 1
    MaxConns = 2
    MaxCalls = 2
    Methods <- SaveOnly
INVARIANT PrimaryKeyUnique
CHECK_DEADLOCK FALSE
