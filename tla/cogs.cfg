CONSTANTS
    Parts = {"raid", "nuke", "mod", "limits", "chat"}
    MaxTime = 5
    RaidGuilds = {g1, g2}
    RaidTasks = {w1}
    JoinThreshold = 2
    JoinInterval = 2
    LockdownDuration = 1
    JoinMemory = 3
    MaxJoins = 3
    NukeUsers = {u1, u2}
    Kinds = {"bans", "kicks", "channel_deletes", "channel_creates", "role_deletes", "role_creates", "webhook_creates"}
    ActThreshold = 2
    ActWindow = 2
    ActMemory = 3
    FreshEntry = 1
    MaxActs = 2
    Watchers = {m1, m2}
    SpamThreshold = 2
    SpamIntervals = {2, 4}
    SpamMemory = 3
    MuteThreshold = 2
    MaxMessages = 3
    MaxOffences = 4
    BucketRate = 2
    BucketPer = 1
    WindowMax = 2
    WindowLength = 2
    MaxUses = 4
    ChatUsers = {u1, u2}
    Nicknames = {n1}
    ChatTasks = {x1, x2}
    Nobody = Nobody
SPECIFICATION Spec
INVARIANTS
    PunishedForOwnActs
    MutedInTime
    RatesKept
    SecretsKept
PROPERTIES
    Noticed
    LockdownNotCutShort
    LockdownEnds
CHECK_DEADLOCK FALSE
