SPECIFICATION FairSpec
CONSTANTS
    Vals = {a, b}
    EntryLimit = 2
    MaxTables = 3
    MaxSegments = 3
INVARIANTS
    InsertedIsFound
    FullIsActive
    WrittenOnce
    RegistryInOrder
PROPERTY QueueDrains
CHECK_DEADLOCK FALSE
