SPECIFICATION FairSpec
CONSTANTS
    Clients = {c1, c2}
    Vals = {v1}
    NoVal = NoVal
    MaxRows = 2
    MaxFiles = 3
    Operations <- AppendOperations
PROPERTIES
    ImplementsRowStore
    EveryCallReturns
CHECK_DEADLOCK FALSE
