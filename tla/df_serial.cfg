SPECIFICATION Spec
CONSTANTS
    Clients = {c1}
    Vals = {v1, v2}
    NoVal = NoVal
    MaxRows = 2
    MaxFiles = 4
    Operations <- SerialOperations
PROPERTIES
    ImplementsRowStore
    CompactKeepsLiveRows
CHECK_DEADLOCK FALSE
