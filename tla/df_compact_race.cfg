SPECIFICATION Spec
CONSTANTS
    Clients = {c1, c2}
    Vals = {v1}
    NoVal = NoVal
    MaxRows = 2
    MaxFiles = 3
    Operations <- CompactAndInsert
PROPERTY CompactKeepsLiveRows
CHECK_DEADLOCK FALSE
