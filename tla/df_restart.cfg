SPECIFICATION Spec
CONSTANTS
    Clients = {c1}
    Vals = {v1}
    NoVal = NoVal
    MaxRows = 2
    MaxFiles = 2
    Operations <- InsertAndRestart
PROPERTY RestartLoadsSegments
CHECK_DEADLOCK FALSE
