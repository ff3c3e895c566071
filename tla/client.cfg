SPECIFICATION FairSpec
CONSTANTS
    Tasks = {t1, t2}
    MaxSockets = 5
    MaxCalls = 2
    MaxFaults = 2
INVARIANTS
    PendingOwned
    RepairUnderWay
    ConnectedIsRead
PROPERTY LossIsRepaired
CHECK_DEADLOCK FALSE
