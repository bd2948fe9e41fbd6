SPECIFICATION Spec
CONSTANTS
    Clients = {c1}
    Sub = Sub
    Other = Other
    MaxQueue = 2
    MaxRow = 2
    MaxPosts = 4
    MaxFaults = 2
INVARIANTS NoLostWakeUp
PROPERTIES ImplementsEventLog PageCatchesUp
CHECK_DEADLOCK FALSE
