SPECIFICATION Spec
CONSTANTS
    Subs = {s1, s2}
    Uploads = {s2}
    Consumers = {k1}
    Payloads <- SomePayloads
    Full = 100
    None <- NoNumber
    MaxResults = 2
    MaxFaults = 2
INVARIANTS AnnouncedOnce OneRowPerEvent PercentageOfTotals
PROPERTIES DeliveredIsStored
CHECK_DEADLOCK FALSE
