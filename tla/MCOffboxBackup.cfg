SPECIFICATION Spec
CONSTANTS
    Stores = {"basket", "state"}
    Optional = {"basket"}
    Keep <- Kept
    Week = 2
    MaxAge = 1
    MaxNights = 5
    MaxFaults = 2
INVARIANTS
    CompleteIsWhole
    DoneMeansDone
PROPERTIES
    RetentionKept
    GoodMeansRestorable
CHECK_DEADLOCK FALSE
