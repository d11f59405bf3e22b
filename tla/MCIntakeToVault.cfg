CONSTANTS
    v1 = v1  v2 = v2
    None = None
    Keys = {v1, v2}
    SlugOf <- Slugs
    Red = {v2}
    MaxDay = 1
    MaxTroubles = 2
SPECIFICATION FairSpec
INVARIANTS
    PagesAreSound
    LoggedOnce
PROPERTIES
    AcceptedReachesVault
