CONSTANTS
    d1 = d1  d2 = d2  d3 = d3
    m1 = m1  m2 = m2  m3 = m3
    f1 = f1  f2 = f2
    Folders = {f1, f2}
    Null = Null
    Docs = {d1, d2, d3}
    Messages = {m1, m2, m3}
    Attached <- Carried
    NameOf <- SameName
    Unreadable = {d3}
    MaxNew = 1
    FilePerPass = 1
    MaxDoorTroubles = 3
SPECIFICATION DoorFairSpec
INVARIANTS
    DriveIsTrue
PROPERTIES
    EveryReportFiled
