CONSTANTS
    v1 = v1  v2 = v2  d1 = d1
    w1 = w1  w2 = w2
    reelTitle = reelTitle
    NoTitle = NoTitle
    None = None
    Links = {v2}
    Files = {}
    Directs = {d1}
    UrlOf <- Resolved
    TitleOf <- Titled
    Tests <- TestNames
    Submitted <- Filed
    MaxRubric = 2
    Workers = {w1, w2}
SYMMETRY Symmetry
SPECIFICATION IntakeSpec
INVARIANTS
    IndexIsSound
    JudgedIsIndexed
