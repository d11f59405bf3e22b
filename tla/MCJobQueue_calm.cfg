CONSTANTS
    j1 = j1  j2 = j2
    r1 = r1  r2 = r2  r3 = r3
    g1 = g1  g2 = g2
    t1 = t1  t2 = t2
    NoRun = NoRun
    Jobs = {j1, j2}
    Runs = {r1, r2, r3}
    Gates = {g1}
    Turns = {t1}
    NeedsEgress = {j1}
    Quiet = {j2}
    MaxAttempts = 2
    OfferLimit = 1
    MaxAdds = 2
    Events <- CalmFaults
SPECIFICATION FairSpec
INVARIANTS
    NoSilentEnd
PROPERTIES
    EveryJobEnds
    EveryJobAnswered
CHECK_DEADLOCK FALSE
