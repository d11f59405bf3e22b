CONSTANTS
    HomeCount = 2
    MaxReplies = 2
    Kit <- KitReplies
    MaxPasses = 2
    MaxRestarts = 1
SPECIFICATION FairSpec
INVARIANTS
    NothingLost
    ToldInOrder
    TwiceOnlyAfterRestart
PROPERTIES
    EveryReplyTold
CHECK_DEADLOCK FALSE
