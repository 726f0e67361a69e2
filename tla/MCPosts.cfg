SPECIFICATION PostFairSpec
CONSTANTS
    i1 = i1
    i2 = i2
    author = author
    u1 = u1
    u2 = u2
    Replica <- MCReplica
    User <- MCUser
    Author = author
    Home = i1
    MaxRecorded = 3
    MaxFaults = 1
INVARIANTS PostTypeOK CountedOnce NoneLost HomeKnows GhostIsUnread
PROPERTIES CountsViews ViewsLeaveRedis
