SPECIFICATION FairSpec
CONSTANTS
    u1 = u1
    u2 = u2
    h1 = h1
    h2 = h2
    h3 = h3
    k1 = k1
    k2 = k2
    User <- MCUser
    Handler <- ThreeHandlers
    UserOf <- TwoAndOne
    Consumer <- TwoConsumers
    BatchSize = 2
    NoKey = NoKey
    Limits <- Interesting
INVARIANTS TypeOK AckedIsDurable RelationFollowsTable DrainedIsSynced
PROPERTIES OnlyAPartialBatchWaits
CHECK_DEADLOCK FALSE
