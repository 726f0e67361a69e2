SPECIFICATION FairSpec
CONSTANTS
    r1 = r1
    r2 = r2
    i1 = i1
    i2 = i2
    Replica <- MCReplica
    Request <- MCRequest
    Home <- MCHome
    Stamp <- MCStamp
    NoLock = NoLock
    NoPost = NoPost
    ReplyKinds = {"int64", "string"}
    Renewing <- MCRenewing
    Writing <- MCWriting
    Failing = {"redis"}
    MaxVersion = 2
INVARIANTS TypeOK
PROPERTIES IsLease LoaderCachesNothing EveryRequestEnds StaleDiesOut
