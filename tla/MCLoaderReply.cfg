SPECIFICATION FairSpec
CONSTANTS
    r1 = r1
    r2 = r2
    i1 = i1
    i2 = i2
    Replica <- MCReplica
    Request <- MCRequest
    Home <- MCHome
    Stamp <- MCStamp
    NoLock = NoLock
    NoPost = NoPost
    ReplyKinds = {"int64"}
    Renewing <- MCRenewing
    Writing <- MCWriting
    Failing = {"redis"}
    MaxVersion = 1
PROPERTIES HotPostGetsCached
