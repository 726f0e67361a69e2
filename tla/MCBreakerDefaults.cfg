SPECIFICATION FairSpec
CONSTANTS
    c1 = c1
    c2 = c2
    c3 = c3
    Caller <- MCCaller
    ConfFailureThreshold = 0
    ConfSuccessThreshold = 0
    ConfMaxHalfOpenReqs = 0
    RateNum = 1
    RateDen = 2
    Timeout = 1
    CounterCap = 5
PROPERTIES Recovers
