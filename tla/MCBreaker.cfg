SPECIFICATION FairSpec
CONSTANTS
    c1 = c1
    c2 = c2
    c3 = c3
    Caller <- MCCaller
    ConfFailureThreshold = 2
    ConfSuccessThreshold = 2
    ConfMaxHalfOpenReqs = 1
    RateNum = 1
    RateDen = 2
    Timeout = 2
    CounterCap = 3
INVARIANTS TypeOK TripsOnTime
PROPERTIES MovesOnEvidence Recovers
