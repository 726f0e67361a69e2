SPECIFICATION HotFairSpec
CONSTANTS
    i1 = i1
    i2 = i2
    r1 = r1
    j1 = j1
    w1 = w1
    Replica <- MCReplica
    Reader <- MCReader
    Job <- MCJob
    Writer <- MCWriter
    Home <- MCHome
    MarkerTTL = 2
    Ranges <- MCRanges
    Kept <- MCKept
    Hot = TRUE
    MaxFaults = 1
INVARIANTS HotTypeOK MarkersAreShort
PROPERTIES MarkersDieOut NoRevival DeletedFades
