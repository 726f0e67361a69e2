SPECIFICATION FairSpec
CONSTANTS
    t1 = t1
    t2 = t2
    c1 = c1
    c2 = c2
    s1 = s1
    s2 = s2
    f1 = f1
    Target = {t1, t2}
    Client = {c1, c2}
    Syncer = {s1, s2}
    Hand = {f1}
    Limit = 1
    NoTarget = NoTarget
    NoKey = NoKey
    Limits <- Interesting
INVARIANTS
    TypeOK
    UnmarkedIsSynced
PROPERTIES
    MarksAreServed
CHECK_DEADLOCK FALSE
