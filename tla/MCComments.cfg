SPECIFICATION Spec
CONSTANTS
    u1 = u1
    u2 = u2
    h1 = h1
    h2 = h2
    h3 = h3
    c1 = c1
    c2 = c2
    User <- MCUser
    Handler <- MCHandler
    Comment <- MCComment
    NoRow = NoRow
    MaxFaults = 1
INVARIANTS TypeOK NeverTooHigh NeverTooLow
CHECK_DEADLOCK FALSE
