SPECIFICATION FairSpec
CONSTANTS
    c1 = c1
    c2 = c2
    n1 = n1
    g1 = g1
    g2 = g2
    Client = {c1, c2}
    Name = {n1}
    Replica = {g1, g2}
    Nobody = Nobody
    AuthSecret = AuthSecret
    NoToken = NoToken
    NoSecret = NoSecret
    Limits <- Interesting
INVARIANTS
    GatewayTypeOK
    AccountIsKnown
    PostsMatchAnswers
PROPERTIES
    OnlyCurrentSessions
    ServedInTheEnd
