CONSTANTS
    u1 = u1
    u2 = u2
    m1 = m1
    m2 = m2
    s1 = s1
    t1 = t1
    t2 = t2
    t3 = t3
    t4 = t4
    r1 = r1
    r2 = r2
    NoRow = NoRow
    Users <- MCUsers
    Memberships <- MCMemberships
    Owner <- MCOwner
    Sessions <- MCSessions
    Tokens <- MCTokens3
    AuthReqs <- MCReqs2
    Lifetime = 1
    MaxTime = 2
SPECIFICATION FairSpec
INVARIANTS
    SessionsTypeOK
    ReplacedIsRevoked
    LiveSessionHasToken
    SessionNamesIssued
    MembershipsAreOwn
PROPERTIES
    RevokedSessionIssuesNothing
    ReuseEndsSession
CHECK_DEADLOCK FALSE
