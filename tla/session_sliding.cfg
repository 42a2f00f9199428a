CONSTANTS
    u1 = u1
    u2 = u2
    m1 = m1
    m2 = m2
    s1 = s1
    t1 = t1
    t2 = t2
    t3 = t3
    t4 = t4
    r1 = r1
    r2 = r2
    NoRow = NoRow
    Users <- MCUsers
    Memberships <- MCMemberships
    Owner <- MCOwner
    Sessions <- MCSessions
    Tokens <- MCTokens4
    AuthReqs <- MCReqs1
    Lifetime = 2
    MaxTime = 3
SPECIFICATION Spec
PROPERTIES
    SlidingSession
CHECK_DEADLOCK FALSE
