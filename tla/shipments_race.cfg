CONSTANTS
    q1 = q1
    r1 = r1
    r2 = r2
    s1 = s1
    s2 = s2
    b1 = b1
    b2 = b2
    o1 = o1
    o2 = o2
    f1 = f1
    NoRow = NoRow
    Rfqs = {}
    Quotes = {}
    QuoteReqs = {}
    QuoteReqsFail = FALSE
    Shipments <- MCShipments1
    Bookings = {}
    OpReqs <- MCOpReqs2
    OpReqsFail = FALSE
SPECIFICATION Spec
PROPERTIES
    TransitionsAreLegal
CHECK_DEADLOCK FALSE
