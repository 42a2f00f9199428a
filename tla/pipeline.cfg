CONSTANTS
    q1 = q1
    r1 = r1
    r2 = r2
    s1 = s1
    s2 = s2
    b1 = b1
    b2 = b2
    o1 = o1
    o2 = o2
    f1 = f1
    NoRow = NoRow
    Rfqs = {}
    Quotes <- MCQuotes
    QuoteReqs <- MCQuoteReqs2
    QuoteReqsFail = TRUE
    Shipments <- MCShipments1
    Bookings <- MCBookings
    OpReqs <- MCOpReqs2
    OpReqsFail = TRUE
SPECIFICATION Spec
INVARIANTS
    OperationsTypeOK
    BookedQuoteWasAccepted
    BookingMatchesShipment
    DeliveredWasCarried
PROPERTIES
    ShipmentsFollowPath
SYMMETRY MCPipelineSymmetry
CHECK_DEADLOCK FALSE
