CONSTANTS
    q1 = q1
    r1 = r1
    r2 = r2
    s1 = s1
    s2 = s2
    b1 = b1
    b2 = b2
    o1 = o1
    o2 = o2
    f1 = f1
    NoRow = NoRow
    Rfqs = {}
    Quotes <- MCQuotes
    QuoteReqs <- MCQuoteReqs1
    QuoteReqsFail = FALSE
    Shipments = {}
    Bookings <- MCBookings
    OpReqs <- MCOpReqs1
    OpReqsFail = FALSE
SPECIFICATION Spec
INVARIANTS
    OneBookingPerQuote
CHECK_DEADLOCK FALSE
