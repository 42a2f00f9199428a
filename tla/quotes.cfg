CONSTANTS
    f1 = f1
    q1 = q1
    q2 = q2
    q3 = q3
    r1 = r1
    r2 = r2
    NoRow = NoRow
    Rfqs <- MCRfqs
    Quotes <- MCQuotes3
    QuoteReqs <- MCReqs2
    QuoteReqsFail = TRUE
SPECIFICATION QuotesSpec
INVARIANTS
    QuotesTypeOK
    FamilyAnswersOneRfq
    VersionsContiguous
PROPERTIES
    QuotesFollowPath
    QuoteKeepsIdentity
SYMMETRY MCSymmetry
