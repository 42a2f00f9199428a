CONSTANTS
    i1 = i1
    i2 = i2
    r1 = r1
    r2 = r2
    r3 = r3
    Invoices <- MCInvoices1
    FinReqs <- MCReqs3
    Totals = {0, 3}
    Amounts = {1, 2}
    MaxMoney = 3
    FinReqsFail = FALSE
SPECIFICATION FairSpec
INVARIANTS
    FinanceTypeOK
    NeverUnderstatesDue
    BalanceWithinBounds
    DraftHasNoMoney
    CreditKeepsInvoice
    AuditTrailReconciles
PROPERTIES
    MoneyIsJournaled
CHECK_DEADLOCK FALSE
