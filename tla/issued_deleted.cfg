CONSTANTS
    i1 = i1
    i2 = i2
    r1 = r1
    r2 = r2
    r3 = r3
    Invoices <- MCInvoices1
    FinReqs <- MCReqs2
    Totals = {3}
    Amounts = {1, 2}
    MaxMoney = 3
    FinReqsFail = FALSE
SPECIFICATION Spec
INVARIANTS
    IssuedIsNotDeleted
CHECK_DEADLOCK FALSE
