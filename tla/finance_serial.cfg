CONSTANTS
    i1 = i1
    i2 = i2
    r1 = r1
    r2 = r2
    r3 = r3
    Invoices <- MCInvoices2
    FinReqs <- MCReqs1
    Totals = {0, 3}
    Amounts = {1, 2}
    MaxMoney = 3
    FinReqsFail = TRUE
SPECIFICATION Spec
INVARIANTS
    PaidIsReceived
    PaymentsReduceBalance
    IssuedIsNotDeleted
    IssuedOnce
CHECK_DEADLOCK FALSE
