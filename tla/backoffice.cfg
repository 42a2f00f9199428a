SPECIFICATION MCFairSpec
CONSTANTS
    r1 = r1
    r2 = r2
    r3 = r3
    x1 = x1
    x2 = x2
    x3 = x3
    x4 = x4
    t1 = t1
    e1 = e1
    e2 = e2
    cust = cust
    Tenants = {t1}
    Emails = {e1, e2}
    Customer = cust
    TenReqs <- MCThreeReqs
    UsedRoutes <- MCRoutes
    Days = {1}
    TRIAL_DAYS = 1
    MaxTrial = 2
    Branches = {x1, x2}
    Invites = {x1, x2, x3}
    InviteRoles = {"sales"}
    ScopeLists <- MCScopeLists
    Steps = {"completed"}
    TenReqsFail = TRUE
    Servers = {x1, x2, x3}
    MvpFeatures = 1
    AllFeatures = 2
    Docs = {x1}
    Keys = {x1, x2, x3}
    NamedKeys = {x4}
    DocReqs <- MCReqs
    MaxVersions = 2
    DocReqsFail = TRUE
    CompanyRequests = {x1}
    RaankoTickets = {x2}
    DeskReqs <- MCReqs
    MaxReplies = 2
    DeskReqsFail = TRUE
    Rows = {x1, x2}
    UsedKinds = {"exchange_rate", "webhook"}
    TrailReqs <- MCReqs
    Months = 2
    MaxWrites = 2
    TrailReqsFail = TRUE
    Customers = {x1, x2}
    Suppliers = {x1}
    Sheets = {x1}
    Jobs = {x1}
    RecReqs <- MCReqs
    MaxRows = 2
    RecReqsFail = TRUE
INVARIANTS
    BackOfficeTypeOK
    InvitationsMakeMembers
    CatalogIsSeeded
    DocumentsCoherent
    DeskKeepsUp
    TrailsReconcile
    RecordsAgree
CHECK_DEADLOCK FALSE
PROPERTIES SuspensionTakesHold
