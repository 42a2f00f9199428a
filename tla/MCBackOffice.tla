--------------------------- MODULE MCBackOffice ---------------------------
(***************************************************************************)
(* The components around the sales chain, side by side on small sets: they *)
(* share no state, so each behaviour is about one of them, the one that    *)
(* focus names, and the states add up instead of multiplying.  A focus     *)
(* also chooses what is called, never what a request that is in does next. *)
(***************************************************************************)
EXTENDS BackOffice, TLC

CONSTANTS r1, r2, r3, x1, x2, x3, x4, t1, e1, e2, cust

VARIABLE focus

mcVars == <<focus, tenancyVars, catalogVars, docVars, deskVars, trailVars, recVars>>

MCReqs == {r1, r2}
MCThreeReqs == {r1, r2, r3}
MCRoutes == {route \in CompanyRoutes \cup PortalRoutes : <<route[1], route[2]>> \in
    {<<"POST", "organization/employees/invite">>, <<"PATCH", "organization/employees/:id">>,
     <<"PATCH", "organization/settings">>, <<"POST", "organization/branches">>,
     <<"PATCH", "organization/branches/:id">>, <<"DELETE", "organization/branches/:id">>,
     <<"GET", "quotes">>, <<"POST", "quotes">>, <<"POST", "portal/rfq">>}}
StaffRoutes == {route \in MCRoutes : route[3] = "organization.employees.manage"}
ModifyRoutes == {route \in MCRoutes : route[2] = "organization/employees/:id"}
MCScopeLists == {{}, {x1}}

-----------------------------------------------------------------------------
\* A tenant whose owner has accepted, and an employee who has done so twice:
\* removed in between and taken back.
Settled ==
    /\ treq = [r \in TenReqs |-> TIdle]
    /\ tenant = [t \in Tenants |->
            [status |-> "trial", writeMode |-> "full", trialEndsAt |-> TRIAL_DAYS]]
    /\ member = [m \in Members |->
            [status |-> "active", role |-> IF m[2] = e1 THEN "owner" ELSE "sales"]]
    /\ user = [e \in Emails |-> "password"]
    /\ invitation = [i \in Invites |->
            [status |-> "accepted", linked |-> TRUE,
             kind |-> IF i = x1 THEN "owner" ELSE "employee",
             role |-> IF i = x1 THEN "owner" ELSE "sales",
             member |-> <<t1, IF i = x1 THEN e1 ELSE e2>>]]
    /\ branch = [b \in Branches |-> IF b # x1 THEN NoBranch ELSE
            [NoBranch EXCEPT !.exists = TRUE, !.isMain = TRUE, !.isActive = TRUE]]
    /\ onboarding = [t \in Tenants |-> "profile"]
    /\ scopes = [m \in Members |-> {}]
    /\ asked = [m \in Members |-> {}]
    /\ mixed = {}

\* From nothing: e1's tenant is provisioned; employees are invited, accept,
\* are suspended and removed.
StaffCalls ==
    /\ treq'[r3] = TIdle
    /\ tenant'[t1].status \in {"none", "trial"}
    /\ \A r \in TenReqs : LET q == treq'[r] IN
        /\ q.op # "extend"
        /\ q.op = "provision" => q.owner = e1
        /\ q.op = "invite" => q.member = <<t1, e2>>
        /\ q.op = "modify" => q.role = "keep" /\ ~q.scope /\ q.status # "keep"
        /\ q.op = "context" => q.route \in StaffRoutes

\* Branches are assigned, by one and by two requests.
ScopeCalls ==
    /\ treq'[r3] = TIdle
    /\ UNCHANGED tenant
    /\ \A r \in TenReqs : LET q == treq'[r] IN
        /\ q.op # "extend"
        /\ q.op = "modify" => q.role = "keep" /\ q.status = "keep"
        /\ q.op = "context" => q.route \in ModifyRoutes

\* The lifecycle of the tenant against requests to read and to change it, and
\* against two that set the status of a membership at the same time.
TenantCalls == \A r \in TenReqs : LET q == treq'[r] IN
    /\ q.op = "context" => q.route \in ModifyRoutes \cup
            IF r = r1 THEN MCRoutes \ OrganizationRoutes ELSE {}
    /\ r = r3 => q.op # "extend"
    /\ q.op = "modify" => ~q.scope /\ q.member = <<t1, e2>> /\ q.role = "keep"

\* One request at a time to branches and settings.
SettingCalls ==
    /\ treq'[r2] = TIdle /\ treq'[r3] = TIdle
    /\ treq'[r1].op = "context" => treq'[r1].route \notin StaffRoutes

\* Keys are minted in an order; documents are uploaded by one request and
\* downloaded by the other; the internal ones have versions and tokens: new
\* bytes, and from the one a made-up key, from the other the key there is.
DocCalls ==
    /\ object' \in {{}, {x1}, {x1, x2}, {x1, x2, x3}}
    /\ dreq'[r1].op # "read" /\ dreq'[r2].op # "upload"
    /\ dreq'[r1].op = "upload" => ~Exists(x1)
    /\ \A r \in DocReqs : dreq'[r].op = "latest" /\ dreq[r].op = "idle" =>
        /\ doc[x1].visibility = "internal"
        /\ dreq'[r].key \in {"none", IF r = r1 THEN x4 ELSE doc[x1].storageKey}
    /\ token' # {} => doc[x1].visibility = "internal"

\* Either a company request is opened or a ticket of RAANKO.
DeskCalls == ticket'[x1].status = "none" \/ ticket'[x2].status = "none"

\* Ids are taken in an order; the second row is a webhook, the first of any
\* kind: if it is a webhook too, it is the one switched and delivered to.
TrailCalls ==
    /\ row'[x2].kind # "none" => row'[x1].kind # "none" /\ row'[x2].kind = "webhook"
    /\ row'[x2].active = (row'[x2].kind = "webhook")
    /\ \A r \in TrailReqs : trailreq'[r].op = "deliver" => trailreq'[r].row = x1

\* Customers written to one by one; or files imported, ids taken in an order.
CrmCalls == \A r \in RecReqs : recreq'[r].op \notin {"rows", "create"}
ImportCalls ==
    /\ \A r \in RecReqs : recreq'[r].op \notin {"write", "softDelete"}
    /\ customer'[x2].exists => customer'[x1].exists
    /\ \A c \in Customers : customer'[c].exists => customer'[c].imported
    /\ recreq'[r2].op # "idle" => Len(recreq'[r2].rows) = 1

-----------------------------------------------------------------------------
MCInit ==
    /\ CatalogInit /\ DocumentsInit /\ DeskInit /\ TrailsInit /\ RecordsInit
    /\ \/ focus \in {"staff", "catalog", "documents", "desk", "trails", "crm",
                       "imports"}
          /\ OrganizationInit
       \/ focus \in {"scoping", "tenants", "settings"} /\ Settled

MCNext ==
    /\ UNCHANGED focus
    /\ \/ /\ OrganizationNext
          /\ \/ focus = "staff" /\ StaffCalls
             \/ focus = "scoping" /\ ScopeCalls
             \/ focus = "tenants" /\ TenantCalls
             \/ focus = "settings" /\ SettingCalls
          /\ UNCHANGED <<catalogVars, docVars, deskVars, trailVars, recVars>>
       \/ /\ focus = "catalog" /\ CatalogNext
          /\ UNCHANGED <<tenancyVars, docVars, deskVars, trailVars, recVars>>
       \/ /\ focus = "documents" /\ DocumentsNext /\ DocCalls
          /\ UNCHANGED <<tenancyVars, catalogVars, deskVars, trailVars, recVars>>
       \/ /\ focus = "desk" /\ DeskNext /\ DeskCalls
          /\ UNCHANGED <<tenancyVars, catalogVars, docVars, trailVars, recVars>>
       \/ /\ focus = "trails" /\ TrailsNext /\ TrailCalls
          /\ UNCHANGED <<tenancyVars, catalogVars, docVars, deskVars, recVars>>
       \/ /\ RecordsNext
          /\ \/ focus = "crm" /\ CrmCalls
             \/ focus = "imports" /\ ImportCalls
          /\ UNCHANGED <<tenancyVars, catalogVars, docVars, deskVars, trailVars>>

MCSpec == MCInit /\ [][MCNext]_mcVars
MCFairSpec == MCSpec /\ OrganizationFairness
=============================================================================
