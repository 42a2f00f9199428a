------------------------------ MODULE Tenants ------------------------------
(***************************************************************************)
(* Tenants, what the platform's staff do to them, and the guards in front  *)
(* of every company and portal request: platform-tenants.service.ts,       *)
(* common/guards/*.ts.  Organization adds what the requests then do.       *)
(*                                                                         *)
(* A slot of TenReqs is an HTTP request; a Prisma call or $transaction is  *)
(* one step.  The guards read twice: the membership with its role and      *)
(* tenant, then the tenant's context.  A refused request changes nothing,  *)
(* so checks on rows that never change (the host's slug, a session) are    *)
(* left out.                                                               *)
(***************************************************************************)
EXTENDS Access, Integers

CONSTANTS
    Tenants,        \* slugs of tenants
    Emails,         \* addresses: a user has one and keeps it
    Customer,       \* whoever uses the portal: its accounts are never changed
    TenReqs,        \* concurrent HTTP requests
    UsedRoutes,     \* the company and portal routes that are called
    Days,           \* the days a trial is extended by
    TRIAL_DAYS,     \* the days a new trial lasts
    MaxTrial        \* bound: no extension past this day is asked for

ASSUME TenantsAssumption ==
    /\ Customer \notin Emails
    /\ UsedRoutes \subseteq CompanyRoutes \cup PortalRoutes
    /\ Days \subseteq Nat \ {0}
    /\ TRIAL_DAYS \in Nat \ {0}
    /\ MaxTrial \in Nat

VARIABLES
    tenant,     \* tenant[t]: row of tenant t and of its subscription
    member,     \* member[<<t, e>>]: membership of the user with address e in t
    treq        \* treq[r]: what request r has read and is about to do

-----------------------------------------------------------------------------
PlatformRoleKey == {"super_admin", "support_agent"}

TenantRow == [status : {"none", "trial", "active", "read_only", "suspended"},
              writeMode : {"full", "read_only", "blocked"}, trialEndsAt : Nat]
NoTenant == [status |-> "none", writeMode |-> "blocked", trialEndsAt |-> 0]
TenantExists(t) == tenant[t].status # "none"

Members == Tenants \X Emails
MembershipStatus == {"invited", "active", "suspended", "removed"}
MemberRow == [status : MembershipStatus \cup {"none"}, role : DEFAULT_ROLE_KEYS]
NoMember == [status |-> "none", role |-> "owner"]
MemberExists(m) == member[m].status # "none"

TIdle == [op |-> "idle"]
\* by = <<tenant, who>>, who is a member or the customer
Guarded == [op : {"context", "handle"}, by : Tenants \X (Emails \cup {Customer}),
            role : DEFAULT_ROLE_KEYS \cup {"customer"}, route : UsedRoutes]
Extending == [op : {"extend"}, tenant : Tenants, until : Nat]

TenantsTypeOK ==
    /\ tenant \in [Tenants -> TenantRow]
    /\ member \in [Members -> MemberRow]

TenantsInit ==
    /\ tenant = [t \in Tenants |-> NoTenant]
    /\ member = [m \in Members |-> NoMember]
    /\ treq = [r \in TenReqs |-> TIdle]

-----------------------------------------------------------------------------
TGoto(r, next) == treq' = [treq EXCEPT ![r] = next]

\* Mutant: the membership is looked up, its status is not.
CompanyGuardAnyone(r, m, route) ==
    /\ treq[r] = TIdle
    /\ route \in CompanyRoutes
    /\ MemberExists(m)
    /\ tenant[m[1]].status # "suspended"
    /\ tenant[m[1]].writeMode # "blocked"
    /\ TGoto(r, [op |-> "context", by |-> m, role |-> member[m].role, route |-> route])
    /\ UNCHANGED <<tenant, member>>

\* CompanyAuthGuard: the membership is active and its tenant not blocked.
CompanyGuard(r, m, route) ==
    /\ treq[r] = TIdle
    /\ route \in CompanyRoutes
    /\ member[m].status = "active"
    /\ tenant[m[1]].status # "suspended"
    /\ tenant[m[1]].writeMode # "blocked"
    /\ TGoto(r, [op |-> "context", by |-> m, role |-> member[m].role, route |-> route])
    /\ UNCHANGED <<tenant, member>>

\* PortalAuthGuard: a customer of a blocked tenant may still read.
PortalGuard(r, t, route) ==
    /\ treq[r] = TIdle
    /\ route \in PortalRoutes
    /\ TenantExists(t)
    /\ TGoto(r, [op |-> "context", by |-> <<t, Customer>>, role |-> "customer",
                 route |-> route])
    /\ UNCHANGED <<tenant, member>>

\* Mutant: only 'blocked' is tested, 'read_only' passes.
TenantWriteModeGuardBlocked(route, mode) == Mutates(route) => mode # "blocked"

TenantWriteModeGuard(route, mode) ==
    Mutates(route) => mode \notin {"read_only", "blocked"}

RolePermissions == [role \in DEFAULT_ROLE_KEYS \cup {"customer"} |-> PermissionsOf(role)]

\* loadTenantContext, then the two guards that look at what was loaded.
LoadContext(r) == LET q == treq[r] IN
    /\ q.op = "context"
    /\ TGoto(r, IF /\ Permits(q.route, RolePermissions[q.role])
                   /\ TenantWriteModeGuard(q.route, tenant[q.by[1]].writeMode)
                THEN [q EXCEPT !.op = "handle"]
                ELSE TIdle)
    /\ UNCHANGED <<tenant, member>>

Handling(r, verb, path) ==
    treq[r].op = "handle" /\ treq[r].route[1] = verb /\ treq[r].route[2] = path

\* A handler that leaves tenants, members and the organization alone.
Serve(r) ==
    /\ treq[r].op = "handle"
    /\ ~Mutates(treq[r].route) \/ treq[r].route \notin OrganizationRoutes
    /\ TGoto(r, TIdle)
    /\ UNCHANGED <<tenant, member>>

-----------------------------------------------------------------------------
\* PlatformAuthGuard and PermissionGuard in front of platform/tenants.
MayCall(staff, path) == \E route \in TenantAdminRoutes :
    route[2] = path /\ Mutates(route) /\ Permits(route, platformPermissionsForRole(staff))

\* The row is found and updated: rows are never removed, so one step.
setLifecycle(t, status, mode) ==
    /\ TenantExists(t)
    /\ tenant' = [tenant EXCEPT ![t].status = status, ![t].writeMode = mode]
    /\ UNCHANGED <<member, treq>>

Activate(staff, t) ==
    /\ MayCall(staff, "platform/tenants/:id/activate")
    /\ setLifecycle(t, "active", "full")

Suspend(staff, t) ==
    /\ MayCall(staff, "platform/tenants/:id/suspend")
    /\ setLifecycle(t, "suspended", "blocked")

SetReadOnly(staff, t) ==
    /\ MayCall(staff, "platform/tenants/:id/read-only")
    /\ setLifecycle(t, "read_only", "read_only")

LaterOf(end, now) == IF end > now THEN end ELSE now

\* The clock may show any day: no property depends on when it was.
ExtendTrialRead(r, staff, t, days, now) ==
    /\ treq[r] = TIdle
    /\ MayCall(staff, "platform/tenants/:id/extend-trial")
    /\ TenantExists(t)
    /\ LaterOf(tenant[t].trialEndsAt, now) + days <= MaxTrial
    /\ TGoto(r, [op |-> "extend", tenant |-> t,
                 until |-> LaterOf(tenant[t].trialEndsAt, now) + days])
    /\ UNCHANGED <<tenant, member>>

ExtendTrialCommit(r) == LET t == treq[r].tenant IN
    /\ treq[r].op = "extend"
    /\ tenant' = [tenant EXCEPT ![t] =
            [status |-> "trial", writeMode |-> "full", trialEndsAt |-> treq[r].until]]
    /\ TGoto(r, TIdle)
    /\ UNCHANGED member

\* What the platform's staff and the clients may begin.
PlatformCall(r) == \E staff \in PlatformRoleKey, t \in Tenants :
    \/ Activate(staff, t) \/ Suspend(staff, t) \/ SetReadOnly(staff, t)
    \/ \E days \in Days, now \in 0 .. MaxTrial : ExtendTrialRead(r, staff, t, days, now)

ClientCall(r) == \E route \in UsedRoutes :
    \/ \E m \in Members : CompanyGuard(r, m, route)
    \/ \E t \in Tenants : PortalGuard(r, t, route)

\* The steps of a request that is in.
TenantStep(r) == LoadContext(r) \/ Serve(r) \/ ExtendTrialCommit(r)
=============================================================================
