--------------------------- MODULE Organization ---------------------------
(***************************************************************************)
(* What the staff of a tenant do to it: invitations, employees, branches   *)
(* and settings of organization/organization.service.ts, and the           *)
(* provisioning of platform-tenants.service.ts that creates them all.      *)
(*                                                                         *)
(* inviteEmployee and updateMembership are many statements without a       *)
(* transaction: others run in between, and a request may die after any of  *)
(* them.  Names, codes, logos and the default branch are left out.         *)
(***************************************************************************)
EXTENDS Tenants

CONSTANTS
    Branches,       \* ids of branches
    Invites,        \* ids of invitations
    InviteRoles,    \* the roles employees are given
    ScopeLists,     \* the sets of branches requests assign
    Steps,          \* the onboarding steps that settings requests write
    TenReqsFail     \* TRUE: a request may die between two of its statements

ASSUME OrganizationAssumption ==
    /\ Tenants # {} /\ Emails # {}
    /\ InviteRoles \subseteq DEFAULT_ROLE_KEYS
    /\ ScopeLists \subseteq SUBSET Branches
    /\ TenReqsFail \in BOOLEAN

VARIABLES
    onboarding, \* onboarding[t]: tenant t's onboardingStep
    user,       \* user[e]: whether e has a user, and what its password is
    invitation, \* invitation[i]: row of invitation i
    branch,     \* branch[b]: row of branch b
    scopes,     \* scopes[m]: the branches assigned to membership m
    asked,      \* history: what the last request to assign branches to m asked
    mixed       \* history: those whose last assignments overlapped or died

orgVars == <<onboarding, user, invitation, branch, scopes, asked, mixed>>
tenancyVars == <<tenant, member, treq, onboarding, user, invitation, branch,
                 scopes, asked, mixed>>

-----------------------------------------------------------------------------
InvitationRow == [status : {"none", "pending", "accepted"}, kind : {"owner", "employee"},
                  member : Members, role : DEFAULT_ROLE_KEYS, linked : BOOLEAN]
NoInvitation == [status |-> "none", kind |-> "owner",
                 member |-> CHOOSE m \in Members : TRUE, role |-> "owner",
                 linked |-> FALSE]
InvitationExists(i) == invitation[i].status # "none"

BranchRow == [tenant : Tenants, exists : BOOLEAN, isMain : BOOLEAN,
              isActive : BOOLEAN, archived : BOOLEAN]
NoBranch == [tenant |-> CHOOSE t \in Tenants : TRUE, exists |-> FALSE, isMain |-> FALSE,
             isActive |-> FALSE, archived |-> FALSE]
BranchesOf(t) == {b \in Branches : branch[b].exists /\ branch[b].tenant = t}

\* A fresh id, the same for every request that needs one: ids have no meaning.
FreshInvite == CHOOSE i \in Invites : ~InvitationExists(i)
InvitesLeft == \E i \in Invites : ~InvitationExists(i)
FreshBranch == CHOOSE b \in Branches : ~branch[b].exists
BranchesLeft == \E b \in Branches : ~branch[b].exists

Provisioning == [op : {"provision"}, tenant : Tenants, owner : Emails]
Inviting == [op : {"invite"}, member : Members, role : DEFAULT_ROLE_KEYS,
             todo : SUBSET Branches, known : BOOLEAN]
Invited == [op : {"user", "member", "scope"}, member : Members,
            role : DEFAULT_ROLE_KEYS, todo : SUBSET Branches, inv : Invites]
Modifying == [op : {"modify"}, member : Members, role : DEFAULT_ROLE_KEYS \cup {"keep"},
              status : MembershipStatus \cup {"keep"}, scope : BOOLEAN,
              todo : SUBSET Branches]
Rescoping == [op : {"unscope", "rescope"}, member : Members, todo : SUBSET Branches]
Accepting == [op : {"accept"}, inv : Invites]

OrganizationTypeOK ==
    /\ TenantsTypeOK
    /\ treq \in [TenReqs -> {TIdle} \cup Guarded \cup Extending \cup Provisioning
                    \cup Inviting \cup Invited \cup Modifying \cup Rescoping \cup Accepting]
    /\ onboarding \in [Tenants -> {"welcome", "profile"} \cup Steps]
    /\ user \in [Emails -> {"none", "placeholder", "password"}]
    /\ invitation \in [Invites -> InvitationRow]
    /\ branch \in [Branches -> BranchRow]
    /\ scopes \in [Members -> SUBSET Branches]
    /\ asked \in [Members -> SUBSET Branches]
    /\ mixed \subseteq Members

OrganizationInit ==
    /\ TenantsInit
    /\ onboarding = [t \in Tenants |-> "welcome"]
    /\ user = [e \in Emails |-> "none"]
    /\ invitation = [i \in Invites |-> NoInvitation]
    /\ branch = [b \in Branches |-> NoBranch]
    /\ scopes = [m \in Members |-> {}]
    /\ asked = [m \in Members |-> {}]
    /\ mixed = {}

-----------------------------------------------------------------------------
\* provisionTenant: the slug is looked up, then everything is inserted in one
\* transaction, which the unique slug makes fail if another was first.
ProvisionRead(r, staff, t, e) ==
    /\ treq[r] = TIdle
    /\ MayCall(staff, "platform/tenants")
    /\ ~TenantExists(t)
    /\ TGoto(r, [op |-> "provision", tenant |-> t, owner |-> e])
    /\ UNCHANGED <<tenant, member, orgVars>>

ProvisionCommit(r) == LET t == treq[r].tenant IN
    /\ treq[r].op = "provision"
    /\ ~TenantExists(t)
    /\ InvitesLeft /\ BranchesLeft
    /\ tenant' = [tenant EXCEPT ![t] =
            [status |-> "trial", writeMode |-> "full", trialEndsAt |-> TRIAL_DAYS]]
    /\ branch' = [branch EXCEPT ![FreshBranch] = [tenant |-> t, exists |-> TRUE,
            isMain |-> TRUE, isActive |-> TRUE, archived |-> FALSE]]
    /\ invitation' = [invitation EXCEPT ![FreshInvite] = [status |-> "pending",
            kind |-> "owner", member |-> <<t, treq[r].owner>>, role |-> "owner",
            linked |-> FALSE]]
    /\ TGoto(r, TIdle)
    /\ UNCHANGED <<member, onboarding, user, scopes, asked, mixed>>

-----------------------------------------------------------------------------
\* acceptInvitation.  The token is looked up before the transaction.
AcceptRead(r, i) ==
    /\ treq[r] = TIdle
    /\ invitation[i].status = "pending"
    /\ TGoto(r, [op |-> "accept", inv |-> i])
    /\ UNCHANGED <<tenant, member, orgVars>>

AcceptCommit(r) ==
    LET i == treq[r].inv
        m == invitation[i].member
    IN  /\ treq[r].op = "accept"
        /\ user' = [user EXCEPT ![m[2]] = "password"]
        /\ member' = [member EXCEPT ![m] =
                [status |-> "active", role |-> invitation[i].role]]
        /\ invitation' = [invitation EXCEPT ![i].status = "accepted", ![i].linked = TRUE]
        /\ onboarding' = IF invitation[i].kind = "owner"
                         THEN [onboarding EXCEPT ![m[1]] = "profile"] ELSE onboarding
        /\ TGoto(r, TIdle)
        /\ UNCHANGED <<tenant, branch, scopes, asked, mixed>>

-----------------------------------------------------------------------------
\* The requests that have begun to assign branches to m.
Scoping(m) == {r \in TenReqs : treq[r].op \in {"scope", "unscope", "rescope"}
                               /\ treq[r].member = m}

\* r begins to assign the branches todo to m.
BeginScoping(r, m, todo) ==
    /\ asked' = [asked EXCEPT ![m] = todo]
    /\ mixed' = IF Scoping(m) = {} THEN mixed \ {m} ELSE mixed \cup {m}

\* One assignment is inserted; the pair is unique.
AddScope(r, b) == LET q == treq[r] IN
    /\ q.op \in {"scope", "rescope"}
    /\ b \in q.todo
    /\ branch[b].exists
    /\ b \notin scopes[q.member]
    /\ scopes' = [scopes EXCEPT ![q.member] = @ \cup {b}]
    /\ TGoto(r, [q EXCEPT !.todo = @ \ {b}])
    /\ UNCHANGED <<tenant, member, onboarding, user, invitation, branch, asked, mixed>>

-----------------------------------------------------------------------------
\* inviteEmployee: reads, then up to six writes one by one, then the mail.
InviteRead(r, e, role, todo) == LET m == <<treq[r].by[1], e>> IN
    /\ Handling(r, "POST", "organization/employees/invite")
    /\ user[e] = "none" \/ member[m].status \in {"none", "removed"}
    /\ TGoto(r, [op |-> "invite", member |-> m, role |-> role, todo |-> todo,
                 known |-> user[e] # "none"])
    /\ UNCHANGED <<tenant, member, orgVars>>

InviteInsert(r) == LET q == treq[r] IN
    /\ q.op = "invite"
    /\ InvitesLeft
    /\ invitation' = [invitation EXCEPT ![FreshInvite] = [status |-> "pending",
            kind |-> "employee", member |-> q.member, role |-> q.role, linked |-> FALSE]]
    /\ TGoto(r, [op |-> IF q.known THEN "member" ELSE "user", member |-> q.member,
                 role |-> q.role, todo |-> q.todo, inv |-> FreshInvite])
    /\ UNCHANGED <<tenant, member, onboarding, user, branch, scopes, asked, mixed>>

\* The address is unique: somebody may have created the user meanwhile.
InviteUser(r) == LET e == treq[r].member[2] IN
    /\ treq[r].op = "user"
    /\ user[e] = "none"
    /\ user' = [user EXCEPT ![e] = "placeholder"]
    /\ TGoto(r, [treq[r] EXCEPT !.op = "member"])
    /\ UNCHANGED <<tenant, member, onboarding, invitation, branch, scopes, asked, mixed>>

\* A user has one membership of a tenant, removed ones included.
InviteMember(r) == LET q == treq[r] IN
    /\ q.op = "member"
    /\ ~MemberExists(q.member)
    /\ member' = [member EXCEPT ![q.member] = [status |-> "invited", role |-> q.role]]
    /\ BeginScoping(r, q.member, q.todo)
    /\ TGoto(r, [q EXCEPT !.op = "scope"])
    /\ UNCHANGED <<tenant, onboarding, user, invitation, branch, scopes>>

InviteLink(r) == LET q == treq[r] IN
    /\ q.op = "scope" /\ q.todo = {}
    /\ invitation' = [invitation EXCEPT ![q.inv].linked = TRUE]
    /\ TGoto(r, TIdle)
    /\ UNCHANGED <<tenant, member, onboarding, user, branch, scopes, asked, mixed>>

-----------------------------------------------------------------------------
\* updateMembership: reads, the row, then the assignments deleted and inserted.
ModifyRead(r, e, role, status, scope, todo) == LET m == <<treq[r].by[1], e>> IN
    /\ Handling(r, "PATCH", "organization/employees/:id")
    /\ MemberExists(m)
    /\ TGoto(r, [op |-> "modify", member |-> m, role |-> role, status |-> status,
                 scope |-> scope, todo |-> todo])
    /\ UNCHANGED <<tenant, member, orgVars>>

\* Mutant: a field that the request leaves out is written all the same.
UpdatedAll(row, q) == [status |-> q.status, role |-> q.role]

Updated(row, q) == [status |-> IF q.status = "keep" THEN row.status ELSE q.status,
                    role |-> IF q.role = "keep" THEN row.role ELSE q.role]

ModifyWrite(r) == LET q == treq[r] IN
    /\ q.op = "modify"
    /\ member' = [member EXCEPT ![q.member] = Updated(@, q)]
    /\ IF q.scope
       THEN /\ BeginScoping(r, q.member, q.todo)
            /\ TGoto(r, [op |-> "unscope", member |-> q.member, todo |-> q.todo])
       ELSE TGoto(r, TIdle) /\ UNCHANGED <<asked, mixed>>
    /\ UNCHANGED <<tenant, onboarding, user, invitation, branch, scopes>>

\* Mutant: the assignments are added to the ones there are.
UnscopeAdds(r) == LET q == treq[r] IN
    /\ q.op = "unscope"
    /\ TGoto(r, [q EXCEPT !.op = "rescope", !.todo = @ \ scopes[q.member]])
    /\ UNCHANGED <<tenant, member, orgVars>>

Unscope(r) == LET q == treq[r] IN
    /\ q.op = "unscope"
    /\ scopes' = [scopes EXCEPT ![q.member] = {}]
    /\ TGoto(r, [q EXCEPT !.op = "rescope"])
    /\ UNCHANGED <<tenant, member, onboarding, user, invitation, branch, asked, mixed>>

ModifyEnd(r) ==
    /\ treq[r].op = "rescope" /\ treq[r].todo = {}
    /\ TGoto(r, TIdle)
    /\ UNCHANGED <<tenant, member, orgVars>>

-----------------------------------------------------------------------------
\* The handlers that write one row, found by an id that never changes tenant.
createBranch(r) == LET t == treq[r].by[1] IN
    /\ Handling(r, "POST", "organization/branches")
    /\ BranchesLeft
    /\ branch' = [branch EXCEPT ![FreshBranch] = [tenant |-> t, exists |-> TRUE,
            isMain |-> FALSE, isActive |-> TRUE, archived |-> FALSE]]
    /\ TGoto(r, TIdle)
    /\ UNCHANGED <<tenant, member, onboarding, user, invitation, scopes, asked, mixed>>

updateBranch(r, b, isActive) ==
    /\ Handling(r, "PATCH", "organization/branches/:id")
    /\ b \in BranchesOf(treq[r].by[1])
    /\ branch' = [branch EXCEPT ![b].isActive = isActive]
    /\ TGoto(r, TIdle)
    /\ UNCHANGED <<tenant, member, onboarding, user, invitation, scopes, asked, mixed>>

archiveBranch(r, b) ==
    /\ Handling(r, "DELETE", "organization/branches/:id")
    /\ b \in BranchesOf(treq[r].by[1])
    /\ ~branch[b].isMain
    /\ branch' = [branch EXCEPT ![b].archived = TRUE, ![b].isActive = FALSE]
    /\ TGoto(r, TIdle)
    /\ UNCHANGED <<tenant, member, onboarding, user, invitation, scopes, asked, mixed>>

updateSettings(r, step) == LET t == treq[r].by[1] IN
    /\ Handling(r, "PATCH", "organization/settings")
    /\ onboarding' = [onboarding EXCEPT ![t] = step]
    /\ TGoto(r, TIdle)
    /\ UNCHANGED <<tenant, member, user, invitation, branch, scopes, asked, mixed>>

-----------------------------------------------------------------------------
\* A handler refuses its input (an id that is not the tenant's, somebody who
\* is a member), or the model has no id left for a new row.
Refuse(r) ==
    /\ \/ treq[r].op = "handle"
       \/ treq[r].op \in {"invite", "provision"} /\ ~(InvitesLeft /\ BranchesLeft)
    /\ TGoto(r, TIdle)
    /\ UNCHANGED <<tenant, member, orgVars>>

\* A request ends half-way through its statements.
Abandon(r) == LET q == treq[r] IN
    /\ mixed' = IF q.op \in {"scope", "unscope", "rescope"} THEN mixed \cup {q.member}
                ELSE mixed
    /\ TGoto(r, TIdle)
    /\ UNCHANGED <<tenant, member, onboarding, user, invitation, branch, scopes, asked>>

\* A statement fails: the row is there already, or the branch is not.
Clash(r) == LET q == treq[r] IN
    /\ \/ q.op = "provision" /\ TenantExists(q.tenant)
       \/ q.op = "user" /\ user[q.member[2]] # "none"
       \/ q.op = "member" /\ MemberExists(q.member)
       \/ /\ q.op \in {"scope", "rescope"}
          /\ \E b \in q.todo : b \in scopes[q.member] \/ ~branch[b].exists
    /\ Abandon(r)

Die(r) ==
    /\ TenReqsFail
    /\ treq[r] # TIdle
    /\ Abandon(r)

\* What the outside world may begin.
Call(r) ==
    \/ (PlatformCall(r) \/ ClientCall(r)) /\ UNCHANGED orgVars
    \/ \E staff \in PlatformRoleKey, t \in Tenants, e \in Emails : ProvisionRead(r, staff, t, e)
    \/ \E i \in Invites : AcceptRead(r, i)

\* The first step of the handlers of this module, with their inputs.
Handle(r) == treq[r].op = "handle" /\
    \/ \E e \in Emails, role \in InviteRoles, todo \in ScopeLists : InviteRead(r, e, role, todo)
    \/ \E e \in Emails, role \in InviteRoles \cup {"keep"},
          status \in {"keep", "active", "suspended", "removed"} :
        \/ ModifyRead(r, e, role, status, FALSE, {})
        \/ \E todo \in ScopeLists : ModifyRead(r, e, role, status, TRUE, todo)
    \/ createBranch(r)
    \/ \E b \in Branches : archiveBranch(r, b) \/ \E on \in BOOLEAN : updateBranch(r, b, on)
    \/ \E step \in Steps : updateSettings(r, step)

\* The steps of a request that is in: one is always possible.
Advance(r) ==
    \/ TenantStep(r) /\ UNCHANGED orgVars
    \/ Handle(r) \/ Refuse(r)
    \/ ProvisionCommit(r) \/ AcceptCommit(r)
    \/ InviteInsert(r) \/ InviteUser(r) \/ InviteMember(r) \/ InviteLink(r)
    \/ ModifyWrite(r) \/ Unscope(r) \/ ModifyEnd(r)
    \/ \E b \in Branches : AddScope(r, b)
    \/ Clash(r)

OrganizationNext == \E r \in TenReqs : Call(r) \/ Advance(r) \/ Die(r)

\* The server goes on with the requests it has let in.
OrganizationFairness == \A r \in TenReqs : WF_tenancyVars(Advance(r))

OrganizationSpec == OrganizationInit /\ [][OrganizationNext]_tenancyVars
FairOrganizationSpec == OrganizationSpec /\ OrganizationFairness

-----------------------------------------------------------------------------
\* An invitation that was accepted belongs to a membership that exists, of a
\* user with a password of its own choice; so does one that is linked.
AcceptedIsMember == \A i \in Invites :
    /\ invitation[i].linked => MemberExists(invitation[i].member)
    /\ invitation[i].status = "accepted" =>
            invitation[i].linked /\ user[invitation[i].member[2]] = "password"

\* Nobody is a member without an invitation to that tenant and address,
\* or without a user.
MemberWasInvited == \A m \in Members : MemberExists(m) =>
    /\ \E i \in Invites : InvitationExists(i) /\ invitation[i].member = m
    /\ user[m[2]] # "none"

\* Unless assignments of branches overlapped or died, a membership has the
\* branches that were last asked for, or is about to.
ScopesAsAsked == \A m \in Members : m \notin mixed =>
    \/ \E r \in Scoping(m) :
        \/ treq[r].op = "unscope" /\ treq[r].todo = asked[m]
        \/ scopes[m] = asked[m] \ treq[r].todo
    \/ Scoping(m) = {} /\ scopes[m] = asked[m]

\* inviteEmployee, updateMembership and acceptInvitation leave memberships
\* that agree with the invitations, users and branches, whatever overlaps and
\* whichever statement is the last that runs.
InvitationsMakeMembers == AcceptedIsMember /\ MemberWasInvited /\ ScopesAsAsked

\* A request to change something that the guards have let through.
LetIn(r, t, who) ==
    treq[r].op = "handle" /\ Mutates(treq[r].route) /\ treq[r].by = <<t, who>>

\* The guards read the write mode and the membership once, so requests that
\* were let in go on after a suspension; but only those.  When a tenant stays
\* suspended or read-only, the requests to change something run out that were
\* let in for it; and when a member stays anything but active, so do that
\* member's.  The two are separate: a request may pass the one guard while
\* only the tenant is restricted and the other while only the member is.
SuspensionTakesHold ==
    /\ \A t \in Tenants : <>[](tenant[t].writeMode # "full") =>
            <>[](\A r \in TenReqs, who \in Emails \cup {Customer} : ~LetIn(r, t, who))
    /\ \A m \in Members : <>[](member[m].status # "active") =>
            <>[](\A r \in TenReqs : ~LetIn(r, m[1], m[2]))
=============================================================================
