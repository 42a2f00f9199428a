-------------------------- MODULE BackOfficeProofs --------------------------
(***************************************************************************)
(* Proofs about Catalog.tla and Organization.tla, and what they give       *)
(* together with Documents, Desk, Trails and Records: for any numbers of   *)
(* servers, tenants, addresses, branches, documents, rows and requests.    *)
(***************************************************************************)
EXTENDS BackOffice, DocumentsProofs, TallyProofs

-----------------------------------------------------------------------------
(***************************************************************************)
(* Catalog: servers that start, stop and race over the catalogue.          *)
(***************************************************************************)

AllFeatureRows == FeatureRows(1 .. AllFeatures)
LinkedRows == PlanRows \cup PlanFeatureRows(FEATURE_CATALOG)

\* What a server has left behind is in the catalogue: all that it no longer
\* has to do, whoever inserted it.
Covered(q) ==
    /\ q.op = "features" => q.todo \subseteq AllFeatureRows /\ AllFeatureRows \subseteq catalog \cup q.todo
    /\ q.op = "insertFeature" =>
        /\ q.todo \cup {q.row} \subseteq AllFeatureRows
        /\ AllFeatureRows \subseteq catalog \cup q.todo \cup {q.row}
    /\ q.op = "plans" => q.todo \subseteq LinkedRows /\ FullCatalog \subseteq catalog \cup q.todo
    /\ q.op = "insertPlan" =>
        /\ q.todo \cup {q.row} \subseteq LinkedRows
        /\ FullCatalog \subseteq catalog \cup q.todo \cup {q.row}
    /\ q.op = "done" => FullCatalog \subseteq catalog

\* The server that made the last insertion cannot lose a race, nor can any
\* before there is one: nothing was inserted since it looked.
CannotLose(s) == LET q == boot[s] IN
    /\ q.op # "failed"
    /\ q.op \in {"insertFeature", "insertPlan"} => q.row \notin catalog
    /\ s = creator => q.op # "off"

\* The inductive invariant.
CatalogInv ==
    /\ CatalogTypeOK
    /\ catalog \subseteq FullCatalog
    /\ \A s \in Servers : Covered(boot[s])
    /\ creator = NoServer => catalog = {}
    /\ ~lost => \A s \in Servers : creator \in {NoServer, s} => CannotLose(s)

-----------------------------------------------------------------------------
\* The three kinds of row make up the catalogue.
LEMMA RowKinds ==
    /\ FullCatalog = AllFeatureRows \cup LinkedRows
    /\ FullCatalog \subseteq AllRows
<1>1. FEATURE_CATALOG \cup FUTURE_FEATURE_CATALOG = 1 .. AllFeatures
  BY CatalogAssumption DEF FEATURE_CATALOG, FUTURE_FEATURE_CATALOG
<1>2. FullCatalog = AllFeatureRows \cup LinkedRows
  BY <1>1 DEF FullCatalog, AllFeatureRows, LinkedRows
<1>3. FEATURE_CATALOG \subseteq 1 .. AllFeatures
  BY CatalogAssumption DEF FEATURE_CATALOG
<1>4. PlanFeatureRows(FEATURE_CATALOG) \subseteq PlanFeatureRows(1 .. AllFeatures)
  BY <1>3 DEF PlanFeatureRows
<1> QED BY <1>2, <1>4 DEF AllRows, AllFeatureRows, LinkedRows

\* Once every feature exists, those of FEATURE_CATALOG are linked, all of them.
LEMMA AllLinkable ==
    ASSUME AllFeatureRows \subseteq catalog
    PROVE  Linkable = FEATURE_CATALOG
<1>1. \A f \in FEATURE_CATALOG : <<"feature", 0, f>> \in AllFeatureRows
  BY CatalogAssumption DEF FEATURE_CATALOG, AllFeatureRows, FeatureRows
<1> QED BY <1>1 DEF Linkable

\* No row of the catalogue links a plan with a feature of the future.
LEMMA NoFutureLink ==
    \A p \in Plans, f \in FUTURE_FEATURE_CATALOG : <<"link", p, f>> \notin FullCatalog
<1> SUFFICES ASSUME NEW p \in Plans, NEW f \in FUTURE_FEATURE_CATALOG
             PROVE  <<"link", p, f>> \notin FullCatalog
  OBVIOUS
<1>1. f \notin FEATURE_CATALOG
  BY CatalogAssumption DEF FEATURE_CATALOG, FUTURE_FEATURE_CATALOG
<1> QED BY <1>1 DEF FullCatalog, FeatureRows, PlanRows, PlanFeatureRows

-----------------------------------------------------------------------------
LEMMA InitCatalogInv == CatalogInit => CatalogInv
<1> SUFFICES ASSUME CatalogInit PROVE CatalogInv
  OBVIOUS
<1>1. \A s \in Servers : boot[s].op = "off"
  BY DEF CatalogInit
<1>2. CatalogTypeOK
  <2>1. [op |-> "off"] \in Stopped
    BY DEF Stopped
  <2> QED BY <2>1 DEF CatalogInit, CatalogTypeOK
<1>3. \A s \in Servers : Covered(boot[s])
  BY <1>1 DEF Covered
<1>4. \A s \in Servers : CannotLose(s)
  BY <1>1, CatalogAssumption DEF CatalogInit, CannotLose, NoServer
<1> QED BY <1>2, <1>3, <1>4 DEF CatalogInit, CatalogInv

\* The fields of a server follow from what it is doing.
LEMMA BootFields ==
    ASSUME CatalogTypeOK, NEW s \in Servers
    PROVE  /\ boot[s].op \in {"features", "plans"} => boot[s] \in Seeding
           /\ boot[s].op \in {"insertFeature", "insertPlan"} => boot[s] \in Inserting
           /\ boot[s].op \in {"off", "done", "failed"} => boot[s] \in Stopped
  BY DEF CatalogTypeOK, Seeding, Inserting, Stopped

\* A step that inserts nothing leaves a state in which server s, and only s,
\* has gone on to q.
LEMMA BootGotoPreserves ==
    ASSUME CatalogInv, NEW s \in Servers, NEW q \in Seeding \cup Inserting \cup Stopped,
           BootGoto(s, q), UNCHANGED <<catalog, creator>>, Covered(q),
           lost' = lost \/ lost' = TRUE,
           lost' \/ (q.op \notin {"failed", "off"}
                     /\ (q.op \in {"insertFeature", "insertPlan"} => q.row \notin catalog))
             \/ creator \notin {NoServer, s}
    PROVE  CatalogInv'
<1>1. CatalogTypeOK'
  BY DEF CatalogInv, CatalogTypeOK, BootGoto
<1>2. \A p \in Servers : boot'[p] = IF p = s THEN q ELSE boot[p]
  BY DEF CatalogInv, CatalogTypeOK, BootGoto
<1>3. \A p \in Servers : Covered(boot[p])'
  BY <1>2 DEF CatalogInv, Covered
<1>4. ~lost' => \A p \in Servers : creator' \in {NoServer, p} => CannotLose(p)'
  BY <1>2 DEF CatalogInv, CannotLose, CatalogTypeOK
<1>5. catalog' \subseteq FullCatalog' /\ (creator' = NoServer => catalog' = {})
  BY DEF CatalogInv, FullCatalog, NoServer, FeatureRows, PlanRows, PlanFeatureRows,
     FEATURE_CATALOG, FUTURE_FEATURE_CATALOG
<1> QED BY <1>1, <1>3, <1>4, <1>5 DEF CatalogInv

LEMMA InsertPreserves ==
    ASSUME CatalogInv, NEW s \in Servers, Insert(s)
    PROVE  CatalogInv'
<1> DEFINE q == boot[s]
           next == [op |-> IF q.op = "insertFeature" THEN "features" ELSE "plans", todo |-> q.todo]
<1>1. q \in Inserting /\ next \in Seeding
  BY BootFields DEF CatalogInv, Insert, Seeding, Inserting
<1>2. \A p \in Servers : boot'[p] = IF p = s THEN next ELSE boot[p]
  BY DEF CatalogInv, CatalogTypeOK, Insert, BootGoto
<1>3. q.row \in FullCatalog
  BY RowKinds DEF CatalogInv, Covered, Insert
<1>4. CatalogTypeOK'
  BY <1>1, <1>3, RowKinds DEF CatalogInv, CatalogTypeOK, Insert, BootGoto
<1>5. catalog' \subseteq FullCatalog'
  BY <1>3 DEF CatalogInv, Insert, FullCatalog
<1>6. \A p \in Servers : Covered(boot[p])'
  BY <1>2 DEF CatalogInv, Covered, Insert
<1>7. creator' # NoServer
  BY CatalogAssumption DEF Insert, NoServer
<1>8. ~lost' => \A p \in Servers : creator' \in {NoServer, p} => CannotLose(p)'
  BY <1>2, <1>7 DEF CannotLose, Insert
<1> QED BY <1>4, <1>5, <1>6, <1>7, <1>8 DEF CatalogInv, NoServer

LEMMA NextCatalogInv == CatalogInv /\ [CatalogNext]_catalogVars => CatalogInv'
<1> SUFFICES ASSUME CatalogInv, [CatalogNext]_catalogVars PROVE CatalogInv'
  OBVIOUS
<1>1. ASSUME NEW s \in Servers, Start(s) PROVE CatalogInv'
  <2> DEFINE q == [op |-> "features", todo |-> FeatureRows(1 .. AllFeatures)]
  <2>1. q \in Seeding /\ Covered(q)
    BY DEF Seeding, Covered, AllFeatureRows, AllRows
  <2> QED BY <1>1, <2>1, BootGotoPreserves DEF Start
<1>2. ASSUME NEW s \in Servers, NEW x \in AllRows, Find(s, x) PROVE CatalogInv'
  <2>1. boot[s] \in Seeding /\ Covered(boot[s])
    BY <1>2, BootFields DEF CatalogInv, Find
  <2>2. CASE x \in catalog
    <3> DEFINE q == [boot[s] EXCEPT !.todo = @ \ {x}]
    <3>1. q \in Seeding /\ Covered(q)
      BY <2>1, <2>2, <1>2 DEF Seeding, Covered, Find
    <3> QED BY <1>2, <2>1, <2>2, <3>1, BootGotoPreserves DEF Find, Seeding
  <2>3. CASE x \notin catalog
    <3> DEFINE q == [op |-> IF boot[s].op = "features" THEN "insertFeature" ELSE "insertPlan",
                     todo |-> boot[s].todo \ {x}, row |-> x]
    <3>1. q \in Inserting
      BY <2>1 DEF Seeding, Inserting
    <3>2. Covered(q)
      BY <2>1, <1>2 DEF Seeding, Covered, Find
    <3> QED BY <1>2, <2>3, <3>1, <3>2, BootGotoPreserves DEF Find
  <2> QED BY <2>2, <2>3
<1>3. ASSUME NEW s \in Servers, InsertClash(s) PROVE CatalogInv'
  <2> DEFINE q == [op |-> "failed"]
  <2>1. q \in Stopped /\ Covered(q)
    BY DEF Stopped, Covered
  <2>2. lost \/ creator \notin {NoServer, s}
    BY <1>3 DEF CatalogInv, CannotLose, InsertClash
  <2> QED BY <1>3, <2>1, <2>2, BootGotoPreserves DEF InsertClash
<1>4. ASSUME NEW s \in Servers, ListFeatures(s) PROVE CatalogInv'
  <2> DEFINE q == [op |-> "plans", todo |-> PlanRows \cup PlanFeatureRows(Linkable)]
  <2>1. AllFeatureRows \subseteq catalog
    BY <1>4 DEF CatalogInv, Covered, ListFeatures
  <2>2. q.todo = LinkedRows
    BY <2>1, AllLinkable DEF LinkedRows
  <2>3. q \in Seeding /\ Covered(q)
    BY <2>1, <2>2, RowKinds DEF Seeding, Covered
  <2> QED BY <1>4, <2>3, BootGotoPreserves DEF ListFeatures
<1>5. ASSUME NEW s \in Servers, Finish(s) PROVE CatalogInv'
  <2> DEFINE q == [op |-> "done"]
  <2>1. q \in Stopped /\ Covered(q)
    BY <1>5 DEF Stopped, Covered, CatalogInv, Finish
  <2> QED BY <1>5, <2>1, BootGotoPreserves DEF Finish
<1>6. ASSUME NEW s \in Servers, Kill(s) PROVE CatalogInv'
  <2> DEFINE q == [op |-> "off"]
  <2>1. q \in Stopped /\ Covered(q)
    BY DEF Stopped, Covered
  <2> QED BY <1>6, <2>1, BootGotoPreserves DEF Kill
<1>7. CASE UNCHANGED catalogVars
  BY <1>7 DEF catalogVars, CatalogInv, CatalogTypeOK, Covered, CannotLose
<1> QED BY <1>1, <1>2, <1>3, <1>4, <1>5, <1>6, <1>7, InsertPreserves DEF CatalogNext

-----------------------------------------------------------------------------
\* When it is quiet, a server that cannot lose has finished.
LEMMA CatalogInvSeeded == CatalogInv => CatalogIsSeeded
<1> SUFFICES ASSUME CatalogInv PROVE SeededWhenQuiet /\ FutureStaysOff
  BY DEF CatalogIsSeeded
<1>1. FutureStaysOff
  BY NoFutureLink DEF CatalogInv, FutureStaysOff
<1>2. SeededWhenQuiet
  <2> SUFFICES ASSUME ~lost, \A s \in Servers : boot[s].op \in {"off", "done", "failed"},
                      NEW s \in Servers, boot[s].op # "off"
               PROVE  FullCatalog \subseteq catalog
    BY DEF SeededWhenQuiet
  <2>1. PICK c \in Servers : creator \in {NoServer, c} /\ boot[c].op # "off"
    <3>1. CASE creator = NoServer
      BY <3>1
    <3>2. CASE creator \in Servers
      BY <3>2 DEF CatalogInv, CannotLose
    <3> QED BY <3>1, <3>2 DEF CatalogInv, CatalogTypeOK
  <2>2. boot[c].op = "done"
    BY <2>1 DEF CatalogInv, CannotLose
  <2> QED BY <2>2 DEF CatalogInv, Covered
<1> QED BY <1>1, <1>2

\* CatalogTypeOK: what a server has read and is about to insert are rows.
THEOREM CatalogTypeCorrect == CatalogSpec => []CatalogTypeOK
<1>1. CatalogInv => CatalogTypeOK
  BY DEF CatalogInv
<1> QED BY <1>1, InitCatalogInv, NextCatalogInv, PTL DEF CatalogSpec

\* ensureEntitlementCatalog leaves no plan and no feature out, whichever
\* servers lose the races, and links no feature of the future.
THEOREM CatalogSeededCorrect == CatalogSpec => []CatalogIsSeeded
<1> QED BY InitCatalogInv, NextCatalogInv, CatalogInvSeeded, PTL DEF CatalogSpec

-----------------------------------------------------------------------------
(***************************************************************************)
(* Organization: invitations, memberships, users and branch assignments.   *)
(***************************************************************************)

Slots == {TIdle} \cup Guarded \cup Extending \cup Provisioning \cup Inviting \cup Invited
            \cup Modifying \cup Rescoping \cup Accepting

ScopingOps == {"scope", "unscope", "rescope"}

\* What a request has found, or made, is still there when it goes on as q.
Fits(q) ==
    /\ q.op = "accept" => InvitationExists(q.inv)
    /\ q.op \in {"user", "member", "scope"} =>
            InvitationExists(q.inv) /\ invitation[q.inv].member = q.member
    /\ q.op = "invite" /\ q.known => user[q.member[2]] # "none"
    /\ q.op = "member" => user[q.member[2]] # "none"
    /\ q.op \in {"modify"} \cup ScopingOps => MemberExists(q.member)

\* Unless they are mixed, the assignments to m are the work of one request at
\* a time: what it still has to insert is all that is missing.
ScopesFit(m) ==
    /\ ~MemberExists(m) => scopes[m] = {}
    /\ m \notin mixed =>
        /\ Scoping(m) = {} => scopes[m] = asked[m]
        /\ \A r, p \in Scoping(m) : r = p
        /\ \A r \in Scoping(m) :
              IF treq[r].op = "unscope" THEN treq[r].todo = asked[m]
              ELSE treq[r].todo \subseteq asked[m] /\ scopes[m] = asked[m] \ treq[r].todo

\* The inductive invariant.
OrganizationInv ==
    /\ OrganizationTypeOK
    /\ \A r \in TenReqs : Fits(treq[r])
    /\ \A m \in Members : ScopesFit(m)
    /\ AcceptedIsMember /\ MemberWasInvited

\* Invitations, users and memberships never go away.
Grows ==
    /\ \A i \in Invites : InvitationExists(i) =>
            InvitationExists(i)' /\ invitation'[i].member = invitation[i].member
    /\ \A e \in Emails : user[e] # "none" => user'[e] # "none"
    /\ \A m \in Members : MemberExists(m) => MemberExists(m)'

-----------------------------------------------------------------------------
LEMMA SlotFields ==
    ASSUME NEW q \in Slots
    PROVE  /\ q.op \in {"context", "handle"} => q \in Guarded
           /\ q.op = "extend" => q \in Extending
           /\ q.op = "provision" => q \in Provisioning
           /\ q.op = "invite" => q \in Inviting
           /\ q.op \in {"user", "member", "scope"} => q \in Invited
           /\ q.op = "modify" => q \in Modifying
           /\ q.op \in {"unscope", "rescope"} => q \in Rescoping
           /\ q.op = "accept" => q \in Accepting
  BY DEF Slots, TIdle, Guarded, Extending, Provisioning, Inviting, Invited, Modifying,
     Rescoping, Accepting

LEMMA SlotType == OrganizationTypeOK => treq \in [TenReqs -> Slots]
  BY DEF OrganizationTypeOK, Slots

\* What q refers to stays, so it goes on fitting.
LEMMA StillFits ==
    ASSUME Grows, NEW q \in Slots, Fits(q)
    PROVE  Fits(q)'
<1>1. CASE q.op = "accept"
  <2>1. q.inv \in Invites
    BY <1>1, SlotFields DEF Accepting
  <2> QED BY <1>1, <2>1 DEF Fits, Grows, ScopingOps
<1>2. CASE q.op \in {"user", "member", "scope"}
  <2>1. q.inv \in Invites /\ q.member \in Members /\ q.member[2] \in Emails
    BY <1>2, SlotFields DEF Invited, Members
  <2> QED BY <1>2, <2>1 DEF Fits, Grows, ScopingOps
<1>3. CASE q.op = "invite"
  <2>1. q.member[2] \in Emails
    BY <1>3, SlotFields DEF Inviting, Members
  <2> QED BY <1>3, <2>1 DEF Fits, Grows, ScopingOps
<1>4. CASE q.op \in {"modify", "unscope", "rescope"}
  <2>1. q.member \in Members
    BY <1>4, SlotFields DEF Modifying, Rescoping
  <2> QED BY <1>4, <2>1 DEF Fits, Grows, ScopingOps
<1>5. CASE q.op \notin {"accept", "invite", "modify", "user", "member"} \cup ScopingOps
  BY <1>5 DEF Fits, ScopingOps
<1> QED BY <1>1, <1>2, <1>3, <1>4, <1>5 DEF ScopingOps

\* Everything but the requests has its type.
RowsOK ==
    /\ TenantsTypeOK
    /\ onboarding \in [Tenants -> {"welcome", "profile"} \cup Steps]
    /\ user \in [Emails -> {"none", "placeholder", "password"}]
    /\ invitation \in [Invites -> InvitationRow]
    /\ branch \in [Branches -> BranchRow]
    /\ scopes \in [Members -> SUBSET Branches]
    /\ asked \in [Members -> SUBSET Branches]
    /\ mixed \subseteq Members

LEMMA RowsType == OrganizationInv => RowsOK
  BY DEF OrganizationInv, OrganizationTypeOK, RowsOK

\* A step of r that lets everything grow leaves the other requests fitting.
LEMMA SlotGotoPreserves ==
    ASSUME OrganizationInv, NEW r \in TenReqs, NEW q \in Slots, TGoto(r, q),
           Grows, RowsOK', Fits(q)', \A m \in Members : ScopesFit(m)',
           AcceptedIsMember', MemberWasInvited'
    PROVE  OrganizationInv'
<1>1. treq \in [TenReqs -> Slots]
  BY SlotType DEF OrganizationInv
<1>2. treq' \in [TenReqs -> Slots] /\ \A p \in TenReqs : treq'[p] = IF p = r THEN q ELSE treq[p]
  BY <1>1 DEF TGoto
<1>3. OrganizationTypeOK'
  BY <1>2 DEF OrganizationTypeOK, RowsOK, Slots
<1>4. ASSUME NEW p \in TenReqs PROVE Fits(treq[p])'
  <2>1. CASE p = r
    <3>1. treq'[p] = q
      BY <1>2, <2>1
    <3> QED BY <3>1 DEF Fits
  <2>2. CASE p # r
    <3>1. PICK s \in Slots : s = treq[p]
      BY <1>1
    <3>2. Fits(s)
      BY <3>1 DEF OrganizationInv
    <3>3. Fits(s)'
      BY <3>2, StillFits
    <3>4. treq'[p] = s
      BY <1>2, <2>2, <3>1
    <3> QED BY <3>3, <3>4 DEF Fits
  <2> QED BY <2>1, <2>2
<1> QED BY <1>3, <1>4 DEF OrganizationInv

-----------------------------------------------------------------------------
\* A step of a request that assigns no branches, before or after.
LEMMA ScopesApart ==
    ASSUME OrganizationInv, NEW r \in TenReqs, NEW q \in Slots, TGoto(r, q),
           q.op \notin ScopingOps, treq[r].op \notin ScopingOps,
           UNCHANGED <<scopes, asked, mixed>>, Grows
    PROVE  \A m \in Members : ScopesFit(m)'
<1> SUFFICES ASSUME NEW m \in Members PROVE ScopesFit(m)'
  OBVIOUS
<1>1. \A p \in TenReqs : treq'[p] = IF p = r THEN q ELSE treq[p]
  BY SlotType DEF OrganizationInv, TGoto
<1>2. Scoping(m)' = Scoping(m) /\ r \notin Scoping(m)
  BY <1>1 DEF Scoping, ScopingOps
<1>3. \A p \in Scoping(m) : treq'[p] = treq[p]
  BY <1>1, <1>2 DEF Scoping
<1> QED BY <1>2, <1>3 DEF OrganizationInv, ScopesFit, Grows

\* The request that assigns the branches to somebody is done, or ends before.
LEMMA ScopesEnd ==
    ASSUME OrganizationInv, NEW r \in TenReqs, TGoto(r, TIdle),
           treq[r].op \in ScopingOps, UNCHANGED <<scopes, asked>>, Grows,
           \/ mixed' = mixed \cup {treq[r].member}
           \/ mixed' = mixed /\ treq[r].op # "unscope" /\ treq[r].todo = {}
    PROVE  \A m \in Members : ScopesFit(m)'
<1> SUFFICES ASSUME NEW m \in Members PROVE ScopesFit(m)'
  OBVIOUS
<1>1. \A p \in TenReqs : treq'[p] = IF p = r THEN TIdle ELSE treq[p]
  BY SlotType DEF OrganizationInv, TGoto, Slots
<1>2. Scoping(m)' = Scoping(m) \ {r}
  BY <1>1 DEF Scoping, ScopingOps, TIdle
<1>3. \A p \in Scoping(m) : p # r => treq'[p] = treq[p]
  BY <1>1 DEF Scoping
<1>4. ~MemberExists(m)' => scopes'[m] = {}
  BY DEF OrganizationInv, ScopesFit, Grows
<1>5. CASE treq[r].member # m
  <2>1. r \notin Scoping(m) /\ Scoping(m)' = Scoping(m)
    BY <1>2, <1>5 DEF Scoping
  <2>2. m \in mixed' <=> m \in mixed
    BY <1>5
  <2> QED BY <1>3, <1>4, <2>1, <2>2 DEF OrganizationInv, ScopesFit
<1>6. CASE treq[r].member = m
  <2>1. r \in Scoping(m)
    BY <1>6 DEF Scoping, ScopingOps
  <2>2. CASE m \in mixed'
    BY <1>4, <2>2 DEF ScopesFit
  <2>3. CASE m \notin mixed'
    <3>1. m \notin mixed /\ treq[r].op # "unscope" /\ treq[r].todo = {}
      BY <2>3, <1>6
    <3>2. Scoping(m) = {r} /\ scopes[m] = asked[m]
      <4>1. ScopesFit(m)
        BY DEF OrganizationInv
      <4>2. \A p \in Scoping(m) : p = r
        BY <4>1, <3>1, <2>1 DEF ScopesFit
      <4>3. Scoping(m) = {r}
        BY <4>2, <2>1
      <4>4. scopes[m] = asked[m] \ treq[r].todo
        BY <4>1, <3>1, <2>1 DEF ScopesFit
      <4>5. asked[m] \in SUBSET Branches
        BY DEF OrganizationInv, OrganizationTypeOK
      <4>6. scopes[m] = asked[m]
        BY <4>4, <4>5, <3>1
      <4> QED BY <4>3, <4>6
    <3>3. Scoping(m)' = {}
      BY <3>2, <1>2
    <3> QED BY <1>4, <3>2, <3>3 DEF ScopesFit
  <2> QED BY <2>2, <2>3
<1> QED BY <1>5, <1>6

\* A request begins to assign the branches todo to m.
LEMMA ScopesBegin ==
    ASSUME OrganizationInv, NEW r \in TenReqs, NEW q \in Slots, TGoto(r, q), Grows,
           treq[r].op \notin ScopingOps, q.op \in ScopingOps, MemberExists(q.member)',
           BeginScoping(r, q.member, q.todo), UNCHANGED scopes,
           q.op = "unscope" \/ scopes[q.member] = {}
    PROVE  \A m \in Members : ScopesFit(m)'
<1> SUFFICES ASSUME NEW m \in Members PROVE ScopesFit(m)'
  OBVIOUS
<1>1. \A p \in TenReqs : treq'[p] = IF p = r THEN q ELSE treq[p]
  BY SlotType DEF OrganizationInv, TGoto
<1>2. r \notin Scoping(m) /\ asked \in [Members -> SUBSET Branches]
  BY DEF Scoping, ScopingOps, OrganizationInv, OrganizationTypeOK
<1>3. \A p \in Scoping(m) : treq'[p] = treq[p]
  BY <1>1, <1>2 DEF Scoping
<1>4. ~MemberExists(m)' => scopes'[m] = {}
  BY DEF OrganizationInv, ScopesFit, Grows
<1>5. CASE q.member # m
  <2>1. Scoping(m)' = Scoping(m)
    BY <1>1, <1>2, <1>5 DEF Scoping, ScopingOps
  <2>2. asked'[m] = asked[m] /\ (m \in mixed' <=> m \in mixed)
    BY <1>2, <1>5 DEF BeginScoping
  <2> QED BY <1>3, <1>4, <2>1, <2>2 DEF OrganizationInv, ScopesFit
<1>6. CASE q.member = m
  <2>1. Scoping(m)' = Scoping(m) \cup {r}
    BY <1>1, <1>6 DEF Scoping, ScopingOps
  <2>2. CASE Scoping(m) # {}
    <3>1. m \in mixed'
      BY <1>6, <2>2 DEF BeginScoping
    <3> QED BY <1>4, <3>1 DEF ScopesFit
  <2>3. CASE Scoping(m) = {}
    <3>1. Scoping(m)' = {r} /\ treq'[r] = q
      BY <1>1, <2>1, <2>3
    <3>2. asked'[m] = q.todo
      BY <1>2, <1>6 DEF BeginScoping
    <3>3. IF q.op = "unscope" THEN q.todo = asked'[m]
          ELSE q.todo \subseteq asked'[m] /\ scopes'[m] = asked'[m] \ q.todo
      BY <3>2, <1>6
    <3> QED BY <1>4, <3>1, <3>3 DEF ScopesFit
  <2> QED BY <2>2, <2>3
<1> QED BY <1>5, <1>6

\* A request that assigns branches deletes the old ones, or inserts one.
LEMMA ScopesMove ==
    ASSUME OrganizationInv, NEW r \in TenReqs, NEW q \in Slots, TGoto(r, q), Grows,
           treq[r].op \in ScopingOps, q.op \in ScopingOps, q.member = treq[r].member,
           q.op # "unscope", UNCHANGED <<member, asked, mixed>>,
           NEW now \in SUBSET Branches, scopes' = [scopes EXCEPT ![q.member] = now],
           \/ treq[r].op = "unscope" /\ q.todo = treq[r].todo /\ now = {}
           \/ /\ treq[r].op # "unscope"
              /\ \E b \in treq[r].todo :
                    q.todo = treq[r].todo \ {b} /\ now = scopes[q.member] \cup {b}
    PROVE  \A m \in Members : ScopesFit(m)'
<1> SUFFICES ASSUME NEW m \in Members PROVE ScopesFit(m)'
  OBVIOUS
<1>1. \A p \in TenReqs : treq'[p] = IF p = r THEN q ELSE treq[p]
  BY SlotType DEF OrganizationInv, TGoto
<1>2. Scoping(m)' = Scoping(m)
  BY <1>1 DEF Scoping, ScopingOps
<1>3. scopes \in [Members -> SUBSET Branches]
  BY DEF OrganizationInv, OrganizationTypeOK
<1>4. MemberExists(q.member)
  BY DEF OrganizationInv, Fits
<1>5. CASE q.member # m
  <2>1. r \notin Scoping(m) /\ scopes'[m] = scopes[m]
    BY <1>3, <1>5 DEF Scoping
  <2>2. \A p \in Scoping(m) : treq'[p] = treq[p]
    BY <1>1, <2>1 DEF Scoping
  <2> QED BY <1>2, <2>1, <2>2 DEF OrganizationInv, ScopesFit, MemberExists
<1>6. CASE q.member = m
  <2>1. r \in Scoping(m) /\ scopes'[m] = now /\ treq'[r] = q
    BY <1>1, <1>3, <1>6 DEF Scoping, ScopingOps
  <2>2. CASE m \in mixed
    BY <1>4, <1>6, <2>2 DEF ScopesFit, MemberExists
  <2>3. CASE m \notin mixed
    <3>1. Scoping(m) = {r}
      BY <2>1, <2>3 DEF OrganizationInv, ScopesFit
    <3>2. IF treq[r].op = "unscope" THEN treq[r].todo = asked[m]
          ELSE treq[r].todo \subseteq asked[m] /\ scopes[m] = asked[m] \ treq[r].todo
      BY <2>1, <2>3 DEF OrganizationInv, ScopesFit
    <3>3. q.todo \subseteq asked[m] /\ now = asked[m] \ q.todo
      BY <3>2, <1>6
    <3> QED BY <1>2, <1>4, <1>6, <2>1, <3>1, <3>3 DEF ScopesFit, MemberExists
  <2> QED BY <2>2, <2>3
<1> QED BY <1>5, <1>6

-----------------------------------------------------------------------------
\* A step that moves one request, assigns no branches and touches no
\* invitation, user or membership.
LEMMA QuietPreserves ==
    ASSUME OrganizationInv, NEW r \in TenReqs, NEW q \in Slots, TGoto(r, q),
           q.op \notin ScopingOps, treq[r].op \notin ScopingOps, Fits(q),
           UNCHANGED <<member, user, invitation, scopes, asked, mixed>>,
           tenant' \in [Tenants -> TenantRow],
           onboarding' \in [Tenants -> {"welcome", "profile"} \cup Steps],
           branch' \in [Branches -> BranchRow]
    PROVE  OrganizationInv'
<1>1. Grows
  BY DEF Grows, InvitationExists, MemberExists
<1>2. RowsOK'
  BY RowsType DEF RowsOK, TenantsTypeOK
<1>3. Fits(q)'
  BY <1>1, StillFits
<1>4. \A m \in Members : ScopesFit(m)'
  BY <1>1, ScopesApart
<1>5. AcceptedIsMember' /\ MemberWasInvited'
  BY DEF OrganizationInv, AcceptedIsMember, MemberWasInvited, InvitationExists, MemberExists
<1> QED BY <1>1, <1>2, <1>3, <1>4, <1>5, SlotGotoPreserves

\* The platform changes a tenant's row and no request.
LEMMA LifecyclePreserves ==
    ASSUME OrganizationInv, tenant' \in [Tenants -> TenantRow],
           UNCHANGED <<member, treq, orgVars>>
    PROVE  OrganizationInv'
<1>1. OrganizationTypeOK'
  BY DEF OrganizationInv, OrganizationTypeOK, TenantsTypeOK, orgVars
<1>2. \A r \in TenReqs : Fits(treq[r])'
  BY DEF OrganizationInv, Fits, InvitationExists, MemberExists, orgVars
<1>3. \A m \in Members : ScopesFit(m)'
  BY DEF OrganizationInv, ScopesFit, Scoping, MemberExists, orgVars
<1>4. AcceptedIsMember' /\ MemberWasInvited'
  BY DEF OrganizationInv, AcceptedIsMember, MemberWasInvited, InvitationExists,
     MemberExists, orgVars
<1> QED BY <1>1, <1>2, <1>3, <1>4 DEF OrganizationInv

LEMMA SetLifecyclePreserves ==
    ASSUME OrganizationInv, NEW t \in Tenants,
           NEW status \in {"active", "suspended", "read_only"},
           NEW mode \in {"full", "read_only", "blocked"},
           setLifecycle(t, status, mode), UNCHANGED orgVars
    PROVE  OrganizationInv'
<1>1. tenant' \in [Tenants -> TenantRow]
  <2>1. tenant \in [Tenants -> TenantRow]
    BY DEF OrganizationInv, OrganizationTypeOK, TenantsTypeOK
  <2>2. PICK old \in TenantRow : old = tenant[t]
    BY <2>1
  <2>3. [old EXCEPT !.status = status, !.writeMode = mode] \in TenantRow
    BY DEF TenantRow
  <2>4. tenant' = [tenant EXCEPT ![t] = [old EXCEPT !.status = status, !.writeMode = mode]]
    BY <2>1, <2>2 DEF setLifecycle
  <2> QED BY <2>1, <2>3, <2>4
<1> QED BY <1>1, LifecyclePreserves DEF setLifecycle, orgVars

LEMMA PlatformCallPreserves ==
    ASSUME OrganizationInv, NEW r \in TenReqs, PlatformCall(r), UNCHANGED orgVars
    PROVE  OrganizationInv'
<1>1. PICK staff \in PlatformRoleKey, t \in Tenants :
          \/ Activate(staff, t) \/ Suspend(staff, t) \/ SetReadOnly(staff, t)
          \/ \E days \in Days, now \in 0 .. MaxTrial : ExtendTrialRead(r, staff, t, days, now)
  BY DEF PlatformCall
<1>2. CASE Activate(staff, t) \/ Suspend(staff, t) \/ SetReadOnly(staff, t)
  BY <1>2, SetLifecyclePreserves DEF Activate, Suspend, SetReadOnly
<1>3. ASSUME NEW days \in Days, NEW now \in 0 .. MaxTrial,
             ExtendTrialRead(r, staff, t, days, now)
      PROVE  OrganizationInv'
  <2>1. PICK end \in Nat : end = tenant[t].trialEndsAt
    BY DEF OrganizationInv, OrganizationTypeOK, TenantsTypeOK, TenantRow
  <2>2. LaterOf(end, now) + days \in Nat
    BY <1>3, TenantsAssumption DEF LaterOf
  <2> DEFINE q == [op |-> "extend", tenant |-> t, until |-> LaterOf(end, now) + days]
  <2>3. q \in Slots /\ q.op = "extend" /\ TGoto(r, q)
    BY <1>3, <2>1, <2>2 DEF Slots, Extending, ExtendTrialRead
  <2>4. Fits(q) /\ treq[r].op = "idle"
    BY <1>3, <2>3 DEF Fits, ScopingOps, ExtendTrialRead, TIdle
  <2> HIDE DEF q
  <2> QED BY <1>3, <2>3, <2>4, QuietPreserves, RowsType
          DEF ExtendTrialRead, orgVars, ScopingOps, RowsOK, TenantsTypeOK
<1> QED BY <1>1, <1>2, <1>3

LEMMA ClientCallPreserves ==
    ASSUME OrganizationInv, NEW r \in TenReqs, ClientCall(r), UNCHANGED orgVars
    PROVE  OrganizationInv'
<1>1. ASSUME NEW q \in Guarded, TGoto(r, q), treq[r] = TIdle, UNCHANGED <<tenant, member>>
      PROVE  OrganizationInv'
  <2>1. q \in Slots /\ q.op \in {"context", "handle"}
    BY DEF Slots, Guarded
  <2>2. Fits(q) /\ treq[r].op = "idle"
    BY <1>1, <2>1 DEF Fits, ScopingOps, TIdle
  <2> QED BY <1>1, <2>1, <2>2, QuietPreserves, RowsType
          DEF orgVars, ScopingOps, RowsOK, TenantsTypeOK
<1>2. ASSUME NEW route \in UsedRoutes, NEW m \in Members, CompanyGuard(r, m, route)
      PROVE  OrganizationInv'
  <2> DEFINE q == [op |-> "context", by |-> m, role |-> member[m].role, route |-> route]
  <2>1. member[m].role \in DEFAULT_ROLE_KEYS /\ m \in Tenants \X (Emails \cup {Customer})
    BY DEF OrganizationInv, OrganizationTypeOK, TenantsTypeOK, MemberRow, Members
  <2>2. q \in Guarded
    BY <2>1 DEF Guarded
  <2> QED BY <1>1, <1>2, <2>2 DEF CompanyGuard
<1>3. ASSUME NEW route \in UsedRoutes, NEW t \in Tenants, PortalGuard(r, t, route)
      PROVE  OrganizationInv'
  <2> DEFINE q == [op |-> "context", by |-> <<t, Customer>>, role |-> "customer",
                   route |-> route]
  <2>1. q \in Guarded
    BY DEF Guarded
  <2> QED BY <1>1, <1>3, <2>1 DEF PortalGuard
<1> QED BY <1>2, <1>3 DEF ClientCall

LEMMA TenantStepPreserves ==
    ASSUME OrganizationInv, NEW r \in TenReqs, TenantStep(r), UNCHANGED orgVars
    PROVE  OrganizationInv'
<1>1. PICK old \in Slots : old = treq[r]
  BY SlotType DEF OrganizationInv
<1>2. ASSUME NEW q \in Guarded \cup {TIdle}, TGoto(r, q), treq[r].op \notin ScopingOps,
             tenant' \in [Tenants -> TenantRow], UNCHANGED member
      PROVE  OrganizationInv'
  <2>1. q \in Slots /\ q.op \in {"context", "handle", "idle"}
    BY DEF Slots, Guarded, TIdle
  <2>2. Fits(q)
    BY <2>1 DEF Fits, ScopingOps
  <2> QED BY <1>2, <2>1, <2>2, QuietPreserves, RowsType
          DEF orgVars, ScopingOps, RowsOK, TenantsTypeOK
<1>3. tenant \in [Tenants -> TenantRow]
  BY DEF OrganizationInv, OrganizationTypeOK, TenantsTypeOK
<1>4. CASE LoadContext(r)
  <2>1. old \in Guarded
    BY <1>1, <1>4, SlotFields DEF LoadContext
  <2>2. [old EXCEPT !.op = "handle"] \in Guarded
    BY <2>1 DEF Guarded
  <2>3. \E q \in {TIdle, [old EXCEPT !.op = "handle"]} : TGoto(r, q)
    BY <1>1, <1>4 DEF LoadContext
  <2>4. treq[r].op \notin ScopingOps /\ UNCHANGED <<tenant, member>>
    BY <1>4 DEF LoadContext, ScopingOps
  <2> QED BY <1>2, <1>3, <2>2, <2>3, <2>4
<1>5. CASE Serve(r)
  BY <1>2, <1>3, <1>5 DEF Serve, ScopingOps
<1>6. CASE ExtendTrialCommit(r)
  <2>1. old \in Extending
    BY <1>1, <1>6, SlotFields DEF ExtendTrialCommit
  <2>2. tenant' \in [Tenants -> TenantRow]
    BY <1>1, <1>3, <1>6, <2>1 DEF ExtendTrialCommit, Extending, TenantRow
  <2> QED BY <1>2, <1>6, <2>2 DEF ExtendTrialCommit, ScopingOps
<1> QED BY <1>4, <1>5, <1>6 DEF TenantStep

\* The reads that begin a request or a handler.
LEMMA ReadPreserves ==
    ASSUME OrganizationInv, NEW r \in TenReqs, NEW q \in Slots, TGoto(r, q),
           q.op \notin ScopingOps, treq[r].op \notin ScopingOps, Fits(q),
           UNCHANGED <<tenant, member, orgVars>>
    PROVE  OrganizationInv'
  BY QuietPreserves, RowsType DEF RowsOK, TenantsTypeOK, orgVars

LEMMA CallPreserves ==
    ASSUME OrganizationInv, NEW r \in TenReqs, Call(r)
    PROVE  OrganizationInv'
<1>1. ASSUME NEW staff \in PlatformRoleKey, NEW t \in Tenants, NEW e \in Emails,
             ProvisionRead(r, staff, t, e)
      PROVE  OrganizationInv'
  <2> DEFINE q == [op |-> "provision", tenant |-> t, owner |-> e]
  <2>1. q \in Slots /\ Fits(q) /\ q.op \notin ScopingOps
    BY DEF Slots, Provisioning, Fits, ScopingOps
  <2>2. treq[r].op \notin ScopingOps
    BY <1>1 DEF ProvisionRead, TIdle, ScopingOps
  <2> QED BY <1>1, <2>1, <2>2, ReadPreserves DEF ProvisionRead
<1>2. ASSUME NEW i \in Invites, AcceptRead(r, i) PROVE OrganizationInv'
  <2> DEFINE q == [op |-> "accept", inv |-> i]
  <2>1. q \in Slots /\ Fits(q) /\ q.op \notin ScopingOps
    BY <1>2 DEF Slots, Accepting, Fits, ScopingOps, AcceptRead, InvitationExists
  <2>2. treq[r].op \notin ScopingOps
    BY <1>2 DEF AcceptRead, TIdle, ScopingOps
  <2> QED BY <1>2, <2>1, <2>2, ReadPreserves DEF AcceptRead
<1> QED BY <1>1, <1>2, PlatformCallPreserves, ClientCallPreserves DEF Call

LEMMA FreshRows ==
    /\ NoInvitation \in InvitationRow /\ NoBranch \in BranchRow
    /\ InvitesLeft => FreshInvite \in Invites /\ ~InvitationExists(FreshInvite)
    /\ BranchesLeft => FreshBranch \in Branches /\ ~branch[FreshBranch].exists
<1>1. (CHOOSE m \in Members : TRUE) \in Members /\ (CHOOSE t \in Tenants : TRUE) \in Tenants
  <2>1. PICK t \in Tenants, e \in Emails : TRUE
    BY OrganizationAssumption
  <2>2. <<t, e>> \in Members
    BY DEF Members
  <2> QED BY <2>1, <2>2
<1>2. NoInvitation \in InvitationRow /\ NoBranch \in BranchRow
  BY <1>1 DEF NoInvitation, NoBranch, InvitationRow, BranchRow, DEFAULT_ROLE_KEYS
<1>3. InvitesLeft => FreshInvite \in Invites /\ ~InvitationExists(FreshInvite)
  BY DEF InvitesLeft, FreshInvite
<1>4. BranchesLeft => FreshBranch \in Branches /\ ~branch[FreshBranch].exists
  BY DEF BranchesLeft, FreshBranch
<1> QED BY <1>2, <1>3, <1>4

\* The handlers that only change a branch or the settings.
LEMMA HandledPreserves ==
    ASSUME OrganizationInv, NEW r \in TenReqs, TGoto(r, TIdle), treq[r].op \notin ScopingOps,
           UNCHANGED <<tenant, member, user, invitation, scopes, asked, mixed>>,
           onboarding' \in [Tenants -> {"welcome", "profile"} \cup Steps],
           branch' \in [Branches -> BranchRow]
    PROVE  OrganizationInv'
<1>1. TIdle \in Slots /\ Fits(TIdle) /\ TIdle.op \notin ScopingOps
  BY DEF Slots, Fits, ScopingOps, TIdle
<1> QED BY <1>1, QuietPreserves, RowsType DEF RowsOK, TenantsTypeOK

LEMMA HandlePreserves ==
    ASSUME OrganizationInv, NEW r \in TenReqs, Handle(r) \/ Refuse(r)
    PROVE  OrganizationInv'
<1>1. /\ branch \in [Branches -> BranchRow]
      /\ onboarding \in [Tenants -> {"welcome", "profile"} \cup Steps]
  BY DEF OrganizationInv, OrganizationTypeOK
<1>2. PICK old \in Slots : old = treq[r]
  BY SlotType DEF OrganizationInv
<1>3. treq[r].op = "handle" => old.by[1] \in Tenants
  BY <1>2, SlotFields DEF Guarded
<1>4. ASSUME NEW e \in Emails, NEW role \in InviteRoles, NEW todo \in ScopeLists,
             InviteRead(r, e, role, todo)
      PROVE  OrganizationInv'
  <2>1. treq[r].op = "handle"
    BY <1>4 DEF InviteRead, Handling
  <2>2. PICK m \in Members : m = <<old.by[1], e>>
    BY <2>1, <1>3 DEF Members
  <2> DEFINE q == [op |-> "invite", member |-> m, role |-> role, todo |-> todo,
                   known |-> user[e] # "none"]
  <2>3. q \in Slots
    BY OrganizationAssumption DEF Slots, Inviting
  <2>4. Fits(q) /\ q.op \notin ScopingOps
    BY <2>2 DEF Fits, ScopingOps
  <2>5. TGoto(r, q) /\ UNCHANGED <<tenant, member, orgVars>>
    BY <1>4, <1>2, <2>2 DEF InviteRead
  <2> HIDE DEF q
  <2> QED BY <2>1, <2>3, <2>4, <2>5, ReadPreserves DEF ScopingOps
<1>5. ASSUME NEW e \in Emails, NEW role \in InviteRoles \cup {"keep"},
             NEW status \in {"keep", "active", "suspended", "removed"},
             NEW scope \in BOOLEAN, NEW todo \in SUBSET Branches,
             ModifyRead(r, e, role, status, scope, todo)
      PROVE  OrganizationInv'
  <2>1. treq[r].op = "handle"
    BY <1>5 DEF ModifyRead, Handling
  <2>2. PICK m \in Members : m = <<old.by[1], e>>
    BY <2>1, <1>3 DEF Members
  <2> DEFINE q == [op |-> "modify", member |-> m, role |-> role, status |-> status,
                   scope |-> scope, todo |-> todo]
  <2>3. q \in Slots
    BY OrganizationAssumption DEF Slots, Modifying, MembershipStatus
  <2>4. Fits(q) /\ q.op \notin ScopingOps
    BY <1>5, <1>2, <2>2 DEF Fits, ScopingOps, ModifyRead
  <2>5. TGoto(r, q) /\ UNCHANGED <<tenant, member, orgVars>>
    BY <1>5, <1>2, <2>2 DEF ModifyRead
  <2> HIDE DEF q
  <2> QED BY <2>1, <2>3, <2>4, <2>5, ReadPreserves DEF ScopingOps
<1>6. CASE createBranch(r)
  <2>1. treq[r].op = "handle"
    BY <1>6 DEF createBranch, Handling
  <2>2. branch' \in [Branches -> BranchRow]
    BY <1>1, <1>2, <1>3, <1>6, <2>1 DEF createBranch, BranchRow
  <2> QED BY <1>1, <1>6, <2>1, <2>2, HandledPreserves DEF createBranch, ScopingOps
<1>7. ASSUME NEW b \in Branches, archiveBranch(r, b) PROVE OrganizationInv'
  <2>1. branch' \in [Branches -> BranchRow]
    BY <1>1, <1>7 DEF archiveBranch, BranchRow
  <2> QED BY <1>1, <1>7, <2>1, HandledPreserves DEF archiveBranch, ScopingOps, Handling
<1>8. ASSUME NEW b \in Branches, NEW on \in BOOLEAN, updateBranch(r, b, on)
      PROVE  OrganizationInv'
  <2>1. branch' \in [Branches -> BranchRow]
    BY <1>1, <1>8 DEF updateBranch, BranchRow
  <2> QED BY <1>1, <1>8, <2>1, HandledPreserves DEF updateBranch, ScopingOps, Handling
<1>9. ASSUME NEW step \in Steps, updateSettings(r, step) PROVE OrganizationInv'
  <2>1. onboarding' \in [Tenants -> {"welcome", "profile"} \cup Steps]
    BY <1>1, <1>9 DEF updateSettings
  <2> QED BY <1>1, <1>9, <2>1, HandledPreserves DEF updateSettings, ScopingOps, Handling
<1>10. CASE Refuse(r)
  BY <1>1, <1>10, HandledPreserves DEF Refuse, ScopingOps, orgVars
<1>11. ASSUME NEW e \in Emails, NEW role \in InviteRoles \cup {"keep"},
             NEW status \in {"keep", "active", "suspended", "removed"},
             \/ ModifyRead(r, e, role, status, FALSE, {})
             \/ \E todo \in ScopeLists : ModifyRead(r, e, role, status, TRUE, todo)
      PROVE  OrganizationInv'
  <2>1. CASE ModifyRead(r, e, role, status, FALSE, {})
    <3>1. FALSE \in BOOLEAN /\ {} \in SUBSET Branches
      OBVIOUS
    <3> QED BY <1>5, <2>1, <3>1
  <2>2. ASSUME NEW todo \in ScopeLists, ModifyRead(r, e, role, status, TRUE, todo)
        PROVE  OrganizationInv'
    <3>1. TRUE \in BOOLEAN /\ todo \in SUBSET Branches
      BY OrganizationAssumption
    <3> QED BY <1>5, <2>2, <3>1
  <2> QED BY <1>11, <2>1, <2>2
<1> QED BY <1>4, <1>6, <1>7, <1>8, <1>9, <1>10, <1>11 DEF Handle

-----------------------------------------------------------------------------
LEMMA ProvisionCommitPreserves ==
    ASSUME OrganizationInv, NEW r \in TenReqs, ProvisionCommit(r)
    PROVE  OrganizationInv'
<1>1. PICK old \in Provisioning : old = treq[r]
  BY SlotType, SlotFields DEF OrganizationInv, ProvisionCommit
<1>2. PICK i \in Invites, b \in Branches :
          i = FreshInvite /\ b = FreshBranch /\ ~InvitationExists(i)
  BY FreshRows DEF ProvisionCommit
<1>3. PICK m \in Members : m = <<old.tenant, old.owner>>
  BY <1>1 DEF Provisioning, Members
<1> DEFINE entry == [status |-> "pending", kind |-> "owner", member |-> m, role |-> "owner",
                   linked |-> FALSE]
<1>4. entry \in InvitationRow /\ entry.status = "pending" /\ entry.linked = FALSE
  BY DEF InvitationRow, DEFAULT_ROLE_KEYS
<1>5. PICK new \in InvitationRow : new = entry /\ new.status = "pending" /\ ~new.linked
  BY <1>4
<1>6. invitation' = [invitation EXCEPT ![i] = new] /\ invitation \in [Invites -> InvitationRow]
  BY <1>1, <1>2, <1>3, <1>5 DEF ProvisionCommit, OrganizationInv, OrganizationTypeOK
<1>7. \A j \in Invites : invitation'[j] = IF j = i THEN new ELSE invitation[j]
  BY <1>6
<1>8. Grows
  BY <1>2, <1>7 DEF Grows, InvitationExists, MemberExists, ProvisionCommit
<1>9. RowsOK'
  <2>1. tenant' \in [Tenants -> TenantRow]
    BY <1>1, TenantsAssumption DEF ProvisionCommit, OrganizationInv, OrganizationTypeOK,
       TenantsTypeOK, TenantRow, Provisioning
  <2>2. branch' \in [Branches -> BranchRow]
    BY <1>1, <1>2 DEF ProvisionCommit, OrganizationInv, OrganizationTypeOK, BranchRow,
       Provisioning
  <2>3. invitation' \in [Invites -> InvitationRow]
    BY <1>6
  <2> QED BY <2>1, <2>2, <2>3, RowsType DEF RowsOK, TenantsTypeOK, ProvisionCommit
<1>10. TIdle \in Slots /\ Fits(TIdle)' /\ TIdle.op \notin ScopingOps /\ TGoto(r, TIdle)
  BY DEF Slots, Fits, ScopingOps, TIdle, ProvisionCommit
<1>11. \A n \in Members : ScopesFit(n)'
  BY <1>8, <1>10, ScopesApart DEF ProvisionCommit, ScopingOps
<1>12. AcceptedIsMember'
  BY <1>5, <1>7 DEF OrganizationInv, AcceptedIsMember, MemberExists, ProvisionCommit
<1>13. MemberWasInvited'
  BY <1>8 DEF OrganizationInv, MemberWasInvited, MemberExists, ProvisionCommit, Grows
<1> QED BY <1>8, <1>9, <1>10, <1>11, <1>12, <1>13, SlotGotoPreserves

LEMMA AcceptCommitPreserves ==
    ASSUME OrganizationInv, NEW r \in TenReqs, AcceptCommit(r)
    PROVE  OrganizationInv'
<1>1. PICK i \in Invites : i = treq[r].inv /\ InvitationExists(i)
  <2>1. treq[r] \in Accepting
    BY SlotType, SlotFields DEF OrganizationInv, AcceptCommit
  <2> QED BY <2>1 DEF OrganizationInv, Fits, AcceptCommit, Accepting
<1>2. PICK old \in InvitationRow : old = invitation[i]
  BY DEF OrganizationInv, OrganizationTypeOK
<1>3. PICK m \in Members : m = old.member
  BY <1>2 DEF InvitationRow
<1>4. m[1] \in Tenants /\ m[2] \in Emails /\ old.role \in DEFAULT_ROLE_KEYS
  BY <1>2 DEF Members, InvitationRow
<1> DEFINE entry == [old EXCEPT !.status = "accepted", !.linked = TRUE]
<1>5. entry \in InvitationRow /\ entry.status = "accepted" /\ entry.linked /\ entry.member = m
  BY <1>3 DEF InvitationRow
<1>6. PICK new \in InvitationRow :
          new = entry /\ new.status = "accepted" /\ new.linked /\ new.member = m
  BY <1>5
<1> DEFINE membership == [status |-> "active", role |-> old.role]
<1>7. membership \in MemberRow /\ membership.status = "active"
  BY <1>4 DEF MemberRow, MembershipStatus
<1>8. PICK card \in MemberRow : card = membership /\ card.status = "active"
  BY <1>7
<1>9. /\ invitation' = [invitation EXCEPT ![i] = new]
      /\ invitation \in [Invites -> InvitationRow]
  BY <1>1, <1>2, <1>6 DEF AcceptCommit, OrganizationInv, OrganizationTypeOK
<1>10. member' = [member EXCEPT ![m] = card] /\ member \in [Members -> MemberRow]
  BY <1>1, <1>2, <1>3, <1>8 DEF AcceptCommit, OrganizationInv, OrganizationTypeOK, TenantsTypeOK
<1>11. /\ user' = [user EXCEPT ![m[2]] = "password"]
      /\ user \in [Emails -> {"none", "placeholder", "password"}]
  BY <1>1, <1>2, <1>3 DEF AcceptCommit, OrganizationInv, OrganizationTypeOK
<1>12. /\ \A j \in Invites : invitation'[j] = IF j = i THEN new ELSE invitation[j]
       /\ \A n \in Members : member'[n] = IF n = m THEN card ELSE member[n]
       /\ \A e \in Emails : user'[e] = IF e = m[2] THEN "password" ELSE user[e]
  BY <1>9, <1>10, <1>11
<1>13. Grows
  <2>1. ASSUME NEW j \in Invites, InvitationExists(j)
        PROVE  InvitationExists(j)' /\ invitation'[j].member = invitation[j].member
    <3>1. CASE j = i
      BY <1>2, <1>3, <1>6, <1>12, <3>1 DEF InvitationExists
    <3>2. CASE j # i
      BY <1>12, <2>1, <3>2 DEF InvitationExists
    <3> QED BY <3>1, <3>2
  <2>2. \A e \in Emails : user[e] # "none" => user'[e] # "none"
    BY <1>12
  <2>3. \A n \in Members : MemberExists(n) => MemberExists(n)'
    BY <1>8, <1>12 DEF MemberExists
  <2> QED BY <2>1, <2>2, <2>3 DEF Grows
<1>14. RowsOK'
  <2>1. invitation' \in [Invites -> InvitationRow] /\ member' \in [Members -> MemberRow]
        /\ user' \in [Emails -> {"none", "placeholder", "password"}]
    BY <1>9, <1>10, <1>11
  <2>2. onboarding' \in [Tenants -> {"welcome", "profile"} \cup Steps]
    BY <1>1, <1>2, <1>3 DEF AcceptCommit, OrganizationInv, OrganizationTypeOK
  <2> QED BY <2>1, <2>2, RowsType DEF RowsOK, TenantsTypeOK, AcceptCommit
<1>15. TIdle \in Slots /\ Fits(TIdle)' /\ TIdle.op \notin ScopingOps /\ TGoto(r, TIdle)
  BY DEF Slots, Fits, ScopingOps, TIdle, AcceptCommit
<1>16. \A n \in Members : ScopesFit(n)'
  BY <1>13, <1>15, ScopesApart DEF AcceptCommit, ScopingOps
<1>17. AcceptedIsMember'
  <2> SUFFICES ASSUME NEW j \in Invites
               PROVE  /\ invitation'[j].linked => member'[invitation'[j].member].status # "none"
                      /\ invitation'[j].status = "accepted" =>
                            invitation'[j].linked /\ user'[invitation'[j].member[2]] = "password"
    BY DEF AcceptedIsMember, MemberExists
  <2>1. CASE j = i
    BY <1>4, <1>6, <1>8, <1>12, <2>1
  <2>2. CASE j # i
    <3>1. PICK n \in Members : n = invitation[j].member /\ n[2] \in Emails
      BY <1>9 DEF InvitationRow, Members
    <3>2. /\ invitation[j].linked => MemberExists(n)
          /\ invitation[j].status = "accepted" => invitation[j].linked /\ user[n[2]] = "password"
      BY <3>1 DEF OrganizationInv, AcceptedIsMember
    <3>3. MemberExists(n) => MemberExists(n)'
      BY <1>13 DEF Grows
    <3>4. user[n[2]] = "password" => user'[n[2]] = "password"
      BY <1>12, <3>1
    <3>5. invitation'[j] = invitation[j]
      BY <1>12, <2>2
    <3> QED BY <3>1, <3>2, <3>3, <3>4, <3>5 DEF MemberExists
  <2> QED BY <2>1, <2>2
<1>18. MemberWasInvited'
  <2> SUFFICES ASSUME NEW n \in Members, MemberExists(n)'
               PROVE  /\ \E j \in Invites : InvitationExists(j)' /\ invitation'[j].member = n
                      /\ user'[n[2]] # "none"
    BY DEF MemberWasInvited
  <2>1. CASE n = m
    <3>1. invitation'[i] = new
      BY <1>12
    <3>2. InvitationExists(i)'
      BY <1>6, <3>1 DEF InvitationExists
    <3>3. user'[m[2]] = "password"
      BY <1>4, <1>12
    <3> QED BY <1>6, <2>1, <3>1, <3>2, <3>3
  <2>2. CASE n # m
    <3>1. MemberExists(n) /\ n[2] \in Emails
      BY <1>12, <2>2 DEF MemberExists, Members
    <3> QED BY <1>13, <3>1 DEF OrganizationInv, MemberWasInvited, Grows
  <2> QED BY <2>1, <2>2
<1> QED BY <1>13, <1>14, <1>15, <1>16, <1>17, <1>18, SlotGotoPreserves

-----------------------------------------------------------------------------
\* Steps that leave memberships, users and invitations alone.
LEMMA StillInvited ==
    ASSUME OrganizationInv, UNCHANGED <<member, user, invitation>>
    PROVE  AcceptedIsMember' /\ MemberWasInvited'
  BY DEF OrganizationInv, AcceptedIsMember, MemberWasInvited, InvitationExists, MemberExists

LEMMA InviteInsertPreserves ==
    ASSUME OrganizationInv, NEW r \in TenReqs, InviteInsert(r)
    PROVE  OrganizationInv'
<1>1. PICK old \in Inviting : old = treq[r]
  BY SlotType, SlotFields DEF OrganizationInv, InviteInsert
<1>2. PICK i \in Invites : i = FreshInvite /\ ~InvitationExists(i)
  BY FreshRows DEF InviteInsert
<1> DEFINE entry == [status |-> "pending", kind |-> "employee", member |-> old.member,
                   role |-> old.role, linked |-> FALSE]
<1>3. entry \in InvitationRow /\ entry.status = "pending" /\ entry.linked = FALSE
      /\ entry.member = old.member
  BY <1>1 DEF InvitationRow, Inviting
<1>4. PICK new \in InvitationRow :
          new = entry /\ new.status = "pending" /\ ~new.linked /\ new.member = old.member
  BY <1>3
<1>5. invitation' = [invitation EXCEPT ![i] = new] /\ invitation \in [Invites -> InvitationRow]
  BY <1>1, <1>2, <1>4 DEF InviteInsert, OrganizationInv, OrganizationTypeOK
<1>6. \A j \in Invites : invitation'[j] = IF j = i THEN new ELSE invitation[j]
  BY <1>5
<1>7. Grows
  BY <1>2, <1>6 DEF Grows, InvitationExists, MemberExists, InviteInsert
<1>8. RowsOK'
  BY <1>5, RowsType DEF RowsOK, TenantsTypeOK, InviteInsert
<1> DEFINE q == [op |-> IF old.known THEN "member" ELSE "user", member |-> old.member,
                 role |-> old.role, todo |-> old.todo, inv |-> i]
<1>9. q \in Slots /\ q.op \in {"user", "member"} /\ TGoto(r, q)
  BY <1>1, <1>2 DEF Slots, Invited, Inviting, InviteInsert
<1>10. Fits(q)'
  <2>1. old.known => user[old.member[2]] # "none"
    BY <1>1 DEF OrganizationInv, Fits, InviteInsert
  <2>2. q.op = "member" => user'[q.member[2]] # "none"
    BY <1>1, <2>1 DEF InviteInsert, Inviting
  <2>3. InvitationExists(q.inv)' /\ invitation'[q.inv].member = q.member
    BY <1>4, <1>6 DEF InvitationExists
  <2> QED BY <1>9, <2>2, <2>3 DEF Fits, ScopingOps
<1>11. \A n \in Members : ScopesFit(n)'
  BY <1>7, <1>9, ScopesApart DEF InviteInsert, ScopingOps
<1>12. AcceptedIsMember'
  BY <1>4, <1>6 DEF OrganizationInv, AcceptedIsMember, MemberExists, InviteInsert
<1>13. MemberWasInvited'
  BY <1>7 DEF OrganizationInv, MemberWasInvited, MemberExists, InviteInsert, Grows
<1> QED BY <1>7, <1>8, <1>9, <1>10, <1>11, <1>12, <1>13, SlotGotoPreserves

LEMMA InviteUserPreserves ==
    ASSUME OrganizationInv, NEW r \in TenReqs, InviteUser(r)
    PROVE  OrganizationInv'
<1>1. PICK old \in Invited : old = treq[r] /\ old.op = "user"
  BY SlotType, SlotFields DEF OrganizationInv, InviteUser
<1>2. PICK e \in Emails : e = old.member[2]
  BY <1>1 DEF Invited, Members
<1>3. /\ user' = [user EXCEPT ![e] = "placeholder"] /\ user[e] = "none"
      /\ user \in [Emails -> {"none", "placeholder", "password"}]
  BY <1>1, <1>2 DEF InviteUser, OrganizationInv, OrganizationTypeOK
<1>4. Grows
  BY <1>3 DEF Grows, InvitationExists, MemberExists, InviteUser
<1>5. RowsOK'
  BY <1>3, RowsType DEF RowsOK, TenantsTypeOK, InviteUser
<1> DEFINE q == [old EXCEPT !.op = "member"]
<1>6. /\ q \in Slots /\ q.op = "member" /\ q.inv = old.inv /\ q.member = old.member
      /\ TGoto(r, q)
  BY <1>1 DEF Slots, Invited, InviteUser
<1>7. Fits(q)'
  <2>1. InvitationExists(old.inv) /\ invitation[old.inv].member = old.member
    BY <1>1 DEF OrganizationInv, Fits
  <2>2. user'[old.member[2]] # "none"
    BY <1>2, <1>3
  <2>3. InvitationExists(old.inv)' /\ invitation'[old.inv].member = old.member
    BY <2>1 DEF InvitationExists, InviteUser
  <2> HIDE DEF q
  <2> QED BY <1>6, <2>2, <2>3 DEF Fits, ScopingOps
<1>8. \A n \in Members : ScopesFit(n)'
  BY <1>1, <1>4, <1>6, ScopesApart DEF InviteUser, ScopingOps
<1>9. AcceptedIsMember'
  <2> SUFFICES ASSUME NEW j \in Invites
               PROVE  /\ invitation[j].linked => MemberExists(invitation[j].member)
                      /\ invitation[j].status = "accepted" =>
                            invitation[j].linked /\ user'[invitation[j].member[2]] = "password"
    BY DEF AcceptedIsMember, MemberExists, InviteUser
  <2>1. invitation[j].member[2] \in Emails
    BY DEF OrganizationInv, OrganizationTypeOK, InvitationRow, Members
  <2> QED BY <1>3, <2>1 DEF OrganizationInv, AcceptedIsMember
<1>10. MemberWasInvited'
  <2> SUFFICES ASSUME NEW n \in Members, MemberExists(n)
               PROVE  /\ \E j \in Invites : InvitationExists(j) /\ invitation[j].member = n
                      /\ user'[n[2]] # "none"
    BY DEF MemberWasInvited, MemberExists, InvitationExists, InviteUser
  <2>1. n[2] \in Emails
    BY DEF Members
  <2> QED BY <1>4, <2>1 DEF OrganizationInv, MemberWasInvited, Grows
<1> HIDE DEF q
<1> QED BY <1>4, <1>5, <1>6, <1>7, <1>8, <1>9, <1>10, SlotGotoPreserves

LEMMA InviteMemberPreserves ==
    ASSUME OrganizationInv, NEW r \in TenReqs, InviteMember(r)
    PROVE  OrganizationInv'
<1>1. PICK old \in Invited : old = treq[r] /\ old.op = "member"
  BY SlotType, SlotFields DEF OrganizationInv, InviteMember
<1>2. PICK m \in Members : m = old.member /\ m[2] \in Emails /\ ~MemberExists(m)
  BY <1>1 DEF Invited, Members, InviteMember
<1> DEFINE membership == [status |-> "invited", role |-> old.role]
<1>3. membership \in MemberRow /\ membership.status = "invited"
  BY <1>1 DEF MemberRow, MembershipStatus, Invited
<1>4. PICK card \in MemberRow : card = membership /\ card.status = "invited"
  BY <1>3
<1>5. member' = [member EXCEPT ![m] = card] /\ member \in [Members -> MemberRow]
  BY <1>1, <1>2, <1>4 DEF InviteMember, OrganizationInv, OrganizationTypeOK, TenantsTypeOK
<1>6. \A n \in Members : member'[n] = IF n = m THEN card ELSE member[n]
  BY <1>5
<1>7. Grows
  BY <1>2, <1>6 DEF Grows, InvitationExists, MemberExists, InviteMember
<1>8. RowsOK'
  <2>1. asked' \in [Members -> SUBSET Branches] /\ mixed' \subseteq Members
    BY <1>1, <1>2 DEF InviteMember, BeginScoping, OrganizationInv, OrganizationTypeOK, Invited
  <2>2. UNCHANGED <<tenant, onboarding, user, invitation, branch, scopes>>
    BY DEF InviteMember
  <2>3. member' \in [Members -> MemberRow]
    BY <1>5
  <2> QED BY <2>1, <2>2, <2>3, RowsType DEF RowsOK, TenantsTypeOK
<1> DEFINE q == [old EXCEPT !.op = "scope"]
<1>9. /\ q \in Slots /\ q.op = "scope" /\ q.inv = old.inv /\ q.member = m
      /\ q.todo = old.todo /\ TGoto(r, q)
  BY <1>1, <1>2 DEF Slots, Invited, InviteMember
<1> HIDE DEF q
<1>10. MemberExists(m)'
  BY <1>4, <1>6 DEF MemberExists
<1>11. InvitationExists(old.inv) /\ invitation[old.inv].member = m /\ user[m[2]] # "none"
  BY <1>1, <1>2 DEF OrganizationInv, Fits
<1>12. Fits(q)'
  <2>1. InvitationExists(old.inv)' /\ invitation'[old.inv].member = m
    BY <1>11 DEF InvitationExists, InviteMember
  <2> QED BY <1>9, <1>10, <2>1 DEF Fits, ScopingOps, MemberExists
<1>13. \A n \in Members : ScopesFit(n)'
  <2>1. BeginScoping(r, q.member, q.todo) /\ UNCHANGED scopes
    BY <1>1, <1>2, <1>9 DEF InviteMember
  <2>2. scopes[q.member] = {}
    BY <1>2, <1>9 DEF OrganizationInv, ScopesFit
  <2>3. treq[r].op \notin ScopingOps /\ q.op \in ScopingOps /\ MemberExists(q.member)'
    BY <1>1, <1>9, <1>10 DEF ScopingOps, MemberExists
  <2> QED BY <1>7, <1>9, <2>1, <2>2, <2>3, ScopesBegin
<1>14. AcceptedIsMember'
  <2> SUFFICES ASSUME NEW j \in Invites
               PROVE  /\ invitation[j].linked => MemberExists(invitation[j].member)'
                      /\ invitation[j].status = "accepted" =>
                            invitation[j].linked /\ user[invitation[j].member[2]] = "password"
    BY DEF AcceptedIsMember, MemberExists, InviteMember
  <2>1. invitation[j].member \in Members
    BY DEF OrganizationInv, OrganizationTypeOK, InvitationRow
  <2> QED BY <1>7, <2>1 DEF OrganizationInv, AcceptedIsMember, Grows, MemberExists, InviteMember
<1>15. MemberWasInvited'
  <2> SUFFICES ASSUME NEW n \in Members, MemberExists(n)'
               PROVE  /\ \E j \in Invites : InvitationExists(j) /\ invitation[j].member = n
                      /\ user[n[2]] # "none"
    BY DEF MemberWasInvited, MemberExists, InvitationExists, InviteMember
  <2>1. CASE n = m
    BY <1>1, <1>11, <2>1 DEF Invited
  <2>2. CASE n # m
    BY <1>6, <2>2 DEF OrganizationInv, MemberWasInvited, MemberExists
  <2> QED BY <2>1, <2>2
<1> QED BY <1>7, <1>8, <1>9, <1>12, <1>13, <1>14, <1>15, SlotGotoPreserves

LEMMA InviteLinkPreserves ==
    ASSUME OrganizationInv, NEW r \in TenReqs, InviteLink(r)
    PROVE  OrganizationInv'
<1>1. PICK old \in Invited : old = treq[r] /\ old.op = "scope" /\ old.todo = {}
  BY SlotType, SlotFields DEF OrganizationInv, InviteLink
<1>2. PICK i \in Invites : i = old.inv
  BY <1>1 DEF Invited
<1>3. /\ InvitationExists(i) /\ invitation[i].member = old.member
      /\ MemberExists(old.member)
  BY <1>1, <1>2 DEF OrganizationInv, Fits, ScopingOps
<1>4. PICK was \in InvitationRow : was = invitation[i]
  BY DEF OrganizationInv, OrganizationTypeOK
<1> DEFINE entry == [was EXCEPT !.linked = TRUE]
<1>5. entry \in InvitationRow /\ entry.status = was.status /\ entry.linked /\ entry.member = was.member
  BY DEF InvitationRow
<1>6. PICK new \in InvitationRow :
          new = entry /\ new.status = was.status /\ new.linked /\ new.member = was.member
  BY <1>5
<1>7. invitation' = [invitation EXCEPT ![i] = new] /\ invitation \in [Invites -> InvitationRow]
  BY <1>1, <1>2, <1>4, <1>6 DEF InviteLink, OrganizationInv, OrganizationTypeOK
<1>8. \A j \in Invites : invitation'[j] = IF j = i THEN new ELSE invitation[j]
  BY <1>7
<1>9. Grows
  BY <1>4, <1>6, <1>8 DEF Grows, InvitationExists, MemberExists, InviteLink
<1>10. RowsOK'
  <2>1. UNCHANGED <<tenant, member, onboarding, user, branch, scopes, asked, mixed>>
    BY DEF InviteLink
  <2>2. invitation' \in [Invites -> InvitationRow]
    BY <1>7
  <2> QED BY <2>1, <2>2, RowsType DEF RowsOK, TenantsTypeOK
<1>11. TIdle \in Slots /\ Fits(TIdle)' /\ TGoto(r, TIdle)
  BY DEF Slots, Fits, ScopingOps, TIdle, InviteLink
<1>12. \A n \in Members : ScopesFit(n)'
  BY <1>1, <1>9, <1>11, ScopesEnd DEF InviteLink, ScopingOps
<1>13. AcceptedIsMember'
  <2> SUFFICES ASSUME NEW j \in Invites
               PROVE  /\ invitation'[j].linked => MemberExists(invitation[j].member)
                      /\ invitation'[j].status = "accepted" =>
                            invitation'[j].linked /\ user[invitation[j].member[2]] = "password"
    <3>1. \A j \in Invites : invitation'[j].member = invitation[j].member
      BY <1>4, <1>6, <1>8
    <3> QED BY <3>1 DEF AcceptedIsMember, MemberExists, InviteLink
  <2>1. CASE j = i
    <3>1. was.status = "accepted" => user[was.member[2]] = "password"
      BY <1>4 DEF OrganizationInv, AcceptedIsMember
    <3>2. MemberExists(was.member)
      BY <1>3, <1>4
    <3> QED BY <1>4, <1>6, <1>8, <2>1, <3>1, <3>2
  <2>2. CASE j # i
    BY <1>8, <2>2 DEF OrganizationInv, AcceptedIsMember
  <2> QED BY <2>1, <2>2
<1>14. MemberWasInvited'
  BY <1>9 DEF OrganizationInv, MemberWasInvited, MemberExists, InviteLink, Grows
<1> QED BY <1>9, <1>10, <1>11, <1>12, <1>13, <1>14, SlotGotoPreserves

LEMMA ModifyWritePreserves ==
    ASSUME OrganizationInv, NEW r \in TenReqs, ModifyWrite(r)
    PROVE  OrganizationInv'
<1>1. PICK old \in Modifying : old = treq[r] /\ old.op = "modify"
  BY SlotType, SlotFields DEF OrganizationInv, ModifyWrite
<1>2. PICK m \in Members : m = old.member /\ MemberExists(m)
  BY <1>1 DEF Modifying, OrganizationInv, Fits
<1>3. PICK was \in MemberRow : was = member[m] /\ was.status # "none"
  BY <1>2 DEF OrganizationInv, OrganizationTypeOK, TenantsTypeOK, MemberExists
<1>4. Updated(was, old) \in MemberRow /\ Updated(was, old).status # "none"
  BY <1>1, <1>3 DEF Updated, MemberRow, Modifying, MembershipStatus
<1>5. PICK card \in MemberRow : card = Updated(was, old) /\ card.status # "none"
  BY <1>4
<1>6. member' = [member EXCEPT ![m] = card] /\ member \in [Members -> MemberRow]
  BY <1>1, <1>2, <1>3, <1>5 DEF ModifyWrite, OrganizationInv, OrganizationTypeOK, TenantsTypeOK
<1>7. \A n \in Members : member'[n] = IF n = m THEN card ELSE member[n]
  BY <1>6
<1>8. \A n \in Members : MemberExists(n)' <=> MemberExists(n)
  BY <1>2, <1>5, <1>7 DEF MemberExists
<1>9. Grows
  BY <1>8 DEF Grows, InvitationExists, ModifyWrite
<1>10. AcceptedIsMember'
  <2> SUFFICES ASSUME NEW j \in Invites
               PROVE  /\ invitation[j].linked => MemberExists(invitation[j].member)'
                      /\ invitation[j].status = "accepted" =>
                            invitation[j].linked /\ user[invitation[j].member[2]] = "password"
    BY DEF AcceptedIsMember, MemberExists, ModifyWrite
  <2>1. invitation[j].member \in Members
    BY DEF OrganizationInv, OrganizationTypeOK, InvitationRow
  <2> QED BY <1>9, <2>1 DEF OrganizationInv, AcceptedIsMember, Grows, MemberExists, ModifyWrite
<1>11. MemberWasInvited'
  BY <1>8 DEF OrganizationInv, MemberWasInvited, InvitationExists, ModifyWrite
<1>12. CASE old.scope
  <2> DEFINE q == [op |-> "unscope", member |-> m, todo |-> old.todo]
  <2>1. /\ q \in Slots /\ q.op = "unscope" /\ q.member = m /\ q.todo = old.todo
        /\ TGoto(r, q) /\ BeginScoping(r, m, old.todo)
    BY <1>1, <1>2, <1>12 DEF Slots, Rescoping, Modifying, ModifyWrite
  <2> HIDE DEF q
  <2>2. asked' \in [Members -> SUBSET Branches] /\ mixed' \subseteq Members
    BY <1>1, <2>1 DEF BeginScoping, OrganizationInv, OrganizationTypeOK, Modifying
  <2>3. RowsOK'
    <3>1. UNCHANGED <<tenant, onboarding, user, invitation, branch, scopes>>
      BY DEF ModifyWrite
    <3>2. member' \in [Members -> MemberRow]
      BY <1>6
    <3> QED BY <2>2, <3>1, <3>2, RowsType DEF RowsOK, TenantsTypeOK
  <2>4. MemberExists(q.member)' /\ Fits(q)'
    BY <1>2, <1>8, <2>1 DEF Fits, ScopingOps, MemberExists
  <2>5. \A n \in Members : ScopesFit(n)'
    <3>1. treq[r].op \notin ScopingOps /\ q.op \in ScopingOps
          /\ BeginScoping(r, q.member, q.todo) /\ UNCHANGED scopes
      BY <1>1, <2>1 DEF ScopingOps, ModifyWrite
    <3> QED BY <1>9, <2>1, <2>4, <3>1, ScopesBegin
  <2> QED BY <1>9, <1>10, <1>11, <2>1, <2>3, <2>4, <2>5, SlotGotoPreserves
<1>13. CASE ~old.scope
  <2>1. TGoto(r, TIdle) /\ UNCHANGED <<asked, mixed, scopes>>
    BY <1>1, <1>13 DEF ModifyWrite
  <2>2. TIdle \in Slots /\ Fits(TIdle)' /\ TIdle.op \notin ScopingOps
    BY DEF Slots, Fits, ScopingOps, TIdle
  <2>3. RowsOK'
    <3>1. UNCHANGED <<tenant, onboarding, user, invitation, branch>>
      BY DEF ModifyWrite
    <3>2. member' \in [Members -> MemberRow]
      BY <1>6
    <3> QED BY <2>1, <3>1, <3>2, RowsType DEF RowsOK, TenantsTypeOK
  <2>4. \A n \in Members : ScopesFit(n)'
    BY <1>1, <1>9, <2>1, <2>2, ScopesApart DEF ScopingOps
  <2> QED BY <1>9, <1>10, <1>11, <2>1, <2>2, <2>3, <2>4, SlotGotoPreserves
<1> QED BY <1>12, <1>13

-----------------------------------------------------------------------------
LEMMA UnscopePreserves ==
    ASSUME OrganizationInv, NEW r \in TenReqs, Unscope(r)
    PROVE  OrganizationInv'
<1>1. PICK old \in Rescoping : old = treq[r] /\ old.op = "unscope"
  BY SlotType, SlotFields DEF OrganizationInv, Unscope
<1> DEFINE q == [old EXCEPT !.op = "rescope"]
<1>2. /\ q \in Slots /\ q.op = "rescope" /\ q.member = old.member /\ q.todo = old.todo
      /\ TGoto(r, q)
  BY <1>1 DEF Slots, Rescoping, Unscope
<1> HIDE DEF q
<1>3. Grows
  BY DEF Grows, InvitationExists, MemberExists, Unscope
<1>4. scopes' = [scopes EXCEPT ![q.member] = {}]
  BY <1>1, <1>2 DEF Unscope
<1>5. RowsOK'
  BY <1>4, RowsType DEF RowsOK, TenantsTypeOK, Unscope
<1>6. MemberExists(old.member)
  BY <1>1 DEF OrganizationInv, Fits, ScopingOps
<1>7. Fits(q)'
  BY <1>2, <1>6 DEF Fits, ScopingOps, MemberExists, Unscope
<1>8. \A n \in Members : ScopesFit(n)'
  <2>1. {} \in SUBSET Branches
    OBVIOUS
  <2>2. treq[r].op \in ScopingOps /\ q.op \in ScopingOps
    BY <1>1, <1>2 DEF ScopingOps
  <2>3. UNCHANGED <<member, asked, mixed>>
    BY DEF Unscope
  <2> QED BY <1>1, <1>2, <1>3, <1>4, <2>1, <2>2, <2>3, ScopesMove
<1> QED BY <1>2, <1>3, <1>5, <1>7, <1>8, StillInvited, SlotGotoPreserves DEF Unscope

LEMMA AddScopePreserves ==
    ASSUME OrganizationInv, NEW r \in TenReqs, NEW b \in Branches, AddScope(r, b)
    PROVE  OrganizationInv'
<1>1. PICK old \in Invited \cup Rescoping : old = treq[r] /\ old.op \in {"scope", "rescope"}
  BY SlotType, SlotFields DEF OrganizationInv, AddScope
<1> DEFINE q == [old EXCEPT !.todo = old.todo \ {b}]
<1>2. /\ q \in Slots /\ q.op = old.op /\ q.member = old.member /\ q.todo = old.todo \ {b}
      /\ q.op = "scope" => q.inv = old.inv
      /\ TGoto(r, q)
  <2>1. CASE old \in Invited
    BY <1>1, <2>1 DEF Slots, Invited, AddScope
  <2>2. CASE old \in Rescoping
    BY <1>1, <2>2 DEF Slots, Rescoping, AddScope
  <2> QED BY <1>1, <2>1, <2>2
<1> HIDE DEF q
<1>3. PICK m \in Members : m = old.member
  BY <1>1 DEF Invited, Rescoping
<1>4. Grows
  BY DEF Grows, InvitationExists, MemberExists, AddScope
<1>5. scopes \in [Members -> SUBSET Branches]
  BY DEF OrganizationInv, OrganizationTypeOK
<1>6. PICK now \in SUBSET Branches : now = scopes[m] \cup {b}
  BY <1>5
<1>7. scopes' = [scopes EXCEPT ![m] = now]
  BY <1>1, <1>3, <1>5, <1>6 DEF AddScope
<1>8. RowsOK'
  BY <1>5, <1>7, RowsType DEF RowsOK, TenantsTypeOK, AddScope
<1>9. Fits(old)
  BY <1>1 DEF OrganizationInv
<1>10. Fits(q)'
  BY <1>1, <1>2, <1>9 DEF Fits, ScopingOps, MemberExists, InvitationExists, AddScope
<1>11. \A n \in Members : ScopesFit(n)'
  <2>1. treq[r].op \in ScopingOps /\ q.op \in ScopingOps /\ q.op # "unscope"
    BY <1>1, <1>2 DEF ScopingOps
  <2>2. UNCHANGED <<member, asked, mixed>> /\ b \in treq[r].todo
    BY DEF AddScope
  <2>3. q.todo = treq[r].todo \ {b} /\ now = scopes[q.member] \cup {b}
        /\ treq[r].op # "unscope" /\ q.member = treq[r].member
        /\ scopes' = [scopes EXCEPT ![q.member] = now]
    BY <1>1, <1>2, <1>3, <1>6, <1>7
  <2> QED BY <1>2, <1>4, <2>1, <2>2, <2>3, ScopesMove
<1> QED BY <1>2, <1>4, <1>8, <1>10, <1>11, StillInvited, SlotGotoPreserves DEF AddScope

\* A request ends: done, refused by the database, or dead.
LEMMA EndPreserves ==
    ASSUME OrganizationInv, NEW r \in TenReqs, TGoto(r, TIdle),
           UNCHANGED <<tenant, member, onboarding, user, invitation, branch, scopes, asked>>,
           \/ treq[r].op \notin ScopingOps /\ mixed' = mixed
           \/ treq[r].op \in ScopingOps /\ mixed' = mixed \cup {treq[r].member}
           \/ treq[r].op = "rescope" /\ treq[r].todo = {} /\ mixed' = mixed
    PROVE  OrganizationInv'
<1>1. Grows
  BY DEF Grows, InvitationExists, MemberExists
<1>2. treq[r].op \in ScopingOps => treq[r].member \in Members
  BY SlotType, SlotFields DEF OrganizationInv, ScopingOps, Invited, Rescoping
<1>3. RowsOK'
  BY <1>2, RowsType DEF RowsOK, TenantsTypeOK
<1>4. TIdle \in Slots /\ Fits(TIdle)' /\ TIdle.op \notin ScopingOps
  BY DEF Slots, Fits, ScopingOps, TIdle
<1>5. \A n \in Members : ScopesFit(n)'
  <2>1. CASE treq[r].op \notin ScopingOps
    <3>1. UNCHANGED <<scopes, asked, mixed>>
      BY <2>1 DEF ScopingOps
    <3> QED BY <1>1, <1>4, <2>1, <3>1, ScopesApart
  <2>2. CASE treq[r].op \in ScopingOps
    BY <1>1, <2>2, ScopesEnd
  <2> QED BY <2>1, <2>2
<1> QED BY <1>1, <1>3, <1>4, <1>5, StillInvited, SlotGotoPreserves

LEMMA AbandonPreserves ==
    ASSUME OrganizationInv, NEW r \in TenReqs, Abandon(r)
    PROVE  OrganizationInv'
  BY EndPreserves DEF Abandon, ScopingOps

LEMMA ModifyEndPreserves ==
    ASSUME OrganizationInv, NEW r \in TenReqs, ModifyEnd(r)
    PROVE  OrganizationInv'
  BY EndPreserves DEF ModifyEnd, orgVars

-----------------------------------------------------------------------------
LEMMA InitOrganizationInv == OrganizationInit => OrganizationInv
<1> SUFFICES ASSUME OrganizationInit PROVE OrganizationInv
  OBVIOUS
<1>1. \A r \in TenReqs : treq[r] = TIdle /\ treq[r].op = "idle"
  BY DEF OrganizationInit, TenantsInit, TIdle
<1>2. NoTenant \in TenantRow /\ NoMember \in MemberRow /\ NoMember.status = "none"
  BY DEF NoTenant, TenantRow, NoMember, MemberRow, DEFAULT_ROLE_KEYS
<1>3. OrganizationTypeOK
  BY <1>2, FreshRows DEF OrganizationInit, TenantsInit, OrganizationTypeOK, TenantsTypeOK
<1>4. \A r \in TenReqs : Fits(treq[r])
  BY <1>1 DEF Fits, ScopingOps
<1>5. \A m \in Members : Scoping(m) = {}
  BY <1>1 DEF Scoping
<1>6. \A m \in Members : ScopesFit(m)
  BY <1>5 DEF ScopesFit, OrganizationInit
<1>7. AcceptedIsMember
  BY DEF AcceptedIsMember, OrganizationInit, NoInvitation
<1>8. MemberWasInvited
  BY <1>2 DEF MemberWasInvited, MemberExists, OrganizationInit, TenantsInit
<1> QED BY <1>3, <1>4, <1>6, <1>7, <1>8 DEF OrganizationInv

LEMMA NextOrganizationInv ==
    OrganizationInv /\ [OrganizationNext]_tenancyVars => OrganizationInv'
<1> SUFFICES ASSUME OrganizationInv, [OrganizationNext]_tenancyVars PROVE OrganizationInv'
  OBVIOUS
<1>1. ASSUME NEW r \in TenReqs, Advance(r) PROVE OrganizationInv'
  <2>1. CASE TenantStep(r) /\ UNCHANGED orgVars
    BY <2>1, TenantStepPreserves
  <2>2. CASE Clash(r)
    BY <2>2, AbandonPreserves DEF Clash
  <2> QED BY <1>1, <2>1, <2>2, HandlePreserves, ProvisionCommitPreserves, AcceptCommitPreserves,
             InviteInsertPreserves, InviteUserPreserves, InviteMemberPreserves,
             InviteLinkPreserves, ModifyWritePreserves, UnscopePreserves, ModifyEndPreserves,
             AddScopePreserves DEF Advance
<1>2. ASSUME NEW r \in TenReqs, Die(r) PROVE OrganizationInv'
  BY <1>2, AbandonPreserves DEF Die
<1>3. CASE UNCHANGED tenancyVars
  <2>1. tenant' \in [Tenants -> TenantRow]
    BY <1>3 DEF tenancyVars, OrganizationInv, OrganizationTypeOK, TenantsTypeOK
  <2> QED BY <1>3, <2>1, LifecyclePreserves DEF tenancyVars, orgVars
<1> QED BY <1>1, <1>2, <1>3, CallPreserves DEF OrganizationNext

LEMMA OrganizationInvImplies == OrganizationInv => InvitationsMakeMembers
<1> SUFFICES ASSUME OrganizationInv, NEW m \in Members, m \notin mixed
             PROVE  \/ \E r \in Scoping(m) :
                        \/ treq[r].op = "unscope" /\ treq[r].todo = asked[m]
                        \/ scopes[m] = asked[m] \ treq[r].todo
                    \/ Scoping(m) = {} /\ scopes[m] = asked[m]
  BY DEF OrganizationInv, InvitationsMakeMembers, ScopesAsAsked
<1> QED BY DEF OrganizationInv, ScopesFit

\* OrganizationTypeOK: what a request has read and is about to write are rows.
THEOREM OrganizationTypeCorrect == OrganizationSpec => []OrganizationTypeOK
<1>1. OrganizationInv => OrganizationTypeOK
  BY DEF OrganizationInv
<1> QED BY <1>1, InitOrganizationInv, NextOrganizationInv, PTL DEF OrganizationSpec

\* InvitationsMakeMembers: however inviteEmployee, updateMembership and
\* acceptInvitation overlap, and wherever they stop, memberships agree with
\* the invitations, users and branches they were made from.
THEOREM InvitationsStayTrue == OrganizationSpec => []InvitationsMakeMembers
<1> QED BY OrganizationInvImplies, InitOrganizationInv, NextOrganizationInv, PTL
        DEF OrganizationSpec

-----------------------------------------------------------------------------
(***************************************************************************)
(* The guards: who gets as far as a handler, and when nobody does any more. *)
(***************************************************************************)

AtGuards == {"context", "handle"}

\* The requests of by that the guards look at or have let in.
AtWork(by) == {r \in TenReqs : treq[r].op \in AtGuards /\ treq[r].by = by}

\* What the guards know of a request: customers keep to the portal and staff to
\* the company's routes, and a handler runs for those that may call it.
WentThrough(q) == q.op \in AtGuards =>
    /\ IF q.by[2] = Customer THEN q.role = "customer" /\ q.route \in PortalRoutes
       ELSE q.role \in DEFAULT_ROLE_KEYS /\ q.route \in CompanyRoutes
    /\ q.op = "handle" => Permits(q.route, RolePermissions[q.role])

GuardsHeld == \A r \in TenReqs : WentThrough(treq[r])

\* Of the staff, owners and admins alone reach a handler of organization that
\* writes: inviteEmployee, updateMembership, branches and settings.
OnlyManagersChange == \A r \in TenReqs :
    /\ treq[r].op = "handle"
    /\ treq[r].route \in OrganizationRoutes /\ Mutates(treq[r].route)
    => treq[r].role \in {"owner", "admin"}

\* The safe half of SuspensionTakesHold: a member who is not active, or whose
\* tenant is blocked, begins no request, and in a tenant that is suspended or
\* read-only no request to change something is let in, not even one that
\* CompanyAuthGuard or PortalAuthGuard had passed before.
SuspensionShutsOut ==
    /\ \A m \in Members :
          member[m].status # "active" \/ tenant[m[1]].writeMode = "blocked"
          => AtWork(m)' \subseteq AtWork(m)
    /\ \A t \in Tenants, who \in Emails \cup {Customer} :
          tenant[t].writeMode # "full"
          => \A r \in TenReqs : LetIn(r, t, who)' => LetIn(r, t, who)

\* r goes on to something that is none of the guards' business.
Leaves(r) == /\ \A p \in TenReqs \ {r} : treq'[p] = treq[p]
             /\ treq'[r].op \notin AtGuards

LEMMA GotoLeaves ==
    ASSUME OrganizationTypeOK, NEW r \in TenReqs, NEW q, TGoto(r, q), q.op \notin AtGuards
    PROVE  Leaves(r)
  BY SlotType DEF TGoto, Leaves

LEMMA OthersStay ==
    ASSUME OrganizationTypeOK, NEW r \in TenReqs, NEW q, TGoto(r, q), NEW p \in TenReqs \ {r}
    PROVE  treq'[p] = treq[p]
  BY SlotType DEF TGoto

LEMMA CallAtGuards ==
    ASSUME OrganizationTypeOK, NEW r \in TenReqs, Call(r)
    PROVE  \/ Leaves(r)
           \/ UNCHANGED treq
           \/ \E route \in UsedRoutes :
                 \/ \E m \in Members : CompanyGuard(r, m, route)
                 \/ \E t \in Tenants : PortalGuard(r, t, route)
<1>1. CASE PlatformCall(r)
  <2>1. PICK staff \in PlatformRoleKey, t \in Tenants :
            \/ Activate(staff, t) \/ Suspend(staff, t) \/ SetReadOnly(staff, t)
            \/ \E days \in Days, now \in 0 .. MaxTrial : ExtendTrialRead(r, staff, t, days, now)
    BY <1>1 DEF PlatformCall
  <2>2. CASE Activate(staff, t) \/ Suspend(staff, t) \/ SetReadOnly(staff, t)
    BY <2>2 DEF Activate, Suspend, SetReadOnly, setLifecycle
  <2>3. ASSUME NEW days \in Days, NEW now \in 0 .. MaxTrial,
               ExtendTrialRead(r, staff, t, days, now)
        PROVE  Leaves(r)
    <3> DEFINE q == [op |-> "extend", tenant |-> t,
                     until |-> LaterOf(tenant[t].trialEndsAt, now) + days]
    <3>1. TGoto(r, q)
      BY <2>3 DEF ExtendTrialRead
    <3>2. q.op \notin AtGuards
      BY DEF AtGuards
    <3> HIDE DEF q
    <3> QED BY <3>1, <3>2, GotoLeaves
  <2> QED BY <2>1, <2>2, <2>3
<1>2. ASSUME NEW staff \in PlatformRoleKey, NEW t \in Tenants, NEW e \in Emails,
             ProvisionRead(r, staff, t, e)
      PROVE  Leaves(r)
  <2> DEFINE q == [op |-> "provision", tenant |-> t, owner |-> e]
  <2>1. TGoto(r, q)
    BY <1>2 DEF ProvisionRead
  <2>2. q.op \notin AtGuards
    BY DEF AtGuards
  <2> HIDE DEF q
  <2> QED BY <2>1, <2>2, GotoLeaves
<1>3. ASSUME NEW i \in Invites, AcceptRead(r, i) PROVE Leaves(r)
  <2> DEFINE q == [op |-> "accept", inv |-> i]
  <2>1. TGoto(r, q)
    BY <1>3 DEF AcceptRead
  <2>2. q.op \notin AtGuards
    BY DEF AtGuards
  <2> HIDE DEF q
  <2> QED BY <2>1, <2>2, GotoLeaves
<1> QED BY <1>1, <1>2, <1>3 DEF Call, ClientCall

\* A handler leaves the guards with its first step.
LEMMA HandleLeaves ==
    ASSUME OrganizationTypeOK, NEW r \in TenReqs, Handle(r) \/ Refuse(r)
    PROVE  Leaves(r)
<1>1. TIdle.op \notin AtGuards
  BY DEF TIdle, AtGuards
<1>2. ASSUME NEW e \in Emails, NEW role \in InviteRoles, NEW todo \in ScopeLists,
             InviteRead(r, e, role, todo)
      PROVE  Leaves(r)
  <2> DEFINE q == [op |-> "invite", member |-> <<treq[r].by[1], e>>, role |-> role,
                   todo |-> todo, known |-> user[e] # "none"]
  <2>1. TGoto(r, q)
    BY <1>2 DEF InviteRead
  <2>2. q.op \notin AtGuards
    BY DEF AtGuards
  <2> HIDE DEF q
  <2> QED BY <2>1, <2>2, GotoLeaves
<1>3. ASSUME NEW e, NEW role, NEW status, NEW scope, NEW todo,
             ModifyRead(r, e, role, status, scope, todo)
      PROVE  Leaves(r)
  <2> DEFINE q == [op |-> "modify", member |-> <<treq[r].by[1], e>>, role |-> role,
                   status |-> status, scope |-> scope, todo |-> todo]
  <2>1. TGoto(r, q)
    BY <1>3 DEF ModifyRead
  <2>2. q.op \notin AtGuards
    BY DEF AtGuards
  <2> HIDE DEF q
  <2> QED BY <2>1, <2>2, GotoLeaves
<1>4. CASE TGoto(r, TIdle)
  BY <1>1, <1>4, GotoLeaves
<1>5. createBranch(r) => TGoto(r, TIdle)
  BY DEF createBranch
<1>6. ASSUME NEW b \in Branches, archiveBranch(r, b) \/ \E on \in BOOLEAN : updateBranch(r, b, on)
      PROVE  TGoto(r, TIdle)
  BY <1>6 DEF archiveBranch, updateBranch
<1>7. ASSUME NEW step \in Steps, updateSettings(r, step) PROVE TGoto(r, TIdle)
  BY <1>7 DEF updateSettings
<1>8. Refuse(r) => TGoto(r, TIdle)
  BY DEF Refuse
<1> QED BY <1>2, <1>3, <1>4, <1>5, <1>6, <1>7, <1>8 DEF Handle

\* So does every later step of a request.
LEMMA WriteLeaves ==
    ASSUME OrganizationTypeOK, NEW r \in TenReqs,
           \/ InviteInsert(r) \/ InviteUser(r) \/ InviteMember(r)
           \/ ModifyWrite(r) \/ Unscope(r)
           \/ \E b \in Branches : AddScope(r, b)
    PROVE  Leaves(r)
<1>1. PICK old \in Slots : old = treq[r]
  BY SlotType
<1>2. ASSUME NEW q, TGoto(r, q), q.op \in {"member", "user", "scope", "unscope", "rescope", "idle"}
      PROVE  Leaves(r)
  <2>1. q.op \notin AtGuards
    BY <1>2 DEF AtGuards
  <2> QED BY <1>2, <2>1, GotoLeaves
<1>3. CASE InviteInsert(r)
  <2> DEFINE q == [op |-> IF old.known THEN "member" ELSE "user", member |-> old.member,
                   role |-> old.role, todo |-> old.todo, inv |-> FreshInvite]
  <2>1. TGoto(r, q)
    BY <1>1, <1>3 DEF InviteInsert
  <2>2. q.op \in {"member", "user"}
    OBVIOUS
  <2> HIDE DEF q
  <2> QED BY <1>2, <2>1, <2>2
<1>4. CASE InviteUser(r)
  <2> DEFINE q == [old EXCEPT !.op = "member"]
  <2>1. TGoto(r, q) /\ old.op = "user"
    BY <1>1, <1>4 DEF InviteUser
  <2>2. q.op = "member"
    BY <2>1, SlotFields DEF Invited
  <2> HIDE DEF q
  <2> QED BY <1>2, <2>1, <2>2
<1>5. CASE InviteMember(r)
  <2> DEFINE q == [old EXCEPT !.op = "scope"]
  <2>1. TGoto(r, q) /\ old.op = "member"
    BY <1>1, <1>5 DEF InviteMember
  <2>2. q.op = "scope"
    BY <2>1, SlotFields DEF Invited
  <2> HIDE DEF q
  <2> QED BY <1>2, <2>1, <2>2
<1>6. CASE ModifyWrite(r)
  <2> DEFINE q == [op |-> "unscope", member |-> old.member, todo |-> old.todo]
  <2>1. TGoto(r, q) \/ TGoto(r, TIdle)
    BY <1>1, <1>6 DEF ModifyWrite
  <2>2. q.op = "unscope" /\ TIdle.op = "idle"
    BY DEF TIdle
  <2> HIDE DEF q
  <2> QED BY <1>2, <2>1, <2>2
<1>7. CASE Unscope(r)
  <2> DEFINE q == [old EXCEPT !.op = "rescope"]
  <2>1. TGoto(r, q) /\ old.op = "unscope"
    BY <1>1, <1>7 DEF Unscope
  <2>2. q.op = "rescope"
    BY <2>1, SlotFields DEF Rescoping
  <2> HIDE DEF q
  <2> QED BY <1>2, <2>1, <2>2
<1>8. ASSUME NEW b \in Branches, AddScope(r, b) PROVE Leaves(r)
  <2> DEFINE q == [old EXCEPT !.todo = @ \ {b}]
  <2>1. TGoto(r, q) /\ old.op \in {"scope", "rescope"}
    BY <1>1, <1>8 DEF AddScope
  <2>2. q.op = old.op
    BY <2>1, SlotFields DEF Invited, Rescoping
  <2> HIDE DEF q
  <2> QED BY <1>2, <2>1, <2>2
<1> QED BY <1>3, <1>4, <1>5, <1>6, <1>7, <1>8

\* Only the guards put a request before the guards, or let it in.
LEMMA OnlyGuardsLetIn ==
    ASSUME OrganizationTypeOK, [OrganizationNext]_tenancyVars,
           NEW r \in TenReqs, treq'[r].op \in AtGuards
    PROVE  \/ treq'[r] = treq[r]
           \/ \E route \in UsedRoutes :
                 \/ \E m \in Members : CompanyGuard(r, m, route)
                 \/ \E t \in Tenants : PortalGuard(r, t, route)
           \/ LoadContext(r)
<1>1. CASE UNCHANGED treq
  BY <1>1
<1>2. ASSUME NEW p \in TenReqs, Leaves(p) PROVE treq'[r] = treq[r]
  BY <1>2 DEF Leaves
<1>3. ASSUME NEW p \in TenReqs, NEW q, TGoto(p, q), p # r PROVE treq'[r] = treq[r]
  BY <1>3, OthersStay
<1>4. ASSUME NEW p \in TenReqs, NEW route \in UsedRoutes, NEW m \in Members,
             CompanyGuard(p, m, route)
      PROVE  CompanyGuard(r, m, route) \/ treq'[r] = treq[r]
  BY <1>3, <1>4 DEF CompanyGuard
<1>5. ASSUME NEW p \in TenReqs, NEW route \in UsedRoutes, NEW t \in Tenants,
             PortalGuard(p, t, route)
      PROVE  PortalGuard(r, t, route) \/ treq'[r] = treq[r]
  BY <1>3, <1>5 DEF PortalGuard
<1>6. ASSUME NEW p \in TenReqs, LoadContext(p)
      PROVE  LoadContext(r) \/ treq'[r] = treq[r]
  BY <1>3, <1>6 DEF LoadContext
<1>7. ASSUME NEW p \in TenReqs, TGoto(p, TIdle) PROVE Leaves(p)
  <2>1. TIdle.op \notin AtGuards
    BY DEF TIdle, AtGuards
  <2> QED BY <1>7, <2>1, GotoLeaves
<1>8. ASSUME NEW p \in TenReqs, Advance(p) PROVE Leaves(p) \/ LoadContext(p)
  <2>1. CASE TenantStep(p)
    BY <1>7, <2>1 DEF TenantStep, Serve, ExtendTrialCommit
  <2>2. CASE ProvisionCommit(p) \/ AcceptCommit(p) \/ InviteLink(p) \/ ModifyEnd(p) \/ Clash(p)
    BY <1>7, <2>2 DEF ProvisionCommit, AcceptCommit, InviteLink, ModifyEnd, Clash, Abandon
  <2> QED BY <1>8, <2>1, <2>2, HandleLeaves, WriteLeaves DEF Advance
<1>9. ASSUME NEW p \in TenReqs, Die(p) PROVE Leaves(p)
  BY <1>7, <1>9 DEF Die, Abandon
<1>10. ASSUME NEW p \in TenReqs, Call(p) \/ Advance(p) \/ Die(p)
       PROVE  \/ treq'[r] = treq[r]
              \/ \E route \in UsedRoutes :
                    \/ \E m \in Members : CompanyGuard(r, m, route)
                    \/ \E t \in Tenants : PortalGuard(r, t, route)
              \/ LoadContext(r)
  <2>1. CASE Call(p)
    BY <1>1, <1>2, <1>4, <1>5, <2>1, CallAtGuards
  <2>2. CASE Advance(p)
    BY <1>2, <1>6, <1>8, <2>2
  <2>3. CASE Die(p)
    BY <1>2, <1>9, <2>3
  <2> QED BY <1>10, <2>1, <2>2, <2>3
<1> QED BY <1>1, <1>10 DEF OrganizationNext, tenancyVars

LEMMA InitGuardsHeld == OrganizationInit => GuardsHeld
  BY DEF OrganizationInit, TenantsInit, GuardsHeld, WentThrough, AtGuards, TIdle

LEMMA NextGuardsHeld ==
    ASSUME OrganizationTypeOK, GuardsHeld, [OrganizationNext]_tenancyVars
    PROVE  GuardsHeld'
<1> SUFFICES ASSUME NEW r \in TenReqs, treq'[r].op \in AtGuards
             PROVE  WentThrough(treq[r])'
  BY DEF GuardsHeld, WentThrough
<1>1. CASE treq'[r] = treq[r]
  BY <1>1 DEF GuardsHeld, WentThrough
<1>2. ASSUME NEW q, TGoto(r, q) PROVE treq'[r] = q
  BY <1>2, SlotType DEF TGoto
<1>3. ASSUME NEW route \in UsedRoutes, NEW m \in Members, CompanyGuard(r, m, route)
      PROVE  WentThrough(treq[r])'
  <2> DEFINE q == [op |-> "context", by |-> m, role |-> member[m].role, route |-> route]
  <2>1. treq'[r] = q
    BY <1>2, <1>3 DEF CompanyGuard
  <2>2. route \in CompanyRoutes /\ m[2] # Customer /\ member[m].role \in DEFAULT_ROLE_KEYS
    BY <1>3, TenantsAssumption
       DEF CompanyGuard, Members, OrganizationTypeOK, TenantsTypeOK, MemberRow
  <2>3. WentThrough(q)
    BY <2>2 DEF WentThrough
  <2> HIDE DEF q
  <2> QED BY <2>1, <2>3 DEF WentThrough
<1>4. ASSUME NEW route \in UsedRoutes, NEW t \in Tenants, PortalGuard(r, t, route)
      PROVE  WentThrough(treq[r])'
  <2> DEFINE q == [op |-> "context", by |-> <<t, Customer>>, role |-> "customer",
                   route |-> route]
  <2>1. treq'[r] = q
    BY <1>2, <1>4 DEF PortalGuard
  <2>2. WentThrough(q)
    BY <1>4 DEF WentThrough, PortalGuard
  <2> HIDE DEF q
  <2> QED BY <2>1, <2>2 DEF WentThrough
<1>5. CASE LoadContext(r)
  <2>1. PICK old \in Guarded : old = treq[r] /\ old.op = "context"
    BY <1>5, SlotType, SlotFields DEF LoadContext
  <2> DEFINE q == [old EXCEPT !.op = "handle"]
  <2>2. \/ treq'[r] = TIdle
        \/ treq'[r] = q /\ Permits(old.route, RolePermissions[old.role])
    BY <1>2, <1>5, <2>1 DEF LoadContext
  <2>3. q.op = "handle" /\ q.by = old.by /\ q.role = old.role /\ q.route = old.route
    BY <2>1 DEF Guarded
  <2>4. WentThrough(old)
    BY <2>1 DEF GuardsHeld
  <2> HIDE DEF q
  <2>5. treq'[r] = q /\ Permits(old.route, RolePermissions[old.role])
    BY <2>2 DEF TIdle, AtGuards
  <2>6. WentThrough(q)
    BY <2>1, <2>3, <2>4, <2>5 DEF WentThrough, AtGuards
  <2> QED BY <2>5, <2>6 DEF WentThrough
<1> QED BY <1>1, <1>3, <1>4, <1>5, OnlyGuardsLetIn

\* ROLE_PERMISSION_MATRIX gives what organization's writing routes ask for to
\* owners and admins only, and customers have no company role.
LEMMA ManagersOnly ==
    ASSUME NEW role \in DEFAULT_ROLE_KEYS, NEW route \in OrganizationRoutes,
           Mutates(route), Permits(route, PermissionsOf(role))
    PROVE  role \in {"owner", "admin"}
<1> DEFINE keys == {"organization.branches.manage", "organization.employees.manage",
                    "settings.company.manage"}
<1>1. route[3] \in keys
  BY DEF OrganizationRoutes, Routes, Mutates, MUTATING
<1>2. <<role, route[3]>> \in ROLE_PERMISSION_MATRIX
  BY <1>1 DEF Permits, PermissionsOf, Open, ROLE_PERMISSION_MATRIX, Granted,
     OrganizationGrants, CrmGrants, SupplierGrants, QuoteGrants, OperationsGrants,
     DocumentGrants, FinanceGrants, ReportGrants, SettingsGrants, SupportGrants
<1> QED BY <1>1, <1>2 DEF ROLE_PERMISSION_MATRIX, Granted,
     OrganizationGrants, CrmGrants, SupplierGrants, QuoteGrants, OperationsGrants,
     DocumentGrants, FinanceGrants, ReportGrants, SettingsGrants, SupportGrants,
     Everyone, Sellers

LEMMA GuardsHeldManagers == GuardsHeld /\ OrganizationTypeOK => OnlyManagersChange
<1> SUFFICES ASSUME GuardsHeld, NEW r \in TenReqs, treq[r].op = "handle",
                    treq[r].route \in OrganizationRoutes, Mutates(treq[r].route)
             PROVE  treq[r].role \in {"owner", "admin"}
  BY DEF OnlyManagersChange
<1>1. treq[r].op \in AtGuards /\ WentThrough(treq[r])
  BY DEF GuardsHeld, AtGuards
<1>2. treq[r].route \notin PortalRoutes
  BY DEF OrganizationRoutes, PortalRoutes, Routes
<1>3. treq[r].role \in DEFAULT_ROLE_KEYS
      /\ Permits(treq[r].route, RolePermissions[treq[r].role])
  BY <1>1, <1>2 DEF WentThrough
<1>4. RolePermissions[treq[r].role] = PermissionsOf(treq[r].role)
  BY <1>3 DEF RolePermissions
<1> QED BY <1>3, <1>4, ManagersOnly

\* CompanyAuthGuard, PortalAuthGuard and PermissionGuard, in the order in which
\* they read: whoever is in a handler has gone through them as who it is.
THEOREM GuardsStayHeld == OrganizationSpec => []GuardsHeld
<1>1. OrganizationTypeOK /\ GuardsHeld /\ [OrganizationNext]_tenancyVars => GuardsHeld'
  BY NextGuardsHeld
<1> QED BY <1>1, InitGuardsHeld, OrganizationTypeCorrect, PTL DEF OrganizationSpec

\* inviteEmployee, updateMembership, branches and settings are reached by owners
\* and admins only: the routes' permissions against the seeded role matrix.
THEOREM OnlyManagersEverChange == OrganizationSpec => []OnlyManagersChange
<1> QED BY GuardsHeldManagers, GuardsStayHeld, OrganizationTypeCorrect, PTL

\* A suspended member or tenant begins nothing new, and while a tenant cannot
\* be written to, TenantWriteModeGuard lets no change in, whatever the guards
\* had read of the request before.
THEOREM SuspensionShutsOutAlways == OrganizationSpec => [][SuspensionShutsOut]_tenancyVars
<1>1. ASSUME OrganizationTypeOK, [OrganizationNext]_tenancyVars, NEW m \in Members,
             member[m].status # "active" \/ tenant[m[1]].writeMode = "blocked"
      PROVE  AtWork(m)' \subseteq AtWork(m)
  <2> SUFFICES ASSUME NEW r \in TenReqs, treq'[r].op \in AtGuards, treq'[r].by = m
               PROVE  treq[r].op \in AtGuards /\ treq[r].by = m
    BY DEF AtWork
  <2>1. CASE treq'[r] = treq[r]
    BY <2>1
  <2>2. ASSUME NEW q, TGoto(r, q) PROVE treq'[r] = q
    BY <2>2, <1>1, SlotType DEF TGoto
  <2>3. ASSUME NEW route \in UsedRoutes, NEW n \in Members, CompanyGuard(r, n, route)
        PROVE  FALSE
    <3>1. treq'[r] = [op |-> "context", by |-> n, role |-> member[n].role, route |-> route]
      BY <2>2, <2>3 DEF CompanyGuard
    <3>2. n = m
      BY <3>1
    <3> QED BY <1>1, <2>3, <3>2 DEF CompanyGuard
  <2>4. ASSUME NEW route \in UsedRoutes, NEW t \in Tenants, PortalGuard(r, t, route)
        PROVE  FALSE
    <3>1. treq'[r] = [op |-> "context", by |-> <<t, Customer>>, role |-> "customer",
                      route |-> route]
      BY <2>2, <2>4 DEF PortalGuard
    <3>2. m = <<t, Customer>>
      BY <3>1
    <3> QED BY <3>2, TenantsAssumption DEF Members
  <2>5. CASE LoadContext(r)
    <3>1. PICK old \in Guarded : old = treq[r] /\ old.op = "context"
      BY <1>1, <2>5, SlotType, SlotFields DEF LoadContext
    <3> DEFINE q == [old EXCEPT !.op = "handle"]
    <3>2. treq'[r] \in {q, TIdle}
      BY <2>2, <2>5, <3>1 DEF LoadContext
    <3>3. q.by = old.by
      BY <3>1 DEF Guarded
    <3> HIDE DEF q
    <3>4. treq'[r] = q
      BY <3>2 DEF TIdle, AtGuards
    <3> QED BY <3>1, <3>3, <3>4 DEF AtGuards
  <2> QED BY <1>1, <2>1, <2>3, <2>4, <2>5, OnlyGuardsLetIn
<1>2. ASSUME OrganizationTypeOK, [OrganizationNext]_tenancyVars,
             NEW t \in Tenants, NEW who \in Emails \cup {Customer},
             tenant[t].writeMode # "full", NEW r \in TenReqs, LetIn(r, t, who)'
      PROVE  LetIn(r, t, who)
  <2>1. /\ treq'[r].op = "handle" /\ treq'[r].op \in AtGuards
        /\ Mutates(treq'[r].route) /\ treq'[r].by = <<t, who>>
    BY <1>2 DEF LetIn, AtGuards
  <2>2. CASE treq'[r] = treq[r]
    BY <2>1, <2>2 DEF LetIn
  <2>3. ASSUME NEW q, TGoto(r, q) PROVE treq'[r] = q
    BY <2>3, <1>2, SlotType DEF TGoto
  <2>4. ASSUME NEW route \in UsedRoutes, NEW m \in Members, CompanyGuard(r, m, route)
        PROVE  FALSE
    BY <2>1, <2>3, <2>4 DEF CompanyGuard
  <2>5. ASSUME NEW route \in UsedRoutes, NEW u \in Tenants, PortalGuard(r, u, route)
        PROVE  FALSE
    BY <2>1, <2>3, <2>5 DEF PortalGuard
  <2>6. CASE LoadContext(r)
    <3>1. PICK old \in Guarded : old = treq[r] /\ old.op = "context"
      BY <1>2, <2>6, SlotType, SlotFields DEF LoadContext
    <3> DEFINE q == [old EXCEPT !.op = "handle"]
    <3>2. \/ treq'[r] = TIdle
          \/ treq'[r] = q /\ TenantWriteModeGuard(old.route, tenant[old.by[1]].writeMode)
      BY <2>3, <2>6, <3>1 DEF LoadContext
    <3>3. q.by = old.by /\ q.route = old.route
      BY <3>1 DEF Guarded
    <3> HIDE DEF q
    <3>4. treq'[r] = q /\ TenantWriteModeGuard(old.route, tenant[old.by[1]].writeMode)
      BY <2>1, <3>2 DEF TIdle
    <3>5. old.by[1] = t /\ Mutates(old.route)
      BY <2>1, <3>3, <3>4
    <3>6. tenant[t].writeMode \in {"read_only", "blocked"}
      BY <1>2 DEF OrganizationTypeOK, TenantsTypeOK, TenantRow
    <3> QED BY <3>4, <3>5, <3>6 DEF TenantWriteModeGuard
  <2> QED BY <1>2, <2>1, <2>2, <2>4, <2>5, <2>6, OnlyGuardsLetIn
<1>3. OrganizationTypeOK /\ [OrganizationNext]_tenancyVars => SuspensionShutsOut
  BY <1>1, <1>2 DEF SuspensionShutsOut
<1> QED BY <1>3, OrganizationTypeCorrect, PTL DEF OrganizationSpec

-----------------------------------------------------------------------------
\* BackOfficeTypeOK: what the components around the sales chain store, and
\* what their requests have read, has the shape their handlers give it.
THEOREM BackOfficeTypeCorrect == BackOfficeSpec => []BackOfficeTypeOK
<1>1. /\ OrganizationTypeOK /\ CatalogTypeOK /\ DocumentsTypeOK
      /\ DeskTypeOK /\ TrailsTypeOK /\ RecordsTypeOK
      => BackOfficeTypeOK
  BY DEF BackOfficeTypeOK
<1> QED BY <1>1, OrganizationTypeCorrect, CatalogTypeCorrect, DocumentsTypeCorrect,
           DeskStaysInStep, TrailsAddUp, RecordsStayInStep, PTL DEF BackOfficeSpec
=============================================================================
