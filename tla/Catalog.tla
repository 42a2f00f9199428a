------------------------------ MODULE Catalog ------------------------------
(***************************************************************************)
(* The entitlement catalogue that every server process seeds as it starts: *)
(* ensureEntitlementCatalog of platform/platform-tenants.service.ts.       *)
(*                                                                         *)
(* Each row is looked for and, if it is missing, inserted: two statements. *)
(* Processes that start together race; the one whose insertion meets a row *)
(* that was not there before fails on the unique key, and onModuleInit     *)
(* logs that and lets the server go on.                                    *)
(***************************************************************************)
EXTENDS Integers

CONSTANTS
    Servers,        \* processes that start
    MvpFeatures,    \* how many features FEATURE_CATALOG lists
    AllFeatures     \* and how many with FUTURE_FEATURE_CATALOG after it

ASSUME CatalogAssumption ==
    /\ MvpFeatures \in Nat /\ AllFeatures \in Nat /\ MvpFeatures <= AllFeatures
    /\ "none" \notin Servers

VARIABLES
    catalog,    \* the features, plans and plan features that exist
    boot,       \* boot[s]: where server s is in seeding
    lost,       \* history: a server has been killed while it was seeding
    creator     \* history: the server that made the last insertion, if any

catalogVars == <<catalog, boot, lost, creator>>

-----------------------------------------------------------------------------
\* The features in the order of the catalogue; plans 1 (trial) and 2 (paid).
Plans == {1, 2}
FEATURE_CATALOG == 1 .. MvpFeatures
FUTURE_FEATURE_CATALOG == (MvpFeatures + 1) .. AllFeatures

\* A row: <<kind, plan, feature>>, with 0 for what it does not have.
FeatureRows(fs) == {"feature"} \X {0} \X fs
PlanRows == {"plan"} \X Plans \X {0}
PlanFeatureRows(fs) == {"link"} \X Plans \X fs

AllRows == FeatureRows(1 .. AllFeatures) \cup PlanRows \cup PlanFeatureRows(1 .. AllFeatures)
FullCatalog == FeatureRows(FEATURE_CATALOG \cup FUTURE_FEATURE_CATALOG) \cup PlanRows
                   \cup PlanFeatureRows(FEATURE_CATALOG)

\* The features come in order, then a plan and its links, then the next plan.
Before(x, y) ==
    \/ x[2] < y[2]
    \/ x[2] = y[2] /\ x[1] = "plan" /\ y[1] = "link"
    \/ x[1] = "feature" /\ y[1] = "feature" /\ x[3] < y[3]

Seeding == [op : {"features", "plans"}, todo : SUBSET AllRows]
Inserting == [op : {"insertFeature", "insertPlan"}, todo : SUBSET AllRows, row : AllRows]
Stopped == [op : {"off", "done", "failed"}]
NoServer == "none"

CatalogTypeOK ==
    /\ catalog \subseteq AllRows
    /\ boot \in [Servers -> Seeding \cup Inserting \cup Stopped]
    /\ lost \in BOOLEAN
    /\ creator \in Servers \cup {NoServer}

CatalogInit ==
    /\ catalog = {}
    /\ boot = [s \in Servers |-> [op |-> "off"]]
    /\ lost = FALSE
    /\ creator = NoServer

-----------------------------------------------------------------------------
BootGoto(s, next) == boot' = [boot EXCEPT ![s] = next]

\* The features to link with the plans: those of FEATURE_CATALOG that exist.
Linkable == {f \in FEATURE_CATALOG : <<"feature", 0, f>> \in catalog}

\* Mutant: the features to link are listed before they are seeded.
StartListed(s) ==
    /\ boot[s].op \in {"off", "done", "failed"}
    /\ BootGoto(s, [op |-> "plans", todo |-> FeatureRows(1 .. AllFeatures) \cup PlanRows
                        \cup PlanFeatureRows(Linkable)])
    /\ UNCHANGED <<catalog, lost, creator>>

\* A process starts, or starts again.
Start(s) ==
    /\ boot[s].op \in {"off", "done", "failed"}
    /\ BootGoto(s, [op |-> "features", todo |-> FeatureRows(1 .. AllFeatures)])
    /\ UNCHANGED <<catalog, lost, creator>>

\* findUnique of the next row.
Find(s, row) == LET q == boot[s] IN
    /\ q.op \in {"features", "plans"}
    /\ row \in q.todo
    /\ \A other \in q.todo : ~Before(other, row)
    /\ BootGoto(s, IF row \in catalog THEN [q EXCEPT !.todo = @ \ {row}]
                   ELSE [op |-> IF q.op = "features" THEN "insertFeature" ELSE "insertPlan",
                         todo |-> q.todo \ {row}, row |-> row])
    /\ UNCHANGED <<catalog, lost, creator>>

Insert(s) == LET q == boot[s] IN
    /\ q.op \in {"insertFeature", "insertPlan"}
    /\ q.row \notin catalog
    /\ catalog' = catalog \cup {q.row}
    /\ creator' = s
    /\ BootGoto(s, [op |-> IF q.op = "insertFeature" THEN "features" ELSE "plans",
                    todo |-> q.todo])
    /\ UNCHANGED lost

\* The insertion clashes: seeding is given up, the server runs without.
InsertClash(s) ==
    /\ boot[s].op \in {"insertFeature", "insertPlan"}
    /\ boot[s].row \in catalog
    /\ BootGoto(s, [op |-> "failed"])
    /\ UNCHANGED <<catalog, lost, creator>>

ListFeatures(s) ==
    /\ boot[s].op = "features" /\ boot[s].todo = {}
    /\ BootGoto(s, [op |-> "plans", todo |-> PlanRows \cup PlanFeatureRows(Linkable)])
    /\ UNCHANGED <<catalog, lost, creator>>

Finish(s) ==
    /\ boot[s].op = "plans" /\ boot[s].todo = {}
    /\ BootGoto(s, [op |-> "done"])
    /\ UNCHANGED <<catalog, lost, creator>>

\* The process is killed, or the database cannot be reached.
Kill(s) ==
    /\ boot[s].op \notin {"off", "done", "failed"}
    /\ BootGoto(s, [op |-> "off"])
    /\ lost' = TRUE
    /\ UNCHANGED <<catalog, creator>>

CatalogNext == \E s \in Servers :
    \/ Start(s) \/ Insert(s) \/ InsertClash(s) \/ ListFeatures(s) \/ Finish(s) \/ Kill(s)
    \/ \E row \in AllRows : Find(s, row)

CatalogSpec == CatalogInit /\ [][CatalogNext]_catalogVars

-----------------------------------------------------------------------------
\* Once a server has been through it, and none was killed in the middle, the
\* catalogue is complete as soon as no server is seeding, although the losers
\* of every race give up half-way: the last that inserts a row never loses.
SeededWhenQuiet ==
    /\ ~lost
    /\ \A s \in Servers : boot[s].op \in {"off", "done", "failed"}
    /\ \E s \in Servers : boot[s].op # "off"
    => FullCatalog \subseteq catalog

\* "Future feature keys must stay off Trial/Paid": no plan has one.
FutureStaysOff == \A p \in Plans, f \in FUTURE_FEATURE_CATALOG : <<"link", p, f>> \notin catalog

\* ensureEntitlementCatalog, run by racing servers, completes the catalogue
\* and entitles no plan to a future feature.
CatalogIsSeeded == SeededWhenQuiet /\ FutureStaysOff
=============================================================================
