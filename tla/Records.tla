------------------------------ MODULE Records ------------------------------
(***************************************************************************)
(* A tenant's customers, suppliers and rate sheets, one by one and by      *)
(* import: crm/crm.service.ts and suppliers/suppliers.service.ts.          *)
(*                                                                         *)
(* An import inserts its rows one statement after the other and records    *)
(* the job last.  A customer is looked up, then written: it may be deleted *)
(* in between.  What the rows say (names, contacts, rates) is left out,    *)
(* but for whether an import accepts it.                                   *)
(***************************************************************************)
EXTENDS Integers, Sequences, FiniteSets, Functions

CONSTANTS
    Customers,      \* ids of customers
    Suppliers,      \* ids of suppliers
    Sheets,         \* ids of rate sheets
    Jobs,           \* ids of import jobs
    RecReqs,        \* concurrent HTTP requests
    MaxRows,        \* bound: rows of an import
    RecReqsFail     \* TRUE: a request may die between two statements

ASSUME RecordsAssumption ==
    /\ {"none", "valid", "invalid"} \cap Suppliers = {}
    /\ IsFiniteSet(Customers) /\ IsFiniteSet(Sheets)
    /\ IsFiniteSet(Jobs) /\ IsFiniteSet(RecReqs)
    /\ MaxRows \in Nat
    /\ RecReqsFail \in BOOLEAN

VARIABLES
    customer,   \* customer[c]: row of customer c
    supplier,   \* the suppliers that exist
    sheet,      \* sheet[x]: row of rate sheet x
    job,        \* job[j]: row of import job j
    recreq,     \* recreq[r]: where request r is
    orphans,    \* history: orphans[kind] rows of imports that died
    late,       \* history: customers written to after they were deleted
    crossed     \* history: customers deleted while somebody was writing to them

recVars == <<customer, supplier, sheet, job, recreq, orphans, late, crossed>>

-----------------------------------------------------------------------------
\* imported: the row was made by an import; deletedAt is set by softDelete.
CustomerRow == [exists : BOOLEAN, deleted : BOOLEAN, imported : BOOLEAN]
SheetRow == [supplier : Suppliers \cup {"none"}, imported : BOOLEAN]
ImportKinds == {"customers", "rates"}
JobRow == [kind : ImportKinds \cup {"none"}, total : 0 .. MaxRows,
           ok : 0 .. MaxRows, bad : 0 .. MaxRows]
NoJob == [kind |-> "none", total |-> 0, ok |-> 0, bad |-> 0]

\* A row to import: whether it is valid and, of a rate, for which supplier.
ImportRows(kind) == {"invalid"} \cup IF kind = "rates" THEN Suppliers ELSE {"valid"}
Files(kind) == UNION {[1 .. n -> ImportRows(kind)] : n \in 0 .. MaxRows}

RIdle == [op |-> "idle"]
Importing == UNION {[op : {"rows", "create"}, kind : {kind}, rows : Files(kind),
                     i : 1 .. MaxRows + 1, ok : 0 .. MaxRows, bad : 0 .. MaxRows] :
                    kind \in ImportKinds}
Writing == [op : {"write", "softDelete"}, customer : Customers]

RecordsTypeOK ==
    /\ customer \in [Customers -> CustomerRow]
    /\ supplier \subseteq Suppliers
    /\ sheet \in [Sheets -> SheetRow]
    /\ job \in [Jobs -> JobRow]
    /\ recreq \in [RecReqs -> {RIdle} \cup Importing \cup Writing]
    /\ orphans \in [ImportKinds -> Nat]
    /\ late \subseteq Customers /\ crossed \subseteq Customers

RecordsInit ==
    /\ customer = [c \in Customers |-> [exists |-> FALSE, deleted |-> FALSE, imported |-> FALSE]]
    /\ supplier = {}
    /\ sheet = [x \in Sheets |-> [supplier |-> "none", imported |-> FALSE]]
    /\ job = [j \in Jobs |-> NoJob]
    /\ recreq = [r \in RecReqs |-> RIdle]
    /\ orphans = [kind \in ImportKinds |-> 0]
    /\ late = {} /\ crossed = {}

-----------------------------------------------------------------------------
RGoto(r, next) == recreq' = [recreq EXCEPT ![r] = next]

InsertCustomer(c, imported) ==
    /\ ~customer[c].exists
    /\ customer' = [customer EXCEPT ![c] =
            [exists |-> TRUE, deleted |-> FALSE, imported |-> imported]]

InsertSheet(x, s, imported) ==
    /\ sheet[x].supplier = "none"
    /\ sheet' = [sheet EXCEPT ![x] = [supplier |-> s, imported |-> imported]]

create(c) == InsertCustomer(c, FALSE)
    /\ UNCHANGED <<supplier, sheet, job, recreq, orphans, late, crossed>>

createSupplier(s) ==
    /\ s \notin supplier
    /\ supplier' = supplier \cup {s}
    /\ UNCHANGED <<customer, sheet, job, recreq, orphans, late, crossed>>

\* A supplier is never removed: looked up and used in one step.
createRateSheet(x, s) ==
    /\ s \in supplier
    /\ InsertSheet(x, s, FALSE)
    /\ UNCHANGED <<customer, supplier, job, recreq, orphans, late, crossed>>

requireCustomer(c) == customer[c].exists /\ ~customer[c].deleted

\* update and addActivity (op "write") and softDelete: the customer is looked
\* up, for an update so are others with its email and phone, then written.
Lookup(r, c, op) ==
    /\ recreq[r] = RIdle
    /\ requireCustomer(c)
    /\ RGoto(r, [op |-> op, customer |-> c])
    /\ UNCHANGED <<customer, supplier, sheet, job, orphans, late, crossed>>

WriteCustomer(r) == LET c == recreq[r].customer IN
    /\ recreq[r].op = "write"
    /\ late' = IF customer[c].deleted THEN late \cup {c} ELSE late
    /\ RGoto(r, RIdle)
    /\ UNCHANGED <<customer, supplier, sheet, job, orphans, crossed>>

SoftDelete(r) == LET c == recreq[r].customer IN
    /\ recreq[r].op = "softDelete"
    /\ customer' = [customer EXCEPT ![c].deleted = TRUE]
    /\ crossed' = IF \E other \in RecReqs : recreq[other] = [op |-> "write", customer |-> c]
                  THEN crossed \cup {c} ELSE crossed
    /\ RGoto(r, RIdle)
    /\ UNCHANGED <<supplier, sheet, job, orphans, late>>

-----------------------------------------------------------------------------
\* importRows and importRates: the loop over the rows of the request.
ImportStart(r, kind, rows) ==
    /\ recreq[r] = RIdle
    /\ RGoto(r, [op |-> "rows", kind |-> kind, rows |-> rows, i |-> 1, ok |-> 0, bad |-> 0])
    /\ UNCHANGED <<customer, supplier, sheet, job, orphans, late, crossed>>

\* The row that r is at, which must be one of the kind.
AtRow(r, kind) == recreq[r].kind = kind /\ recreq[r].i <= Len(recreq[r].rows)
RowOf(r) == recreq[r].rows[recreq[r].i]

\* Mutant: a rate for a supplier that is not found is skipped without a word.
RejectRowSilent(r) == LET q == recreq[r] IN
    /\ q.op = "rows" /\ AtRow(r, q.kind)
    /\ RowOf(r) = "invalid" \/ (q.kind = "rates" /\ RowOf(r) \notin supplier)
    /\ RGoto(r, [q EXCEPT !.i = @ + 1, !.bad = @ + IF RowOf(r) = "invalid" THEN 1 ELSE 0])
    /\ UNCHANGED <<customer, supplier, sheet, job, orphans, late, crossed>>

\* The row is not valid, or its supplier is not found.
RejectRow(r) == LET q == recreq[r] IN
    /\ q.op = "rows" /\ AtRow(r, q.kind)
    /\ RowOf(r) = "invalid" \/ (q.kind = "rates" /\ RowOf(r) \notin supplier)
    /\ RGoto(r, [q EXCEPT !.i = @ + 1, !.bad = @ + 1])
    /\ UNCHANGED <<customer, supplier, sheet, job, orphans, late, crossed>>

ImportCustomer(r, c) == LET q == recreq[r] IN
    /\ q.op = "rows" /\ AtRow(r, "customers") /\ RowOf(r) = "valid"
    /\ InsertCustomer(c, TRUE)
    /\ RGoto(r, [q EXCEPT !.i = @ + 1, !.ok = @ + 1])
    /\ UNCHANGED <<supplier, sheet, job, orphans, late, crossed>>

FindSupplier(r) == LET q == recreq[r] IN
    /\ q.op = "rows" /\ AtRow(r, "rates") /\ RowOf(r) \in supplier
    /\ RGoto(r, [q EXCEPT !.op = "create"])
    /\ UNCHANGED <<customer, supplier, sheet, job, orphans, late, crossed>>

ImportRate(r, x) == LET q == recreq[r] IN
    /\ q.op = "create"
    /\ InsertSheet(x, RowOf(r), TRUE)
    /\ RGoto(r, [q EXCEPT !.op = "rows", !.i = @ + 1, !.ok = @ + 1])
    /\ UNCHANGED <<customer, supplier, job, orphans, late, crossed>>

RecordJob(r, j) == LET q == recreq[r] IN
    /\ q.op = "rows" /\ q.i = Len(q.rows) + 1
    /\ job[j] = NoJob
    /\ job' = [job EXCEPT ![j] = [kind |-> q.kind, total |-> Len(q.rows),
                                  ok |-> q.ok, bad |-> q.bad]]
    /\ RGoto(r, RIdle)
    /\ UNCHANGED <<customer, supplier, sheet, orphans, late, crossed>>

\* A request dies; the rows an import has inserted stay, without a job.
RecordDie(r) == LET q == recreq[r] IN
    /\ RecReqsFail
    /\ q # RIdle
    /\ orphans' = IF q.op \in {"rows", "create"} THEN [orphans EXCEPT ![q.kind] = @ + q.ok]
                  ELSE orphans
    /\ RGoto(r, RIdle)
    /\ UNCHANGED <<customer, supplier, sheet, job, late, crossed>>

RecordsNext ==
    \/ \E c \in Customers : create(c)
    \/ \E s \in Suppliers : createSupplier(s) \/ \E x \in Sheets : createRateSheet(x, s)
    \/ \E r \in RecReqs :
        \/ \E c \in Customers :
            ImportCustomer(r, c) \/ \E op \in {"write", "softDelete"} : Lookup(r, c, op)
        \/ \E kind \in ImportKinds : \E rows \in Files(kind) : ImportStart(r, kind, rows)
        \/ WriteCustomer(r) \/ SoftDelete(r) \/ RejectRow(r) \/ FindSupplier(r)
        \/ \E x \in Sheets : ImportRate(r, x)
        \/ \E j \in Jobs : RecordJob(r, j)
        \/ RecordDie(r)

RecordsSpec == RecordsInit /\ [][RecordsNext]_recVars

-----------------------------------------------------------------------------
Imported(kind) == Cardinality(IF kind = "customers" THEN {c \in Customers : customer[c].imported}
                              ELSE {x \in Sheets : sheet[x].imported})
JobsOf(kind) == {j \in Jobs : job[j].kind = kind}
ImportsOf(kind) == {r \in RecReqs : recreq[r].op \in {"rows", "create"} /\ recreq[r].kind = kind}

\* A job accounts for each of its rows, and the jobs for every row that was
\* imported, but for those of imports under way or dead.
JobsAccount ==
    /\ \A j \in Jobs : job[j].ok + job[j].bad = job[j].total
    /\ \A kind \in ImportKinds : Imported(kind) =
            SumFunctionOnSet([j \in Jobs |-> job[j].ok], JobsOf(kind))
            + SumFunctionOnSet([r \in ImportsOf(kind) |-> recreq[r].ok], ImportsOf(kind))
            + orphans[kind]

\* Only a request that had found the customer before it was deleted writes to
\* it afterwards.
LateWritesCrossed == late \subseteq crossed

\* The jobs of importRows and importRates tell what became of their rows, and
\* a deleted customer is left alone, whatever overlaps and dies.
RecordsAgree == JobsAccount /\ LateWritesCrossed
=============================================================================
