------------------------------- MODULE Trails -------------------------------
(***************************************************************************)
(* Rows whose trail is written after them: supplier invoices, expenses,    *)
(* exchange rates and invoice PDFs with their financial audit entry        *)
(* (finance.service.ts), impersonations with the platform's (phase2/       *)
(* impersonation), webhook endpoints with the usage meter of the month     *)
(* (phase2/webhooks, phase2/usage), which is found or else inserted.       *)
(***************************************************************************)
EXTENDS Integers, FiniteSets, Functions

CONSTANTS
    Rows,           \* ids of rows
    UsedKinds,      \* the kinds of row that are created
    TrailReqs,      \* concurrent HTTP requests
    Months,         \* bound: the clock runs through the months 1 .. Months
    MaxWrites,      \* bound: how often an exchange rate is written
    TrailReqsFail   \* TRUE: a request may die between two statements

Kinds == {"supplier_invoice", "expense", "exchange_rate", "customer_invoice_pdf",
          "impersonation_session", "webhook"}

ASSUME TrailsAssumption ==
    /\ UsedKinds \subseteq Kinds
    /\ IsFiniteSet(Rows) /\ IsFiniteSet(TrailReqs)
    /\ Months \in Nat \ {0} /\ MaxWrites \in Nat \ {0}
    /\ TrailReqsFail \in BOOLEAN

VARIABLES
    row,        \* row[x]: kind of row x; active is of webhook endpoints
    trail,      \* trail[x]: number of audit entries about x
    month,      \* the month of the clock
    meter,      \* meter[p]: value for month p; 0 if there is no row
    delivery,   \* <<endpoint, status>> of the webhook deliveries
    trailreq,   \* trailreq[r]: where request r is
    writes,     \* history: how often x has been written
    untold      \* history: how many of those writes died before their trail

trailVars == <<row, trail, month, meter, delivery, trailreq, writes, untold>>

-----------------------------------------------------------------------------
RowState == [kind : Kinds \cup {"none"}, active : BOOLEAN]
NoRow == [kind |-> "none", active |-> FALSE]

LIdle == [op |-> "idle"]
Auditing == [op : {"audit"}, row : Rows]
Metering == [op : {"find"}, row : Rows] \cup
            [op : {"insert", "increment"}, row : Rows, month : 1 .. Months]
Delivering == [op : {"deliver"}, row : Rows, status : {"delivered", "pending"}]

TrailsTypeOK ==
    /\ row \in [Rows -> RowState]
    /\ trail \in [Rows -> 0 .. MaxWrites]
    /\ month \in 1 .. Months
    /\ meter \in [1 .. Months -> 0 .. Cardinality(Rows)]
    /\ delivery \subseteq Rows \X {"delivered", "pending"}
    /\ trailreq \in [TrailReqs -> {LIdle} \cup Auditing \cup Metering \cup Delivering]
    /\ writes \in [Rows -> 0 .. MaxWrites]
    /\ untold \in [Rows -> 0 .. MaxWrites]

TrailsInit ==
    /\ row = [x \in Rows |-> NoRow]
    /\ trail = [x \in Rows |-> 0]
    /\ month = 1
    /\ meter = [p \in 1 .. Months |-> 0]
    /\ delivery = {}
    /\ trailreq = [r \in TrailReqs |-> LIdle]
    /\ writes = [x \in Rows |-> 0]
    /\ untold = [x \in Rows |-> 0]

-----------------------------------------------------------------------------
LGoto(r, next) == trailreq' = [trailreq EXCEPT ![r] = next]

\* The row is inserted (an exchange rate that exists is updated); its trail
\* is what the request does next.
Write(r, x, kind) ==
    /\ trailreq[r] = LIdle
    /\ row[x].kind \in {"none"} \cup ({kind} \cap {"exchange_rate"})
    /\ writes[x] < MaxWrites
    /\ row' = [row EXCEPT ![x] = [kind |-> kind, active |-> kind = "webhook"]]
    /\ writes' = [writes EXCEPT ![x] = @ + 1]
    /\ LGoto(r, [op |-> IF kind = "webhook" THEN "find" ELSE "audit", row |-> x])
    /\ UNCHANGED <<trail, month, meter, delivery, untold>>

WriteAudit(r) ==
    /\ trailreq[r].op = "audit"
    /\ trail' = [trail EXCEPT ![trailreq[r].row] = @ + 1]
    /\ LGoto(r, LIdle)
    /\ UNCHANGED <<row, month, meter, delivery, writes, untold>>

-----------------------------------------------------------------------------
\* usage.increment, for the month it is when it looks for the meter.
FindMeter(r) ==
    /\ trailreq[r].op = "find"
    /\ LGoto(r, [op |-> IF meter[month] = 0 THEN "insert" ELSE "increment",
                 row |-> trailreq[r].row, month |-> month])
    /\ UNCHANGED <<row, trail, month, meter, delivery, writes, untold>>

\* Mutant: the meter is upserted, with the value 1.
InsertMeterUpsert(r) ==
    /\ trailreq[r].op = "insert"
    /\ meter' = [meter EXCEPT ![trailreq[r].month] = 1]
    /\ LGoto(r, LIdle)
    /\ UNCHANGED <<row, trail, month, delivery, writes, untold>>

InsertMeter(r) ==
    /\ trailreq[r].op = "insert"
    /\ meter[trailreq[r].month] = 0
    /\ meter' = [meter EXCEPT ![trailreq[r].month] = 1]
    /\ LGoto(r, LIdle)
    /\ UNCHANGED <<row, trail, month, delivery, writes, untold>>

IncrementMeter(r) ==
    /\ trailreq[r].op = "increment"
    /\ meter' = [meter EXCEPT ![trailreq[r].month] = @ + 1]
    /\ LGoto(r, LIdle)
    /\ UNCHANGED <<row, trail, month, delivery, writes, untold>>

NextMonth ==
    /\ month < Months
    /\ month' = month + 1
    /\ UNCHANGED <<row, trail, meter, delivery, trailreq, writes, untold>>

-----------------------------------------------------------------------------
\* update and remove of an endpoint, which is never deleted.
SetActive(x, active) ==
    /\ row[x].kind = "webhook"
    /\ row' = [row EXCEPT ![x].active = active]
    /\ UNCHANGED <<trail, month, meter, delivery, trailreq, writes, untold>>

\* enqueue: the endpoint is read, the delivery recorded by what was read.
EnqueueRead(r, x) ==
    /\ trailreq[r] = LIdle
    /\ row[x].kind = "webhook"
    /\ LGoto(r, [op |-> "deliver", row |-> x,
                 status |-> IF row[x].active THEN "delivered" ELSE "pending"])
    /\ UNCHANGED <<row, trail, month, meter, delivery, writes, untold>>

Deliver(r) ==
    /\ trailreq[r].op = "deliver"
    /\ delivery' = delivery \cup {<<trailreq[r].row, trailreq[r].status>>}
    /\ LGoto(r, LIdle)
    /\ UNCHANGED <<row, trail, month, meter, writes, untold>>

-----------------------------------------------------------------------------
\* A request ends before its last statement; what it has written stays.
TrailAbandon(r) == LET q == trailreq[r] IN
    /\ untold' = IF q.op = "deliver" THEN untold ELSE [untold EXCEPT ![q.row] = @ + 1]
    /\ LGoto(r, LIdle)
    /\ UNCHANGED <<row, trail, month, meter, delivery, writes>>

\* The meter of a month is unique: another request has inserted it.
MeterClash(r) ==
    /\ trailreq[r].op = "insert"
    /\ meter[trailreq[r].month] > 0
    /\ TrailAbandon(r)

TrailDie(r) == TrailReqsFail /\ trailreq[r] # LIdle /\ TrailAbandon(r)

TrailsNext ==
    \/ \E r \in TrailReqs :
        \/ \E x \in Rows : EnqueueRead(r, x) \/ \E kind \in UsedKinds : Write(r, x, kind)
        \/ WriteAudit(r) \/ FindMeter(r) \/ InsertMeter(r) \/ IncrementMeter(r)
        \/ Deliver(r) \/ MeterClash(r) \/ TrailDie(r)
    \/ NextMonth
    \/ \E x \in Rows, active \in BOOLEAN : SetActive(x, active)

TrailsSpec == TrailsInit /\ [][TrailsNext]_trailVars

-----------------------------------------------------------------------------
\* The writes of x whose trail is still to come.
OnTheWay(x) == Cardinality({r \in TrailReqs :
    trailreq[r].op \in {"audit", "find", "insert", "increment"} /\ trailreq[r].row = x})

\* Every write of an audited row has its entry, is about to, or died first.
WritesAreAudited == \A x \in Rows : row[x].kind # "webhook" =>
    writes[x] = trail[x] + OnTheWay(x) + untold[x]

\* The meters add up to the endpoints that were created, whatever months they
\* were created in, but for those whose request died or lost the race to
\* insert the month's meter.
MetersAddUp == LET Endpoints == {x \in Rows : row[x].kind = "webhook"} IN
    SumFunction(meter) + SumFunctionOnSet([x \in Rows |-> OnTheWay(x) + untold[x]], Endpoints)
        = Cardinality(Endpoints)

\* Whatever overlaps and wherever a request dies, a trail accounts for the
\* rows it is about.
TrailsReconcile == WritesAreAudited /\ MetersAddUp
=============================================================================
