------------------------------ MODULE Finance ------------------------------
(***************************************************************************)
(* Customer invoices, payments and credit notes:                           *)
(* finance/finance.service.ts over the tables of prisma/schema.prisma.     *)
(*                                                                         *)
(* A slot of FinReqs is an HTTP request; between two awaits it is a record *)
(* of what it read and will write.  A Prisma call or $transaction is one   *)
(* step.  Payment and credit-note rows are only ever inserted, so the      *)
(* model keeps their sums per invoice; the audit log of money likewise.    *)
(* Money is a number of the schema's smallest unit, Decimal(18, 4): exact. *)
(***************************************************************************)
EXTENDS Integers, FiniteSets, Functions

CONSTANTS
    Invoices,       \* ids of customer invoices
    FinReqs,        \* concurrent HTTP requests
    Totals,         \* the totals (subtotal + tax) invoices are created with
    Amounts,        \* the amounts of payments and credit notes
    MaxMoney,       \* bound: no more money is offered for an invoice past it
    FinReqsFail     \* TRUE: a request may die between two of its statements

\* The DTOs require subtotal, tax >= 0 and amounts >= 0.01; at any time a
\* finite number of requests is being handled.
ASSUME FinanceAssumption ==
    /\ IsFiniteSet(FinReqs)
    /\ Totals \subseteq Nat
    /\ Amounts \subseteq Nat \ {0}
    /\ MaxMoney \in Nat
    /\ FinReqsFail \in BOOLEAN

VARIABLES
    invoice,    \* invoice[i]: row of invoice i
    received,   \* received[i]: sum of the payments recorded against i
    credited,   \* credited[i]: sum of the credit notes recorded against i
    issues,     \* history: how often i has been set to 'issued'
    journaled,  \* journaled[i]: sum of i's payment and credit-note audit entries
    freq        \* freq[r]: what request r has read and is about to write

financeVars == <<invoice, received, credited, issues, journaled, freq>>

-----------------------------------------------------------------------------
InvoiceStatus == {"none", "draft", "issued", "deleted"}

InvoiceRow == [status : InvoiceStatus, total : Nat, paid : Nat, outstanding : Nat]
NoInvoice == [status |-> "none", total |-> 0, paid |-> 0, outstanding |-> 0]

InTable(i) == invoice[i].status \in {"draft", "issued"}

FIdle == [op |-> "idle"]
Issuing == [op : {"issue"}, inv : Invoices]
Deleting == [op : {"delete"}, inv : Invoices]
Paying == [op : {"pay"}, inv : Invoices, amount : Amounts, paid : Nat,
           outstanding : Nat]
Crediting == [op : {"credit"}, inv : Invoices, amount : Amounts,
              outstanding : Nat]
Auditing == [op : {"audit"}, inv : Invoices, amount : Nat]

FinanceTypeOK ==
    /\ invoice \in [Invoices -> InvoiceRow]
    /\ received \in [Invoices -> Nat]
    /\ credited \in [Invoices -> Nat]
    /\ issues \in [Invoices -> Nat]
    /\ journaled \in [Invoices -> Nat]
    /\ freq \in [FinReqs -> {FIdle} \cup Issuing \cup Deleting \cup Paying
                    \cup Crediting \cup Auditing]

Zero == [i \in Invoices |-> 0]

Init ==
    /\ invoice = [i \in Invoices |-> NoInvoice]
    /\ received = Zero
    /\ credited = Zero
    /\ issues = Zero
    /\ journaled = Zero
    /\ freq = [r \in FinReqs |-> FIdle]

-----------------------------------------------------------------------------
Goto(r, next) == freq' = [freq EXCEPT ![r] = next]

\* audit() is a statement of its own, after the change it reports.
ThenAudit(r, i, amount) == Goto(r, [op |-> "audit", inv |-> i, amount |-> amount])

\* Mutant: Math.max is forgotten.
Unclamped(n) == n

AtLeastZero(n) == IF n > 0 THEN n ELSE 0

CreateInvoice(r, i, total) ==
    /\ freq[r] = FIdle
    /\ invoice[i].status = "none"
    /\ invoice' = [invoice EXCEPT ![i] =
            [status |-> "draft", total |-> total, paid |-> 0, outstanding |-> 0]]
    /\ ThenAudit(r, i, 0)
    /\ UNCHANGED <<received, credited, issues, journaled>>

\* Mutant: any invoice may be issued.
IssueReadAny(r, i) ==
    /\ freq[r] = FIdle
    /\ InTable(i)
    /\ Goto(r, [op |-> "issue", inv |-> i])
    /\ UNCHANGED <<invoice, received, credited, issues, journaled>>

IssueRead(r, i) ==
    /\ freq[r] = FIdle
    /\ invoice[i].status = "draft"
    /\ Goto(r, [op |-> "issue", inv |-> i])
    /\ UNCHANGED <<invoice, received, credited, issues, journaled>>

\* The total is never updated: the one that was read is the row's.
IssueWrite(r) == LET i == freq[r].inv IN
    /\ freq[r].op = "issue"
    /\ InTable(i)
    /\ invoice' = [invoice EXCEPT ![i].status = "issued",
                                  ![i].outstanding = invoice[i].total]
    /\ issues' = [issues EXCEPT ![i] = @ + 1]
    /\ ThenAudit(r, i, 0)
    /\ UNCHANGED <<received, credited, journaled>>

-----------------------------------------------------------------------------
\* Mutant: issued invoices may be deleted too.
DeleteReadAny(r, i) ==
    /\ freq[r] = FIdle
    /\ InTable(i)
    /\ Goto(r, [op |-> "delete", inv |-> i])
    /\ UNCHANGED <<invoice, received, credited, issues, journaled>>

DeleteRead(r, i) ==
    /\ freq[r] = FIdle
    /\ InTable(i)
    /\ invoice[i].status # "issued"
    /\ Goto(r, [op |-> "delete", inv |-> i])
    /\ UNCHANGED <<invoice, received, credited, issues, journaled>>

\* Mutant: credit notes are unlinked like payments.
DeleteWriteUnrestricted(r) == LET i == freq[r].inv IN
    /\ freq[r].op = "delete"
    /\ InTable(i)
    /\ invoice' = [invoice EXCEPT ![i] = [NoInvoice EXCEPT !.status = "deleted"]]
    /\ ThenAudit(r, i, 0)
    /\ UNCHANGED <<received, credited, issues, journaled>>

\* Foreign keys: payments are unlinked (SET NULL), credit notes block the
\* deletion (RESTRICT).
DeleteWrite(r) == LET i == freq[r].inv IN
    /\ freq[r].op = "delete"
    /\ InTable(i)
    /\ credited[i] = 0
    /\ invoice' = [invoice EXCEPT ![i] = [NoInvoice EXCEPT !.status = "deleted"]]
    /\ ThenAudit(r, i, 0)
    /\ UNCHANGED <<received, credited, issues, journaled>>

DeleteRestricted(r) ==
    /\ freq[r].op = "delete"
    /\ credited[freq[r].inv] > 0
    /\ Goto(r, FIdle)
    /\ UNCHANGED <<invoice, received, credited, issues, journaled>>

-----------------------------------------------------------------------------
\* Mutant: drafts take payments.
PayReadDraft(r, i, amount) ==
    /\ freq[r] = FIdle
    /\ InTable(i)
    /\ received[i] + credited[i] < MaxMoney
    /\ LET paid == invoice[i].paid + amount IN
        Goto(r, [op |-> "pay", inv |-> i, amount |-> amount, paid |-> paid,
                 outstanding |-> AtLeastZero(invoice[i].total - paid)])
    /\ UNCHANGED <<invoice, received, credited, issues, journaled>>

\* Mutant: paidAmount is the last payment.
PayReadLast(r, i, amount) ==
    /\ freq[r] = FIdle
    /\ invoice[i].status = "issued"
    /\ received[i] + credited[i] < MaxMoney
    /\ Goto(r, [op |-> "pay", inv |-> i, amount |-> amount, paid |-> amount,
                outstanding |-> AtLeastZero(invoice[i].total - amount)])
    /\ UNCHANGED <<invoice, received, credited, issues, journaled>>

\* Mutant: all payments are taken off what the earlier ones left.
PayReadTwice(r, i, amount) ==
    /\ freq[r] = FIdle
    /\ invoice[i].status = "issued"
    /\ received[i] + credited[i] < MaxMoney
    /\ LET paid == invoice[i].paid + amount IN
        Goto(r, [op |-> "pay", inv |-> i, amount |-> amount, paid |-> paid,
                 outstanding |-> AtLeastZero(invoice[i].outstanding - paid)])
    /\ UNCHANGED <<invoice, received, credited, issues, journaled>>

\* createPayment computes the new paidAmount and outstanding from the row it
\* read, then stores both with the payment in one transaction.
PayRead(r, i, amount) ==
    /\ freq[r] = FIdle
    /\ invoice[i].status = "issued"
    /\ received[i] + credited[i] < MaxMoney
    /\ LET paid == invoice[i].paid + amount IN
        Goto(r, [op |-> "pay", inv |-> i, amount |-> amount, paid |-> paid,
                 outstanding |-> AtLeastZero(invoice[i].total - paid)])
    /\ UNCHANGED <<invoice, received, credited, issues, journaled>>

\* Mutant: the balance is stored, the payment is not.
PayCommitBalanceOnly(r) == LET i == freq[r].inv IN
    /\ freq[r].op = "pay"
    /\ InTable(i)
    /\ invoice' = [invoice EXCEPT ![i].paid = freq[r].paid,
                                  ![i].outstanding = freq[r].outstanding]
    /\ ThenAudit(r, i, freq[r].amount)
    /\ UNCHANGED <<received, credited, issues, journaled>>

PayCommit(r) == LET i == freq[r].inv IN
    /\ freq[r].op = "pay"
    /\ InTable(i)
    /\ received' = [received EXCEPT ![i] = @ + freq[r].amount]
    /\ invoice' = [invoice EXCEPT ![i].paid = freq[r].paid,
                                  ![i].outstanding = freq[r].outstanding]
    /\ ThenAudit(r, i, freq[r].amount)
    /\ UNCHANGED <<credited, issues, journaled>>

\* createCreditNote likewise, from the outstanding amount it read.
CreditRead(r, i, amount) ==
    /\ freq[r] = FIdle
    /\ invoice[i].status = "issued"
    /\ received[i] + credited[i] < MaxMoney
    /\ Goto(r, [op |-> "credit", inv |-> i, amount |-> amount,
                outstanding |-> AtLeastZero(invoice[i].outstanding - amount)])
    /\ UNCHANGED <<invoice, received, credited, issues, journaled>>

\* Mutant: the credit note is not audited.
CreditCommitUnaudited(r) == LET i == freq[r].inv IN
    /\ freq[r].op = "credit"
    /\ InTable(i)
    /\ credited' = [credited EXCEPT ![i] = @ + freq[r].amount]
    /\ invoice' = [invoice EXCEPT ![i].outstanding = freq[r].outstanding]
    /\ Goto(r, FIdle)
    /\ UNCHANGED <<received, issues, journaled>>

CreditCommit(r) == LET i == freq[r].inv IN
    /\ freq[r].op = "credit"
    /\ InTable(i)
    /\ credited' = [credited EXCEPT ![i] = @ + freq[r].amount]
    /\ invoice' = [invoice EXCEPT ![i].outstanding = freq[r].outstanding]
    /\ ThenAudit(r, i, freq[r].amount)
    /\ UNCHANGED <<received, issues, journaled>>

-----------------------------------------------------------------------------
\* A row that is gone cannot be updated, deleted or referred to.
RowGone(r) ==
    /\ freq[r].op \in {"issue", "delete", "pay", "credit"}
    /\ ~InTable(freq[r].inv)
    /\ Goto(r, FIdle)
    /\ UNCHANGED <<invoice, received, credited, issues, journaled>>

\* Mutant: the audit entry is written and retried.
AuditRepeated(r) ==
    /\ freq[r].op = "audit"
    /\ journaled[freq[r].inv] < MaxMoney
    /\ journaled' = [journaled EXCEPT ![freq[r].inv] = @ + freq[r].amount]
    /\ UNCHANGED <<invoice, received, credited, issues, freq>>

Audit(r) ==
    /\ freq[r].op = "audit"
    /\ journaled' = [journaled EXCEPT ![freq[r].inv] = @ + freq[r].amount]
    /\ Goto(r, FIdle)
    /\ UNCHANGED <<invoice, received, credited, issues>>

\* The process dies, a transaction rolls back, or the audit insert fails.
ReqFails(r) ==
    /\ FinReqsFail
    /\ freq[r] # FIdle
    /\ Goto(r, FIdle)
    /\ UNCHANGED <<invoice, received, credited, issues, journaled>>

ReqContinues(r) ==
    \/ IssueWrite(r)
    \/ DeleteWrite(r)
    \/ DeleteRestricted(r)
    \/ PayCommit(r)
    \/ CreditCommit(r)
    \/ RowGone(r)
    \/ Audit(r)

ReqStarts(r) ==
    \E i \in Invoices :
        \/ \E total \in Totals : CreateInvoice(r, i, total)
        \/ IssueRead(r, i)
        \/ DeleteRead(r, i)
        \/ \E amount \in Amounts : PayRead(r, i, amount) \/ CreditRead(r, i, amount)

Next == \E r \in FinReqs : ReqStarts(r) \/ ReqContinues(r) \/ ReqFails(r)

Spec == Init /\ [][Next]_financeVars

\* The event loop resumes every handler whose database call has returned.
Fairness == \A r \in FinReqs : WF_financeVars(ReqContinues(r))

FairSpec == Spec /\ Fairness

-----------------------------------------------------------------------------
\* An issued invoice never shows less outstanding than is really due: stale
\* reads in createPayment and createCreditNote lose or forget money received,
\* but no interleaving lets a customer owe less than total - payments - credits.
NeverUnderstatesDue ==
    \A i \in Invoices : invoice[i].status = "issued" =>
        invoice[i].outstanding + received[i] + credited[i] >= invoice[i].total

\* paidAmount never exceeds the payments recorded, and what is outstanding is
\* between zero and the total, whatever requests overlap.
BalanceWithinBounds ==
    \A i \in Invoices : InTable(i) =>
        /\ invoice[i].paid <= received[i]
        /\ invoice[i].outstanding <= invoice[i].total

\* Money belongs to invoices that were issued: a draft has no payment, no credit
\* note and no balance, although payments check the status before they commit.
DraftHasNoMoney ==
    \A i \in Invoices : invoice[i].status \in {"none", "draft"} =>
        /\ received[i] = 0 /\ credited[i] = 0 /\ issues[i] = 0
        /\ invoice[i].paid = 0 /\ invoice[i].outstanding = 0

\* A credit note keeps its invoice: one that has been credited is never deleted,
\* not even by a deletion that had found it in draft.
CreditKeepsInvoice ==
    \A i \in Invoices : credited[i] > 0 => invoice[i].status = "issued"

\* Amounts committed on i whose audit entry is still to be written.
Auditors(i) == {r \in FinReqs : freq[r].op = "audit" /\ freq[r].inv = i}
AwaitingAudit(i) == SumFunctionOnSet([r \in Auditors(i) |-> freq[r].amount], Auditors(i))

\* The audit log never reports money that was not committed; unless a request
\* failed, what it lacks is exactly what requests in flight are about to report.
AuditTrailReconciles ==
    \A i \in Invoices :
        LET known == journaled[i] + AwaitingAudit(i)
        IN  /\ known <= received[i] + credited[i]
            /\ ~FinReqsFail => known = received[i] + credited[i]

\* Every amount committed is eventually reported to the audit log.
MoneyIsJournaled ==
    \A i \in Invoices, n \in 1 .. MaxMoney :
        (received[i] + credited[i] >= n) ~> (journaled[i] >= n)

\* paidAmount is the sum of the payments linked to the invoice.
PaidIsReceived ==
    \A i \in Invoices : invoice[i].status = "issued" => invoice[i].paid = received[i]

\* Until a credit note is written, the outstanding balance is the total less
\* the payments.
PaymentsReduceBalance ==
    \A i \in Invoices : invoice[i].status = "issued" /\ credited[i] = 0 =>
        invoice[i].outstanding = AtLeastZero(invoice[i].total - received[i])

\* The outstanding balance is the total less payments and credit notes.
BalanceIsExact ==
    \A i \in Invoices : invoice[i].status = "issued" =>
        invoice[i].outstanding =
            AtLeastZero(invoice[i].total - received[i] - credited[i])

\* "no hard delete after issue": an invoice that was issued stays in the table.
IssuedIsNotDeleted ==
    \A i \in Invoices : issues[i] > 0 => invoice[i].status = "issued"

\* "Only draft invoices can be issued": no invoice is issued twice.
IssuedOnce == \A i \in Invoices : issues[i] <= 1
=============================================================================
