--------------------------- MODULE FinanceProofs ---------------------------
(***************************************************************************)
(* Proofs about Finance.tla, for any invoices, requests, amounts and bounds: *)
(* types; that overlapping requests, however many, never understate what is *)
(* due on an issued invoice and that the audit log reconciles with the money *)
(* they recorded; and what is exact when requests come one at a time.      *)
(***************************************************************************)
EXTENDS Finance, SumTheorems

\* What a payment read from an issued invoice bounds what it will write: the
\* paidAmount it computed counts only payments recorded, its own included, and
\* the outstanding amount is what that paidAmount leaves of the total.
PaymentBacked(r) ==
    LET i == freq[r].inv IN
    freq[r].op = "pay" =>
        /\ invoice[i].status \in {"issued", "deleted"}
        /\ invoice[i].status = "issued" =>
            /\ freq[r].paid <= received[i] + freq[r].amount
            /\ freq[r].outstanding + freq[r].paid >= invoice[i].total
            /\ freq[r].outstanding <= invoice[i].total

\* What a credit note will write covers the total together with the money
\* recorded so far and the note itself.
CreditBacked(r) ==
    LET i == freq[r].inv IN
    freq[r].op = "credit" =>
        /\ invoice[i].status \in {"issued", "deleted"}
        /\ invoice[i].status = "issued" =>
            /\ freq[r].outstanding + freq[r].amount + received[i] + credited[i]
                    >= invoice[i].total
            /\ freq[r].outstanding <= invoice[i].total

\* The inductive invariant: the balances, and the snapshots in flight.
RequestsBacked == \A r \in FinReqs : PaymentBacked(r) /\ CreditBacked(r)

Balances ==
    /\ NeverUnderstatesDue
    /\ BalanceWithinBounds
    /\ DraftHasNoMoney
    /\ CreditKeepsInvoice

FinanceInv == FinanceTypeOK /\ RequestsBacked /\ Balances

LEMMA InitFinanceInv == Init => FinanceInv
  BY FinanceAssumption
  DEF Init, FinanceInv, FinanceTypeOK, RequestsBacked, PaymentBacked,
      CreditBacked, Balances, NeverUnderstatesDue, BalanceWithinBounds,
      DraftHasNoMoney, CreditKeepsInvoice, InvoiceRow, InvoiceStatus, NoInvoice,
      Zero, FIdle, InTable

-----------------------------------------------------------------------------
\* A request's operation determines the fields it carries.
LEMMA RequestFields ==
    ASSUME FinanceTypeOK, NEW r \in FinReqs
    PROVE  /\ freq[r].op = "issue" => freq[r] \in Issuing
           /\ freq[r].op = "delete" => freq[r] \in Deleting
           /\ freq[r].op = "pay" => freq[r] \in Paying
           /\ freq[r].op = "credit" => freq[r] \in Crediting
           /\ freq[r].op = "audit" => freq[r] \in Auditing
  BY DEF FinanceTypeOK, FIdle, Issuing, Deleting, Paying, Crediting, Auditing

\* What the balances say of one invoice.
Balanced(i) ==
    /\ invoice[i].status = "issued" =>
        invoice[i].outstanding + received[i] + credited[i] >= invoice[i].total
    /\ InTable(i) => /\ invoice[i].paid <= received[i]
                     /\ invoice[i].outstanding <= invoice[i].total
    /\ invoice[i].status \in {"none", "draft"} =>
        /\ received[i] = 0 /\ credited[i] = 0 /\ issues[i] = 0
        /\ invoice[i].paid = 0 /\ invoice[i].outstanding = 0
    /\ credited[i] > 0 => invoice[i].status = "issued"

LEMMA BalancesPerInvoice == Balances <=> \A i \in Invoices : Balanced(i)
  BY DEF Balances, Balanced, NeverUnderstatesDue, BalanceWithinBounds,
         DraftHasNoMoney, CreditKeepsInvoice

\* A write to the row of i that leaves what other requests read of it backed:
\* an issued invoice keeps its total and loses no money, unless it is deleted.
KeepsBacked(i) ==
    invoice[i].status \in {"issued", "deleted"} =>
        /\ invoice'[i].status \in {"issued", "deleted"}
        /\ invoice'[i].status = "issued" =>
            /\ invoice[i].status = "issued"
            /\ invoice'[i].total = invoice[i].total
            /\ received'[i] >= received[i] /\ credited'[i] >= credited[i]

\* A request that writes the row of i, and the money recorded with it.
LEMMA WritePreserves ==
    ASSUME FinanceInv, NEW r \in FinReqs, NEW i \in Invoices, NEW new \in InvoiceRow,
           NEW payments \in Nat, NEW notes \in Nat, NEW n \in Nat, NEW amount \in Nat,
           invoice' = [invoice EXCEPT ![i] = new],
           received' = [received EXCEPT ![i] = payments],
           credited' = [credited EXCEPT ![i] = notes],
           issues' = [issues EXCEPT ![i] = n],
           journaled' = journaled, ThenAudit(r, i, amount),
           KeepsBacked(i), Balanced(i)'
    PROVE  FinanceInv'
<1>0. FinanceTypeOK
  BY DEF FinanceInv
<1>1. /\ freq'[r] = [op |-> "audit", inv |-> i, amount |-> amount]
      /\ freq'[r] \in Auditing
      /\ freq' = [freq EXCEPT ![r] = freq'[r]]
      /\ \A p \in FinReqs \ {r} : freq'[p] = freq[p]
  BY <1>0 DEF FinanceTypeOK, ThenAudit, Goto, Auditing
<1>2. \A j \in Invoices \ {i} : /\ invoice'[j] = invoice[j]
                                /\ received'[j] = received[j]
                                /\ credited'[j] = credited[j]
                                /\ issues'[j] = issues[j]
  OBVIOUS
<1>3. FinanceTypeOK'
  BY <1>0, <1>1 DEF FinanceTypeOK
<1>4. ASSUME NEW p \in FinReqs PROVE PaymentBacked(p)' /\ CreditBacked(p)'
  <2>1. CASE p = r
    BY <1>1, <2>1 DEF PaymentBacked, CreditBacked
  <2>2. CASE p # r
    <3>1. PaymentBacked(p) /\ CreditBacked(p) /\ freq'[p] = freq[p]
      BY <1>1, <2>2 DEF FinanceInv, RequestsBacked
    <3>2. CASE freq[p].inv # i /\ freq[p].inv \in Invoices
      BY <1>2, <3>1, <3>2 DEF PaymentBacked, CreditBacked
    <3>3. CASE freq[p].inv = i
      <4>1. CASE freq[p].op = "pay"
        <5>1. /\ freq[p].amount \in Nat /\ freq[p].paid \in Nat
              /\ freq[p].outstanding \in Nat /\ received[i] \in Nat /\ received'[i] \in Nat
          BY <1>0, <1>3, <4>1, RequestFields, FinanceAssumption DEF Paying, FinanceTypeOK
        <5> QED BY <3>1, <3>3, <4>1, <5>1 DEF PaymentBacked, CreditBacked, KeepsBacked
      <4>2. CASE freq[p].op = "credit"
        <5>1. /\ freq[p].amount \in Nat /\ freq[p].outstanding \in Nat
              /\ received[i] \in Nat /\ received'[i] \in Nat
              /\ credited[i] \in Nat /\ credited'[i] \in Nat
              /\ invoice[i].total \in Nat
          BY <1>0, <1>3, <4>2, RequestFields, FinanceAssumption
          DEF Crediting, FinanceTypeOK, InvoiceRow
        <5> QED BY <3>1, <3>3, <4>2, <5>1 DEF PaymentBacked, CreditBacked, KeepsBacked
      <4> QED BY <3>1, <4>1, <4>2 DEF PaymentBacked, CreditBacked
    <3>4. CASE freq[p].op \notin {"pay", "credit"}
      BY <3>1, <3>4 DEF PaymentBacked, CreditBacked
    <3>5. freq[p].op \in {"pay", "credit"} => freq[p].inv \in Invoices
      BY <1>0, RequestFields DEF Paying, Crediting
    <3> QED BY <3>2, <3>3, <3>4, <3>5
  <2> QED BY <2>1, <2>2
<1>5. ASSUME NEW j \in Invoices PROVE Balanced(j)'
  <2>1. CASE j = i
    BY <2>1
  <2>2. CASE j # i
    <3>1. Balanced(j)
      BY BalancesPerInvoice DEF FinanceInv
    <3> QED BY <1>2, <2>2, <3>1 DEF Balanced, InTable
  <2> QED BY <2>1, <2>2
<1>6. Balances'
  BY <1>5, BalancesPerInvoice DEF Balances, Balanced, NeverUnderstatesDue,
     BalanceWithinBounds, DraftHasNoMoney, CreditKeepsInvoice, InTable
<1> QED BY <1>3, <1>4, <1>6 DEF FinanceInv, RequestsBacked

\* What is known of the row of i before a step.
LEMMA RowFacts ==
    ASSUME FinanceInv, NEW i \in Invoices
    PROVE  /\ invoice[i] \in InvoiceRow /\ Balanced(i)
           /\ received[i] \in Nat /\ credited[i] \in Nat /\ issues[i] \in Nat
           /\ received = [received EXCEPT ![i] = received[i]]
           /\ credited = [credited EXCEPT ![i] = credited[i]]
           /\ issues = [issues EXCEPT ![i] = issues[i]]
<1>1. invoice[i] \in InvoiceRow /\ received[i] \in Nat /\ credited[i] \in Nat /\ issues[i] \in Nat
  BY DEF FinanceInv, FinanceTypeOK
<1>2. Balanced(i)
  BY BalancesPerInvoice DEF FinanceInv
<1>3. /\ received \in [Invoices -> Nat] /\ credited \in [Invoices -> Nat]
      /\ issues \in [Invoices -> Nat]
  BY DEF FinanceInv, FinanceTypeOK
<1> QED BY <1>1, <1>2, <1>3

LEMMA CreateInvoicePreserves ==
    ASSUME FinanceInv, NEW r \in FinReqs, NEW i \in Invoices,
           NEW total \in Totals, CreateInvoice(r, i, total)
    PROVE  FinanceInv'
<1> DEFINE new == [status |-> "draft", total |-> total, paid |-> 0, outstanding |-> 0]
<1>1. invoice' = [invoice EXCEPT ![i] = new] /\ new \in InvoiceRow
  BY FinanceAssumption DEF CreateInvoice, InvoiceRow, InvoiceStatus
<1>2. /\ UNCHANGED <<received, credited, issues, journaled>>
      /\ ThenAudit(r, i, 0) /\ invoice[i].status = "none"
  BY DEF CreateInvoice
<1>3. invoice'[i] = new
  BY <1>1 DEF FinanceInv, FinanceTypeOK
<1>4. KeepsBacked(i)
  BY <1>2 DEF KeepsBacked
<1>5. Balanced(i)'
  <2>1. Balanced(i)
    BY RowFacts
  <2>2. received[i] = 0 /\ credited[i] = 0 /\ issues[i] = 0
    BY <1>2, <2>1 DEF Balanced
  <2>3. /\ invoice'[i].status = "draft" /\ invoice'[i].total = total
        /\ invoice'[i].paid = 0 /\ invoice'[i].outstanding = 0 /\ total \in Nat
    <3>1. /\ new.status = "draft" /\ new.total = total
          /\ new.paid = 0 /\ new.outstanding = 0
      OBVIOUS
    <3>2. total \in Nat
      BY FinanceAssumption
    <3> HIDE DEF new
    <3> QED BY <1>3, <3>1, <3>2
  <2>4. received'[i] = 0 /\ credited'[i] = 0 /\ issues'[i] = 0
    BY <1>2, <2>2
  <2> QED BY <2>3, <2>4 DEF Balanced, InTable
<1>6. /\ received[i] \in Nat /\ credited[i] \in Nat /\ issues[i] \in Nat
      /\ received' = [received EXCEPT ![i] = received[i]]
      /\ credited' = [credited EXCEPT ![i] = credited[i]]
      /\ issues' = [issues EXCEPT ![i] = issues[i]] /\ journaled' = journaled
  BY <1>2, RowFacts
<1> HIDE DEF new
<1> QED BY <1>1, <1>2, <1>4, <1>5, <1>6, WritePreserves

LEMMA IssueReadPreserves ==
    ASSUME FinanceInv, NEW r \in FinReqs, NEW i \in Invoices, IssueRead(r, i)
    PROVE  FinanceInv'
<1> USE DEF FinanceInv, IssueRead, Goto
<1>1. FinanceTypeOK'
  BY DEF FinanceTypeOK, Issuing
<1>2. RequestsBacked'
  BY DEF RequestsBacked, PaymentBacked, CreditBacked, FinanceTypeOK
<1>3. Balances'
  BY DEF Balances, NeverUnderstatesDue, BalanceWithinBounds,
     DraftHasNoMoney, CreditKeepsInvoice, InTable
<1> QED BY <1>1, <1>2, <1>3

LEMMA IssueWritePreserves ==
    ASSUME FinanceInv, NEW r \in FinReqs, IssueWrite(r)
    PROVE  FinanceInv'
<1>0. PICK i \in Invoices : i = freq[r].inv
  BY RequestFields DEF FinanceInv, IssueWrite, Issuing
<1> DEFINE new == [invoice[i] EXCEPT !.status = "issued", !.outstanding = invoice[i].total]
<1>1. /\ UNCHANGED <<received, credited, journaled>> /\ ThenAudit(r, i, 0) /\ InTable(i)
      /\ issues' = [issues EXCEPT ![i] = issues[i] + 1]
  BY <1>0 DEF IssueWrite
<1>2. invoice' = [invoice EXCEPT ![i] = new]
  BY <1>0 DEF IssueWrite, FinanceInv, FinanceTypeOK
<1>3. /\ new \in InvoiceRow /\ new.status = "issued" /\ new.total = invoice[i].total
      /\ new.outstanding = invoice[i].total /\ new.paid = invoice[i].paid
  BY RowFacts DEF InvoiceRow, InvoiceStatus
<1>4. invoice'[i] = new
  BY <1>2 DEF FinanceInv, FinanceTypeOK
<1> HIDE DEF new
<1>5. KeepsBacked(i)
  BY <1>1, <1>3, <1>4, RowFacts DEF KeepsBacked, InTable
<1>6. Balanced(i)'
  BY <1>1, <1>3, <1>4, RowFacts DEF Balanced, InTable, InvoiceRow
<1>7. /\ received[i] \in Nat /\ credited[i] \in Nat /\ issues[i] + 1 \in Nat
      /\ received' = [received EXCEPT ![i] = received[i]]
      /\ credited' = [credited EXCEPT ![i] = credited[i]] /\ journaled' = journaled
  BY <1>1, RowFacts
<1> QED BY <1>1, <1>2, <1>3, <1>5, <1>6, <1>7, WritePreserves

LEMMA DeleteReadPreserves ==
    ASSUME FinanceInv, NEW r \in FinReqs, NEW i \in Invoices,
           DeleteRead(r, i)
    PROVE  FinanceInv'
<1> USE FinanceAssumption DEF FinanceInv, DeleteRead, Goto
<1>1. FinanceTypeOK'
  BY DEF FinanceTypeOK, Deleting
<1>2. RequestsBacked'
  BY DEF RequestsBacked, PaymentBacked, CreditBacked, FinanceTypeOK
<1>3. Balances'
  BY DEF Balances, NeverUnderstatesDue, BalanceWithinBounds,
     DraftHasNoMoney, CreditKeepsInvoice, InTable
<1> QED BY <1>1, <1>2, <1>3

LEMMA DeleteWritePreserves ==
    ASSUME FinanceInv, NEW r \in FinReqs, DeleteWrite(r)
    PROVE  FinanceInv'
<1>0. PICK i \in Invoices : i = freq[r].inv
  BY RequestFields DEF FinanceInv, DeleteWrite, Deleting
<1> DEFINE new == [NoInvoice EXCEPT !.status = "deleted"]
<1>1. /\ UNCHANGED <<received, credited, issues, journaled>> /\ ThenAudit(r, i, 0)
      /\ credited[i] = 0 /\ invoice' = [invoice EXCEPT ![i] = new]
  BY <1>0 DEF DeleteWrite
<1>2. new \in InvoiceRow /\ new.status = "deleted"
  BY DEF NoInvoice, InvoiceRow, InvoiceStatus
<1>3. invoice'[i] = new
  BY <1>1 DEF FinanceInv, FinanceTypeOK
<1> HIDE DEF new
<1>4. KeepsBacked(i) /\ Balanced(i)'
  BY <1>1, <1>2, <1>3 DEF KeepsBacked, Balanced, InTable
<1>5. /\ received[i] \in Nat /\ credited[i] \in Nat /\ issues[i] \in Nat
      /\ received' = [received EXCEPT ![i] = received[i]]
      /\ credited' = [credited EXCEPT ![i] = credited[i]]
      /\ issues' = [issues EXCEPT ![i] = issues[i]] /\ journaled' = journaled
  BY <1>1, RowFacts
<1> QED BY <1>1, <1>2, <1>4, <1>5, WritePreserves

LEMMA PayReadPreserves ==
    ASSUME FinanceInv, NEW r \in FinReqs, NEW i \in Invoices, NEW amount \in Amounts,
           PayRead(r, i, amount)
    PROVE  FinanceInv'
<1> USE FinanceAssumption DEF FinanceInv, PayRead, Goto
<1>1. FinanceTypeOK'
  BY DEF FinanceTypeOK, Paying, InvoiceRow, AtLeastZero
<1>2. RequestsBacked'
  BY DEF RequestsBacked, PaymentBacked, CreditBacked, FinanceTypeOK,
     InvoiceRow, AtLeastZero, Balances, BalanceWithinBounds, InTable
<1>3. Balances'
  BY DEF Balances, NeverUnderstatesDue, BalanceWithinBounds,
     DraftHasNoMoney, CreditKeepsInvoice, InTable
<1> QED BY <1>1, <1>2, <1>3

LEMMA PayCommitPreserves ==
    ASSUME FinanceInv, NEW r \in FinReqs, PayCommit(r)
    PROVE  FinanceInv'
<1>0. PICK i \in Invoices : i = freq[r].inv
  BY RequestFields DEF FinanceInv, PayCommit, Paying
<1>1. PICK amount, paid, outstanding \in Nat :
        /\ amount = freq[r].amount /\ paid = freq[r].paid /\ outstanding = freq[r].outstanding
        /\ amount > 0
  BY RequestFields, FinanceAssumption DEF FinanceInv, PayCommit, Paying
<1> DEFINE new == [invoice[i] EXCEPT !.paid = paid, !.outstanding = outstanding]
<1>2. /\ UNCHANGED <<credited, issues, journaled>> /\ ThenAudit(r, i, amount) /\ InTable(i)
      /\ received' = [received EXCEPT ![i] = received[i] + amount]
  BY <1>0, <1>1 DEF PayCommit
<1>3. invoice' = [invoice EXCEPT ![i] = new]
  BY <1>0, <1>1 DEF PayCommit, FinanceInv, FinanceTypeOK
<1>4. /\ new \in InvoiceRow /\ new.status = invoice[i].status /\ new.total = invoice[i].total
      /\ new.outstanding = outstanding /\ new.paid = paid
  BY RowFacts DEF InvoiceRow
<1>5. invoice'[i] = new /\ received'[i] = received[i] + amount
  BY <1>2, <1>3 DEF FinanceInv, FinanceTypeOK
<1>6. /\ invoice[i].status = "issued" /\ invoice[i].total \in Nat
      /\ paid <= received[i] + amount
      /\ outstanding + paid >= invoice[i].total /\ outstanding <= invoice[i].total
  <2>1. PaymentBacked(r)
    BY DEF FinanceInv, RequestsBacked
  <2>2. freq[r].op = "pay"
    BY DEF PayCommit
  <2>3. invoice[i].total \in Nat
    BY RowFacts DEF InvoiceRow
  <2>4. invoice[i].status = "issued"
    BY <1>0, <1>2, <2>1, <2>2 DEF PaymentBacked, InTable
  <2> QED BY <1>0, <1>1, <2>1, <2>2, <2>3, <2>4 DEF PaymentBacked
<1> HIDE DEF new
<1>7. KeepsBacked(i)
  BY <1>2, <1>4, <1>5, <1>6, RowFacts DEF KeepsBacked
<1>8. Balanced(i)'
  <2>1. /\ received[i] \in Nat /\ credited[i] \in Nat /\ credited'[i] = credited[i]
        /\ issues'[i] = issues[i]
    BY <1>2, RowFacts
  <2> QED BY <1>4, <1>5, <1>6, <2>1 DEF Balanced, InTable
<1>9. /\ received[i] + amount \in Nat /\ credited[i] \in Nat /\ issues[i] \in Nat
      /\ credited' = [credited EXCEPT ![i] = credited[i]]
      /\ issues' = [issues EXCEPT ![i] = issues[i]] /\ journaled' = journaled
  BY <1>2, RowFacts
<1> QED BY <1>2, <1>3, <1>4, <1>7, <1>8, <1>9, WritePreserves

LEMMA CreditReadPreserves ==
    ASSUME FinanceInv, NEW r \in FinReqs, NEW i \in Invoices, NEW amount \in Amounts,
           CreditRead(r, i, amount)
    PROVE  FinanceInv'
<1> USE FinanceAssumption DEF FinanceInv, CreditRead, Goto
<1>1. FinanceTypeOK'
  BY DEF FinanceTypeOK, Crediting, InvoiceRow, AtLeastZero
<1>2. RequestsBacked'
  BY DEF RequestsBacked, PaymentBacked, CreditBacked, FinanceTypeOK,
     InvoiceRow, AtLeastZero, Balances, NeverUnderstatesDue, BalanceWithinBounds,
     InTable
<1>3. Balances'
  BY DEF Balances, NeverUnderstatesDue, BalanceWithinBounds,
     DraftHasNoMoney, CreditKeepsInvoice, InTable
<1> QED BY <1>1, <1>2, <1>3

LEMMA CreditCommitPreserves ==
    ASSUME FinanceInv, NEW r \in FinReqs, CreditCommit(r)
    PROVE  FinanceInv'
<1>0. PICK i \in Invoices : i = freq[r].inv
  BY RequestFields DEF FinanceInv, CreditCommit, Crediting
<1>1. PICK amount, outstanding \in Nat :
        amount = freq[r].amount /\ outstanding = freq[r].outstanding /\ amount > 0
  BY RequestFields, FinanceAssumption DEF FinanceInv, CreditCommit, Crediting
<1> DEFINE new == [invoice[i] EXCEPT !.outstanding = outstanding]
<1>2. /\ UNCHANGED <<received, issues, journaled>> /\ ThenAudit(r, i, amount) /\ InTable(i)
      /\ credited' = [credited EXCEPT ![i] = credited[i] + amount]
  BY <1>0, <1>1 DEF CreditCommit
<1>3. invoice' = [invoice EXCEPT ![i] = new]
  BY <1>0, <1>1 DEF CreditCommit, FinanceInv, FinanceTypeOK
<1>4. /\ new \in InvoiceRow /\ new.status = invoice[i].status /\ new.total = invoice[i].total
      /\ new.outstanding = outstanding /\ new.paid = invoice[i].paid
  BY RowFacts DEF InvoiceRow
<1>5. invoice'[i] = new /\ credited'[i] = credited[i] + amount
  BY <1>2, <1>3 DEF FinanceInv, FinanceTypeOK
<1>6. /\ invoice[i].status = "issued" /\ invoice[i].total \in Nat
      /\ outstanding + amount + received[i] + credited[i] >= invoice[i].total
      /\ outstanding <= invoice[i].total
  <2>1. CreditBacked(r)
    BY DEF FinanceInv, RequestsBacked
  <2>2. freq[r].op = "credit"
    BY DEF CreditCommit
  <2>3. invoice[i].total \in Nat
    BY RowFacts DEF InvoiceRow
  <2>4. invoice[i].status = "issued"
    BY <1>0, <1>2, <2>1, <2>2 DEF CreditBacked, InTable
  <2> QED BY <1>0, <1>1, <2>1, <2>2, <2>3, <2>4 DEF CreditBacked
<1> HIDE DEF new
<1>7. KeepsBacked(i)
  BY <1>2, <1>4, <1>5, <1>6, RowFacts DEF KeepsBacked
<1>8. Balanced(i)'
  <2>1. /\ received[i] \in Nat /\ credited[i] \in Nat /\ received'[i] = received[i]
        /\ issues'[i] = issues[i] /\ invoice[i].paid \in Nat /\ invoice[i].paid <= received[i]
    BY <1>2, RowFacts DEF Balanced, InvoiceRow
  <2> QED BY <1>4, <1>5, <1>6, <2>1 DEF Balanced, InTable
<1>9. /\ received[i] \in Nat /\ credited[i] + amount \in Nat /\ issues[i] \in Nat
      /\ received' = [received EXCEPT ![i] = received[i]]
      /\ issues' = [issues EXCEPT ![i] = issues[i]] /\ journaled' = journaled
  BY <1>2, RowFacts
<1> QED BY <1>2, <1>3, <1>4, <1>7, <1>8, <1>9, WritePreserves

\* A request that ends here, having written nothing more, disturbs no balance.
LEMMA EndingPreserves ==
    ASSUME FinanceInv, NEW r \in FinReqs, Goto(r, FIdle),
           journaled' \in [Invoices -> Nat],
           UNCHANGED <<invoice, received, credited, issues>>
    PROVE  FinanceInv'
<1> USE DEF FinanceInv, Goto
<1>1. FinanceTypeOK'
  BY DEF FinanceTypeOK
<1>2. RequestsBacked'
  BY DEF RequestsBacked, PaymentBacked, CreditBacked, FinanceTypeOK, FIdle
<1>3. Balances'
  BY DEF Balances, NeverUnderstatesDue, BalanceWithinBounds,
     DraftHasNoMoney, CreditKeepsInvoice, InTable
<1> QED BY <1>1, <1>2, <1>3

LEMMA AuditPreserves ==
    ASSUME FinanceInv, NEW r \in FinReqs, Audit(r)
    PROVE  FinanceInv'
<1>1. freq[r].inv \in Invoices /\ freq[r].amount \in Nat
  BY RequestFields DEF FinanceInv, Audit, Auditing
<1>2. journaled' \in [Invoices -> Nat]
  BY <1>1 DEF FinanceInv, FinanceTypeOK, Audit
<1> QED BY <1>2, EndingPreserves DEF Audit

-----------------------------------------------------------------------------
\* Every step of every request preserves the inductive invariant.
THEOREM NextPreservesFinanceInv ==
    FinanceInv /\ [Next]_financeVars => FinanceInv'
<1> SUFFICES ASSUME FinanceInv, [Next]_financeVars PROVE FinanceInv'
  OBVIOUS
<1>1. CASE UNCHANGED financeVars
  BY <1>1 DEF financeVars, FinanceInv, FinanceTypeOK, RequestsBacked,
     PaymentBacked, CreditBacked, Balances, NeverUnderstatesDue,
     BalanceWithinBounds, DraftHasNoMoney, CreditKeepsInvoice, InTable
<1>2. ASSUME NEW r \in FinReqs, ReqStarts(r) PROVE FinanceInv'
  BY <1>2, CreateInvoicePreserves, IssueReadPreserves, DeleteReadPreserves,
     PayReadPreserves, CreditReadPreserves DEF ReqStarts
<1>3. ASSUME NEW r \in FinReqs, ReqContinues(r) PROVE FinanceInv'
  <2>1. CASE DeleteRestricted(r) \/ RowGone(r)
    BY <2>1, EndingPreserves
    DEF DeleteRestricted, RowGone, FinanceInv, FinanceTypeOK
  <2> QED
    BY <1>3, <2>1, IssueWritePreserves, DeleteWritePreserves,
       PayCommitPreserves, CreditCommitPreserves, AuditPreserves
    DEF ReqContinues
<1>4. ASSUME NEW r \in FinReqs, ReqFails(r) PROVE FinanceInv'
  BY <1>4, EndingPreserves DEF ReqFails, FinanceInv, FinanceTypeOK
<1> QED BY <1>1, <1>2, <1>3, <1>4 DEF Next

\* The inductive invariant holds in every reachable state.
THEOREM FinanceInvariant == Spec => []FinanceInv
  BY InitFinanceInv, NextPreservesFinanceInv, PTL DEF Spec

\* Every variable keeps its type (the tables and the requests of Finance.tla).
THEOREM FinanceTypeCorrect == Spec => []FinanceTypeOK
  BY FinanceInvariant, PTL DEF FinanceInv

\* However many requests overlap, fail or are lost, no issued invoice shows
\* less outstanding than its total less the money recorded for it.
THEOREM DueIsNeverUnderstated == Spec => []NeverUnderstatesDue
  BY FinanceInvariant, PTL DEF FinanceInv, Balances

\* paidAmount never exceeds what was received, nor outstanding the total.
THEOREM BalancesStayWithinBounds == Spec => []BalanceWithinBounds
  BY FinanceInvariant, PTL DEF FinanceInv, Balances

\* No payment, credit note or balance reaches an invoice before it is issued.
THEOREM DraftsHaveNoMoney == Spec => []DraftHasNoMoney
  BY FinanceInvariant, PTL DEF FinanceInv, Balances

\* An invoice with a credit note is never deleted.
THEOREM CreditedInvoicesAreKept == Spec => []CreditKeepsInvoice
  BY FinanceInvariant, PTL DEF FinanceInv, Balances

-----------------------------------------------------------------------------
\* What request r is about to report on invoice i.
Pending(r, i) ==
    IF freq[r].op = "audit" /\ freq[r].inv = i THEN freq[r].amount ELSE 0

\* When one request moves, what awaits its audit entry changes by what that
\* request has to report.
LEMMA AwaitingMoves ==
    ASSUME FinanceTypeOK, FinanceTypeOK', NEW i \in Invoices, NEW r \in FinReqs,
           \A x \in FinReqs \ {r} : freq'[x] = freq[x]
    PROVE  /\ AwaitingAudit(i) \in Nat /\ Pending(r, i) \in Nat /\ Pending(r, i)' \in Nat
           /\ AwaitingAudit(i)' = AwaitingAudit(i) - Pending(r, i) + Pending(r, i)'
<1> DEFINE Others == Auditors(i) \ {r}
           before == [x \in Auditors(i) |-> freq[x].amount]
           after == [x \in Auditors(i)' |-> freq'[x].amount]
           rest == SumFunctionOnSet(before, Others)
<1>1. /\ \A x \in Auditors(i) : freq[x].amount \in Nat
      /\ \A x \in Auditors(i)' : freq'[x].amount \in Nat
  <2>1. \A x \in FinReqs : freq[x].op = "audit" => freq[x].amount \in Nat
    BY RequestFields DEF Auditing
  <2>2. \A x \in FinReqs : freq'[x].op = "audit" => freq'[x].amount \in Nat
    BY DEF FinanceTypeOK, FIdle, Issuing, Deleting, Paying, Crediting, Auditing
  <2> QED BY <2>1, <2>2 DEF Auditors
<1>2. IsFiniteSet(Auditors(i)) /\ IsFiniteSet(Auditors(i)') /\ IsFiniteSet(Others)
  <2>1. Auditors(i) \subseteq FinReqs /\ Auditors(i)' \subseteq FinReqs
    BY DEF Auditors
  <2> QED BY <2>1, FinanceAssumption, FS_Subset
<1>3. Others = Auditors(i)' \ {r}
  BY DEF Auditors
<1>4. Pending(r, i) \in Nat /\ Pending(r, i)' \in Nat
  BY <1>1 DEF Pending, Auditors
<1>5. rest \in Nat /\ SumFunctionOnSet(after, Others) = rest
  <2>0. Others \subseteq FinReqs \ {r}
    BY DEF Auditors
  <2>1. \A x \in Others : before[x] \in Nat /\ after[x] = before[x]
    <3> SUFFICES ASSUME NEW x \in Others PROVE before[x] \in Nat /\ after[x] = before[x]
      OBVIOUS
    <3>1. x \in Auditors(i) /\ x \in Auditors(i)' /\ freq'[x] = freq[x]
      BY <1>3, <2>0
    <3> QED BY <1>1, <3>1
  <2> HIDE DEF before, after, Others
  <2>2. SumFunctionOnSet(before, Others) \in Nat
    BY <1>2, <2>1, SumType
  <2>3. SumFunctionOnSet(before, Others) = SumFunctionOnSet(after, Others)
    BY <1>2, <2>1, SumAgree
  <2> QED BY <2>2, <2>3
<1>6. AwaitingAudit(i) = rest + Pending(r, i)
  <2>1. CASE r \in Auditors(i)
    <3>1. SumFunctionOnSet(before, Auditors(i)) = before[r] + rest
      BY <1>1, <1>2, <2>1, SumSplit
    <3> QED BY <1>1, <1>5, <2>1, <3>1 DEF AwaitingAudit, Pending, Auditors
  <2>2. CASE r \notin Auditors(i)
    <3>1. Others = Auditors(i) /\ Pending(r, i) = 0
      BY <2>2 DEF Auditors, Pending
    <3>2. AwaitingAudit(i) = SumFunctionOnSet(before, Auditors(i))
      BY DEF AwaitingAudit
    <3> HIDE DEF before, Others
    <3>3. AwaitingAudit(i) = rest
      BY <3>1, <3>2
    <3> QED BY <1>5, <3>1, <3>3
  <2> QED BY <2>1, <2>2
<1>7. AwaitingAudit(i)' = rest + Pending(r, i)'
  <2>0. AwaitingAudit(i)' = SumFunctionOnSet(after, Auditors(i)')
    BY DEF AwaitingAudit
  <2>1. CASE r \in Auditors(i)'
    <3>1. SumFunctionOnSet(after, Auditors(i)') = after[r] + SumFunctionOnSet(after, Others)
      BY <1>1, <1>2, <1>3, <2>1, SumSplit
    <3>2. after[r] = Pending(r, i)'
      BY <2>1 DEF Pending, Auditors
    <3> QED BY <1>4, <1>5, <2>0, <3>1, <3>2
  <2>2. CASE r \notin Auditors(i)'
    <3>1. Others = Auditors(i)' /\ Pending(r, i)' = 0
      BY <1>3, <2>2 DEF Auditors, Pending
    <3> HIDE DEF before, after, Others
    <3>2. AwaitingAudit(i)' = SumFunctionOnSet(after, Others)
      BY <2>0, <3>1
    <3> QED BY <1>5, <3>1, <3>2
  <2> QED BY <2>1, <2>2
<1> QED BY <1>4, <1>5, <1>6, <1>7

\* A step keeps the trail reconciled when what it commits on an invoice and what
\* it has already reported leave the request with the difference to report.
LEMMA ReconcilesAfter ==
    ASSUME FinanceInv, FinanceInv', AuditTrailReconciles, NEW r \in FinReqs,
           \A x \in FinReqs \ {r} : freq'[x] = freq[x],
           \A i \in Invoices :
              LET left == received'[i] + credited'[i] - received[i] - credited[i]
                              + journaled[i] - journaled'[i] + Pending(r, i)
              IN  /\ Pending(r, i)' <= left
                  /\ ~FinReqsFail => Pending(r, i)' = left
    PROVE  AuditTrailReconciles'
<1> SUFFICES ASSUME NEW i \in Invoices
             PROVE  LET known == journaled'[i] + AwaitingAudit(i)'
                    IN  /\ known <= received'[i] + credited'[i]
                        /\ ~FinReqsFail => known = received'[i] + credited'[i]
  BY DEF AuditTrailReconciles
<1>1. /\ received[i] \in Nat /\ credited[i] \in Nat /\ journaled[i] \in Nat
      /\ received'[i] \in Nat /\ credited'[i] \in Nat /\ journaled'[i] \in Nat
  BY DEF FinanceInv, FinanceTypeOK
<1>2. /\ AwaitingAudit(i) \in Nat /\ Pending(r, i) \in Nat /\ Pending(r, i)' \in Nat
      /\ AwaitingAudit(i)' = AwaitingAudit(i) - Pending(r, i) + Pending(r, i)'
  BY AwaitingMoves DEF FinanceInv
<1>3. LET known == journaled[i] + AwaitingAudit(i)
      IN  /\ known <= received[i] + credited[i]
          /\ ~FinReqsFail => known = received[i] + credited[i]
  BY DEF AuditTrailReconciles
<1>4. LET left == received'[i] + credited'[i] - received[i] - credited[i]
                      + journaled[i] - journaled'[i] + Pending(r, i)
      IN  /\ Pending(r, i)' <= left
          /\ ~FinReqsFail => Pending(r, i)' = left
  OBVIOUS
<1> HIDE DEF Pending
<1> QED BY <1>1, <1>2, <1>3, <1>4

LEMMA NextReconciles ==
    ASSUME FinanceInv, FinanceInv', AuditTrailReconciles, [Next]_financeVars
    PROVE  AuditTrailReconciles'
<1>1. CASE UNCHANGED financeVars
  BY <1>1 DEF financeVars, AuditTrailReconciles, AwaitingAudit, Auditors
<1>2. ASSUME NEW r \in FinReqs, ReqStarts(r) \/ ReqContinues(r) \/ ReqFails(r)
      PROVE  AuditTrailReconciles'
  <2> USE DEF Goto, ThenAudit
  <2>0. freq \in [FinReqs -> {FIdle} \cup Issuing \cup Deleting \cup Paying
                    \cup Crediting \cup Auditing]
    BY DEF FinanceInv, FinanceTypeOK
  <2>1. \A x \in FinReqs \ {r} : freq'[x] = freq[x]
    BY <1>2, <2>0
    DEF ReqStarts, ReqContinues, ReqFails, CreateInvoice, IssueRead, IssueWrite, DeleteRead,
        DeleteWrite, DeleteRestricted, PayRead, PayCommit, CreditRead, CreditCommit, RowGone,
        Audit
  <2>2. /\ \A i \in Invoices : received[i] \in Nat /\ credited[i] \in Nat /\ journaled[i] \in Nat
        /\ received \in [Invoices -> Nat] /\ credited \in [Invoices -> Nat]
        /\ journaled \in [Invoices -> Nat]
        /\ freq[r].op = "audit" => freq[r].inv \in Invoices /\ freq[r].amount \in Nat
        /\ freq[r].op = "pay" => freq[r].inv \in Invoices /\ freq[r].amount \in Nat
        /\ freq[r].op = "credit" => freq[r].inv \in Invoices /\ freq[r].amount \in Nat
    BY RequestFields, FinanceAssumption
    DEF FinanceInv, FinanceTypeOK, Auditing, Paying, Crediting
  <2> DEFINE Left(i) == received'[i] + credited'[i] - received[i] - credited[i]
                            + journaled[i] - journaled'[i] + Pending(r, i)
  <2>3. CASE ReqStarts(r)
    <3>1. /\ UNCHANGED <<received, credited, journaled>> /\ freq[r] = FIdle
          /\ freq'[r].op = "audit" => freq'[r].amount = 0
      BY <2>0, <2>3
      DEF ReqStarts, CreateInvoice, IssueRead, DeleteRead, PayRead, CreditRead
    <3>2. \A i \in Invoices : Left(i) = 0 /\ Pending(r, i)' = 0
      BY <2>2, <3>1 DEF Pending, FIdle
    <3> QED BY <2>1, <3>2, ReconcilesAfter
  <2>4. CASE IssueWrite(r) \/ DeleteWrite(r) \/ DeleteRestricted(r) \/ RowGone(r)
    <3>1. /\ UNCHANGED <<received, credited, journaled>> /\ freq[r].op # "audit"
          /\ freq'[r].op = "audit" => freq'[r].amount = 0
      BY <2>0, <2>4 DEF IssueWrite, DeleteWrite, DeleteRestricted, RowGone, FIdle
    <3>2. \A i \in Invoices : Left(i) = 0 /\ Pending(r, i)' = 0
      BY <2>2, <3>1 DEF Pending
    <3> QED BY <2>1, <3>2, ReconcilesAfter
  <2>5. CASE PayCommit(r) \/ CreditCommit(r)
    <3>1. freq'[r] = [op |-> "audit", inv |-> freq[r].inv, amount |-> freq[r].amount]
      BY <2>0, <2>5 DEF PayCommit, CreditCommit
    <3>2. \A i \in Invoices : Left(i) = Pending(r, i)'
      BY <2>2, <2>5, <3>1 DEF PayCommit, CreditCommit, Pending
    <3>3. \A i \in Invoices : Pending(r, i)' \in Nat
      BY <2>2, <2>5, <3>1 DEF PayCommit, CreditCommit, Pending
    <3> QED BY <2>1, <3>2, <3>3, ReconcilesAfter
  <2>6. CASE Audit(r)
    <3>1. freq'[r] = FIdle
      BY <2>0, <2>6 DEF Audit
    <3>2. \A i \in Invoices : Left(i) = 0 /\ Pending(r, i)' = 0
      BY <2>2, <2>6, <3>1 DEF Audit, Pending, FIdle
    <3> QED BY <2>1, <3>2, ReconcilesAfter
  <2>7. CASE ReqFails(r)
    <3>1. freq'[r] = FIdle /\ FinReqsFail
      BY <2>0, <2>7 DEF ReqFails
    <3>2. \A i \in Invoices : 0 <= Left(i) /\ Pending(r, i)' = 0
      BY <2>2, <2>7, <3>1 DEF ReqFails, Pending, FIdle
    <3> QED BY <2>1, <3>1, <3>2, ReconcilesAfter
  <2> QED BY <1>2, <2>3, <2>4, <2>5, <2>6, <2>7 DEF ReqContinues
<1> QED BY <1>1, <1>2 DEF Next

\* The audit log of money never reports what was not committed, and unless a
\* request fails it lacks only what requests in flight are about to report:
\* audit() runs after the transaction, and any number of them may overlap.
THEOREM AuditTrailStaysReconciled == Spec => []AuditTrailReconciles
<1>1. Init => AuditTrailReconciles
  <2> SUFFICES ASSUME Init, NEW i \in Invoices
               PROVE  AwaitingAudit(i) = 0
    BY DEF Init, AuditTrailReconciles, Zero
  <2>1. Auditors(i) = {}
    BY DEF Init, Auditors, FIdle
  <2>2. SumFunctionOnSet([r \in {} |-> freq[r].amount], {}) = 0
    BY FS_EmptySet, SumZero
  <2> QED BY <2>1, <2>2 DEF AwaitingAudit
<1>2. FinanceInv /\ FinanceInv' /\ AuditTrailReconciles /\ [Next]_financeVars
        => AuditTrailReconciles'
  BY NextReconciles
<1> QED BY <1>1, <1>2, FinanceInvariant, PTL DEF Spec

-----------------------------------------------------------------------------
\* With one request at a time nothing read is stale when it is used.
Fresh(r) ==
    LET i == freq[r].inv IN
    /\ freq[r].op \in {"issue", "delete"} => invoice[i].status = "draft"
    /\ freq[r].op \in {"pay", "credit"} => invoice[i].status = "issued"
    /\ freq[r].op = "pay" =>
        /\ freq[r].paid = received[i] + freq[r].amount
        /\ freq[r].outstanding = AtLeastZero(invoice[i].total - freq[r].paid)

SerialInv ==
    /\ FinanceInv
    /\ PaidIsReceived /\ IssuedOnce /\ IssuedIsNotDeleted /\ PaymentsReduceBalance
    /\ \A r \in FinReqs : Fresh(r)

LEMMA SerialNext ==
    ASSUME NEW r, FinReqs = {r}, SerialInv, [Next]_financeVars
    PROVE  SerialInv'
<1> USE DEF SerialInv, Fresh, PaidIsReceived, IssuedOnce, IssuedIsNotDeleted,
            PaymentsReduceBalance
<1>0. FinanceInv' /\ FinanceTypeOK /\ DraftHasNoMoney
  BY NextPreservesFinanceInv DEF FinanceInv, Balances
<1> USE DEF Goto, ThenAudit, FinanceTypeOK, InvoiceRow
<1>1. CASE UNCHANGED financeVars
  BY <1>0, <1>1 DEF financeVars
<1>2. ASSUME NEW i \in Invoices, NEW total \in Totals, CreateInvoice(r, i, total)
      PROVE  SerialInv'
  BY <1>0, <1>2, FinanceAssumption DEF CreateInvoice, DraftHasNoMoney
<1>3. ASSUME NEW i \in Invoices, IssueRead(r, i) \/ DeleteRead(r, i)
      PROVE  SerialInv'
  BY <1>0, <1>3 DEF IssueRead, DeleteRead, InTable
<1>4. ASSUME NEW i \in Invoices, NEW amount \in Amounts,
             PayRead(r, i, amount) \/ CreditRead(r, i, amount)
      PROVE  SerialInv'
  BY <1>0, <1>4, FinanceAssumption DEF PayRead, CreditRead
<1>5. CASE IssueWrite(r)
  <2>1. PICK i \in Invoices : i = freq[r].inv
    BY <1>0, <1>5, RequestFields DEF IssueWrite, Issuing
  <2>2. /\ invoice[i].status = "draft" /\ invoice[i].total \in Nat
        /\ received[i] = 0 /\ issues[i] = 0 /\ invoice[i].paid = 0
    BY <1>0, <1>5, <2>1 DEF IssueWrite, DraftHasNoMoney
  <2>3. /\ invoice'[i].status = "issued" /\ invoice'[i].outstanding = invoice[i].total
        /\ invoice'[i].total = invoice[i].total /\ invoice'[i].paid = 0
        /\ issues'[i] = 1 /\ freq'[r].op = "audit"
    BY <1>0, <1>5, <2>1, <2>2 DEF IssueWrite
  <2>4. /\ \A j \in Invoices \ {i} : invoice'[j] = invoice[j] /\ issues'[j] = issues[j]
        /\ UNCHANGED <<received, credited>>
    BY <1>0, <1>5, <2>1 DEF IssueWrite
  <2>5. /\ PaidIsReceived' /\ IssuedOnce' /\ IssuedIsNotDeleted'
    BY <2>2, <2>3, <2>4
  <2>6. PaymentsReduceBalance'
    BY <2>2, <2>3, <2>4 DEF AtLeastZero
  <2>7. Fresh(r)'
    BY <2>3
  <2> QED BY <1>0, <2>5, <2>6, <2>7
<1>6. CASE DeleteWrite(r)
  BY <1>0, <1>6, RequestFields DEF DeleteWrite, DraftHasNoMoney, NoInvoice, Deleting
<1>7. CASE PayCommit(r)
  <2>1. PICK i \in Invoices : i = freq[r].inv
    BY <1>0, <1>7, RequestFields DEF PayCommit, Paying
  <2>2. /\ invoice[i].status = "issued"
        /\ freq[r].paid = received[i] + freq[r].amount
        /\ freq[r].outstanding = AtLeastZero(invoice[i].total - freq[r].paid)
    BY <1>7, <2>1 DEF PayCommit
  <2>3. /\ invoice'[i].status = "issued" /\ invoice'[i].total = invoice[i].total
        /\ invoice'[i].paid = freq[r].paid /\ invoice'[i].outstanding = freq[r].outstanding
        /\ received'[i] = received[i] + freq[r].amount
    BY <1>0, <1>7, <2>1, <2>2 DEF PayCommit
  <2>4. /\ \A j \in Invoices \ {i} : invoice'[j] = invoice[j] /\ received'[j] = received[j]
        /\ UNCHANGED <<credited, issues>> /\ freq'[r].op = "audit"
    BY <1>0, <1>7, <2>1 DEF PayCommit
  <2>5. PaidIsReceived' /\ IssuedOnce' /\ IssuedIsNotDeleted'
    BY <2>2, <2>3, <2>4
  <2>6. PaymentsReduceBalance'
    BY <2>2, <2>3, <2>4
  <2>7. Fresh(r)'
    BY <2>4
  <2> QED BY <1>0, <2>5, <2>6, <2>7
<1>8. CASE CreditCommit(r)
  BY <1>0, <1>8, RequestFields, FinanceAssumption DEF CreditCommit, Crediting
<1>9. CASE DeleteRestricted(r) \/ RowGone(r) \/ Audit(r) \/ ReqFails(r)
  BY <1>0, <1>9 DEF DeleteRestricted, RowGone, Audit, ReqFails, FIdle
<1> QED
  BY <1>1, <1>2, <1>3, <1>4, <1>5, <1>6, <1>7, <1>8, <1>9
  DEF Next, ReqStarts, ReqContinues

LEMMA SerialInvariant ==
    ASSUME NEW r, FinReqs = {r}
    PROVE  Spec => []SerialInv
<1>1. Init => SerialInv
  BY InitFinanceInv DEF Init, SerialInv, Fresh, PaidIsReceived, IssuedOnce,
     IssuedIsNotDeleted, PaymentsReduceBalance, NoInvoice, Zero, FIdle
<1>2. SerialInv /\ [Next]_financeVars => SerialInv'
  BY SerialNext
<1> QED BY <1>1, <1>2, PTL DEF Spec

\* Handled one at a time, requests keep paidAmount equal to the payments
\* received: only an overlap of two payments can lose one.
THEOREM SerialPaymentsAreExact ==
    ASSUME NEW r, FinReqs = {r}
    PROVE  Spec => []PaidIsReceived
<1>1. SerialInv => PaidIsReceived
  BY DEF SerialInv
<1> QED BY <1>1, SerialInvariant, PTL

\* Handled one at a time, requests never delete an invoice that was issued:
\* only an overlap of a deletion with an issue can.
THEOREM SerialKeepsIssued ==
    ASSUME NEW r, FinReqs = {r}
    PROVE  Spec => []IssuedIsNotDeleted
<1>1. SerialInv => IssuedIsNotDeleted
  BY DEF SerialInv
<1> QED BY <1>1, SerialInvariant, PTL

\* Handled one at a time, requests issue an invoice once: only two overlapping
\* issues can set the full balance again.
THEOREM SerialIssuesOnce ==
    ASSUME NEW r, FinReqs = {r}
    PROVE  Spec => []IssuedOnce
<1>1. SerialInv => IssuedOnce
  BY DEF SerialInv
<1> QED BY <1>1, SerialInvariant, PTL

\* Handled one at a time, requests keep the outstanding balance at the total less
\* the payments received, until a credit note is written: a later payment sets
\* the balance from total and paidAmount alone and forgets the credit note.
THEOREM SerialPaymentsReduceBalance ==
    ASSUME NEW r, FinReqs = {r}
    PROVE  Spec => []PaymentsReduceBalance
<1>1. SerialInv => PaymentsReduceBalance
  BY DEF SerialInv
<1> QED BY <1>1, SerialInvariant, PTL
=============================================================================
