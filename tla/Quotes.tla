------------------------------- MODULE Quotes -------------------------------
(***************************************************************************)
(* Quote requests (RFQs) and quotes: quotes/quotes.service.ts and the      *)
(* quote handlers of portal/portal.service.ts.                             *)
(*                                                                         *)
(* A request is a slot of QuoteReqs.  Between two awaits it is a record of *)
(* what it read and what it will do next; other requests run in between.   *)
(* Every Prisma call is one atomic step.  Rows are never deleted, so a     *)
(* check that a row exists cannot become stale; a check of its status can. *)
(***************************************************************************)
EXTENDS Integers

CONSTANTS
    Rfqs,           \* ids of quote requests
    Quotes,         \* ids of quotes
    QuoteReqs,      \* concurrent HTTP requests on RFQs and quotes
    NoRow,          \* a null reference
    QuoteReqsFail   \* TRUE: a request may die between two of its statements

ASSUME QuotesAssumption ==
    /\ NoRow \notin Rfqs \cup Quotes
    /\ QuoteReqsFail \in BOOLEAN

VARIABLES
    rfq,        \* rfq[f]: status of quote request f, "none" before creation
    quote,      \* quote[q]: row of quote q
    qheld,      \* history: the statuses quote q has held
    marked,     \* history: the RFQs that createQuote has set to 'quoted'
    qreq        \* qreq[r]: what request r has read and is about to write

quoteVars == <<rfq, quote, qheld, marked, qreq>>

-----------------------------------------------------------------------------
RfqStatus == {"received", "in_review", "quoted", "closed"}
QuoteStatus == {"draft", "sent", "accepted", "declined"}

\* Mutant: a declined quote may be taken up again as a draft.
QuoteEdgesReopen ==
    {<<"draft", "sent">>, <<"sent", "accepted">>, <<"sent", "declined">>,
     <<"declined", "draft">>}

\* sendQuote, acceptQuote and declineQuote
QuoteEdges == {<<"draft", "sent">>, <<"sent", "accepted">>, <<"sent", "declined">>}

QuoteRow == [family : Quotes \cup {NoRow}, version : Nat,
             rfq : Rfqs \cup {NoRow}, status : QuoteStatus \cup {"none"}]

NoQuote == [family |-> NoRow, version |-> 0, rfq |-> NoRow, status |-> "none"]

QuoteExists(q) == quote[q].status # "none"
RfqExists(f) == rfq[f] # "none"
Family(q) == {p \in Quotes : quote[p].family = quote[q].family}

QIdle == [op |-> "idle"]
CreatingQuote == [op : {"create"}, rfq : Rfqs \cup {NoRow}]
MarkingRfq == [op : {"mark"}, rfq : Rfqs]
CreatingVersion == [op : {"version"}, family : Quotes, rfq : Rfqs \cup {NoRow},
                    next : Nat]
SettingStatus == [op : {"status"}, quote : Quotes, to : QuoteStatus]

QuotesTypeOK ==
    /\ rfq \in [Rfqs -> RfqStatus \cup {"none"}]
    /\ quote \in [Quotes -> QuoteRow]
    /\ qheld \in [Quotes -> SUBSET QuoteStatus]
    /\ marked \subseteq Rfqs
    /\ qreq \in [QuoteReqs -> {QIdle} \cup CreatingQuote \cup MarkingRfq
                    \cup CreatingVersion \cup SettingStatus]

QuotesInit ==
    /\ rfq = [f \in Rfqs |-> "none"]
    /\ quote = [q \in Quotes |-> NoQuote]
    /\ qheld = [q \in Quotes |-> {}]
    /\ marked = {}
    /\ qreq = [r \in QuoteReqs |-> QIdle]

-----------------------------------------------------------------------------
QGoto(r, next) == qreq' = [qreq EXCEPT ![r] = next]

InsertQuote(q, row) ==
    /\ ~QuoteExists(q)
    /\ quote' = [quote EXCEPT ![q] = row]
    /\ qheld' = [qheld EXCEPT ![q] = {row.status}]

\* Mutant: the row is inserted with a status the column does not have.
CreateRfqUnlisted(f) ==
    /\ ~RfqExists(f)
    /\ rfq' = [rfq EXCEPT ![f] = "submitted"]
    /\ UNCHANGED <<quote, qheld, marked, qreq>>

\* createRfq and submitPortalRfq insert a row with the column's default status.
CreateRfq(f) ==
    /\ ~RfqExists(f)
    /\ rfq' = [rfq EXCEPT ![f] = "received"]
    /\ UNCHANGED <<quote, qheld, marked, qreq>>

\* requireRfq only finds the row and the update is by id, so the two statements
\* are one step; a request that leaves the status out changes no status.
UpdateRfq(f, to) ==
    /\ RfqExists(f)
    /\ rfq' = [rfq EXCEPT ![f] = to]
    /\ UNCHANGED <<quote, qheld, marked, qreq>>

-----------------------------------------------------------------------------
\* Mutant: createQuote does not look for the RFQ it names.
CreateQuoteReadUnchecked(r, f) ==
    /\ qreq[r] = QIdle
    /\ QGoto(r, [op |-> "create", rfq |-> f])
    /\ UNCHANGED <<rfq, quote, qheld, marked>>

\* Mutant: createQuote returns without marking the RFQ.
CreateQuoteInsertOnly(r, q) ==
    /\ qreq[r].op = "create"
    /\ InsertQuote(q, [family |-> q, version |-> 1, rfq |-> qreq[r].rfq,
                       status |-> "draft"])
    /\ QGoto(r, QIdle)
    /\ UNCHANGED <<rfq, marked>>

\* createQuote: check the RFQ, insert version 1 of a new family, then mark the
\* RFQ in a separate statement.  A family is named by its first quote.
CreateQuoteRead(r, f) ==
    /\ qreq[r] = QIdle
    /\ f # NoRow => RfqExists(f)
    /\ QGoto(r, [op |-> "create", rfq |-> f])
    /\ UNCHANGED <<rfq, quote, qheld, marked>>

CreateQuoteInsert(r, q) ==
    /\ qreq[r].op = "create"
    /\ InsertQuote(q, [family |-> q, version |-> 1, rfq |-> qreq[r].rfq,
                       status |-> "draft"])
    /\ QGoto(r, IF qreq[r].rfq = NoRow THEN QIdle
                ELSE [op |-> "mark", rfq |-> qreq[r].rfq])
    /\ UNCHANGED <<rfq, marked>>

CreateQuoteMarkRfq(r) ==
    /\ qreq[r].op = "mark"
    /\ rfq' = [rfq EXCEPT ![qreq[r].rfq] = "quoted"]
    /\ marked' = marked \cup {qreq[r].rfq}
    /\ QGoto(r, QIdle)
    /\ UNCHANGED <<quote, qheld>>

-----------------------------------------------------------------------------
\* createVersion reads the source quote and then the newest of its family; what
\* it uses of the source never changes, so the two reads are one step.
CreateVersionRead(r, q) ==
    /\ qreq[r] = QIdle
    /\ QuoteExists(q)
    /\ \E latest \in Family(q) :
        /\ \A p \in Family(q) : quote[p].version <= quote[latest].version
        /\ QGoto(r, [op |-> "version", family |-> quote[q].family,
                     rfq |-> quote[q].rfq, next |-> quote[latest].version + 1])
    /\ UNCHANGED <<rfq, quote, qheld, marked>>

\* Mutant: without the unique constraint.
VersionNeverTaken(family, n) == FALSE

\* @@unique([quoteFamilyId, versionNumber])
VersionTaken(family, n) ==
    \E p \in Quotes : quote[p].family = family /\ quote[p].version = n

CreateVersionInsert(r, q) ==
    /\ qreq[r].op = "version"
    /\ ~VersionTaken(qreq[r].family, qreq[r].next)
    /\ InsertQuote(q, [family |-> qreq[r].family, version |-> qreq[r].next,
                       rfq |-> qreq[r].rfq, status |-> "draft"])
    /\ QGoto(r, QIdle)
    /\ UNCHANGED <<rfq, marked>>

CreateVersionConflict(r) ==
    /\ qreq[r].op = "version"
    /\ VersionTaken(qreq[r].family, qreq[r].next)
    /\ QGoto(r, QIdle)
    /\ UNCHANGED <<rfq, quote, qheld, marked>>

-----------------------------------------------------------------------------
\* Mutant: the status the edge starts from is not checked.
SetStatusReadUnchecked(r, q, from, to) ==
    /\ qreq[r] = QIdle
    /\ QuoteExists(q)
    /\ QGoto(r, [op |-> "status", quote |-> q, to |-> to])
    /\ UNCHANGED <<rfq, quote, qheld, marked>>

\* setQuoteStatus, and acceptQuote and declineQuote of the portal: read the
\* row, refuse unless it has the status the edge starts from, then update it
\* by id, whatever status it has by then.
SetStatusRead(r, q, from, to) ==
    /\ qreq[r] = QIdle
    /\ quote[q].status = from
    /\ QGoto(r, [op |-> "status", quote |-> q, to |-> to])
    /\ UNCHANGED <<rfq, quote, qheld, marked>>

SetStatusWrite(r) ==
    /\ qreq[r].op = "status"
    /\ quote' = [quote EXCEPT ![qreq[r].quote].status = qreq[r].to]
    /\ qheld' = [qheld EXCEPT ![qreq[r].quote] = @ \cup {qreq[r].to}]
    /\ QGoto(r, QIdle)
    /\ UNCHANGED <<rfq, marked>>

-----------------------------------------------------------------------------
\* The process dies, or a statement fails: nothing already written is undone.
QuoteReqFails(r) ==
    /\ QuoteReqsFail
    /\ qreq[r] # QIdle
    /\ QGoto(r, QIdle)
    /\ UNCHANGED <<rfq, quote, qheld, marked>>

\* The statements a request that has read its rows still has to run.
QuoteReqContinues(r) ==
    \/ \E q \in Quotes : CreateQuoteInsert(r, q)
    \/ CreateQuoteMarkRfq(r)
    \/ \E q \in Quotes : CreateVersionInsert(r, q)
    \/ CreateVersionConflict(r)
    \/ SetStatusWrite(r)

QuoteReqStarts(r) ==
    \/ \E f \in Rfqs \cup {NoRow} : CreateQuoteRead(r, f)
    \/ \E q \in Quotes : CreateVersionRead(r, q)
    \/ \E q \in Quotes, edge \in QuoteEdges : SetStatusRead(r, q, edge[1], edge[2])

QuotesNext ==
    \/ \E f \in Rfqs : CreateRfq(f)
    \/ \E f \in Rfqs, to \in RfqStatus : UpdateRfq(f, to)
    \/ \E r \in QuoteReqs :
        QuoteReqStarts(r) \/ QuoteReqContinues(r) \/ QuoteReqFails(r)

QuotesSpec == QuotesInit /\ [][QuotesNext]_quoteVars

\* The event loop resumes every handler whose database call has returned.
QuotesFairness == \A r \in QuoteReqs : WF_quoteVars(QuoteReqContinues(r))

QuotesFairSpec == QuotesSpec /\ QuotesFairness

-----------------------------------------------------------------------------
QuotePath == INSTANCE StatusPath WITH
    Entities <- Quotes, Opening <- {"draft"}, Edges <- QuoteEdges, held <- qheld

\* Every status a quote reaches follows one it really held, in whatever order
\* concurrent send, accept and decline requests read and write it: no quote is
\* accepted or declined that was never sent (quotes.service.ts setQuoteStatus).
QuotesFollowPath == QuotePath!Spec

\* The versions of a family are numbered 1, 2, ... without gap or duplicate,
\* although two createVersion requests may read the same latest version.
VersionsContiguous ==
    \A q \in Quotes : QuoteExists(q) =>
        /\ \A p \in Family(q) : quote[p].version = quote[q].version => p = q
        /\ \/ quote[q].version = 1
           \/ \E p \in Family(q) : quote[p].version = quote[q].version - 1

\* All versions of a family answer the same RFQ, and it exists: createVersion
\* copies it from whichever version it was called on.
FamilyAnswersOneRfq ==
    \A q \in Quotes : QuoteExists(q) =>
        /\ \A p \in Family(q) : quote[p].rfq = quote[q].rfq
        /\ quote[q].rfq # NoRow => RfqExists(quote[q].rfq)

\* A quote that has left draft does not return to it (no step writes 'draft' to
\* an existing row), and no step moves it to another family or version.
QuoteKeepsIdentity ==
    [][\A q \in Quotes : QuoteExists(q) =>
        /\ quote'[q].status = "draft" => quote[q].status = "draft"
        /\ quote'[q].family = quote[q].family
        /\ quote'[q].version = quote[q].version]_quoteVars

\* Once a quote answers an RFQ, createQuote does mark that RFQ as quoted,
\* provided the request is not cut off between its two statements.
RfqIsMarked ==
    \A f \in Rfqs : (\E q \in Quotes : quote[q].rfq = f) ~> (f \in marked)

\* A decision on a quote is final: once accepted or declined, its status does
\* not change ("Quote cannot move from ${quote.status} to ${to}").
DecisionIsFinal ==
    [][\A q \in Quotes : quote[q].status \in {"accepted", "declined"} =>
        quote'[q].status = quote[q].status]_quoteVars
=============================================================================
