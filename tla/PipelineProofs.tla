--------------------------- MODULE PipelineProofs ---------------------------
(***************************************************************************)
(* Proofs about Quotes.tla and Operations.tla, for any numbers of RFQs,    *)
(* quotes, bookings, shipments and requests: types, the numbering of       *)
(* versions, what bookings and shipments relate to, that status histories  *)
(* implement StatusPath, and what holds when requests are serial.          *)
(***************************************************************************)
EXTENDS Operations, TLAPS

-----------------------------------------------------------------------------
(***************************************************************************)
(* Quotes: families, versions and decisions.                               *)
(***************************************************************************)

\* A row is empty until it is created; afterwards its family is named by the
\* family's first version and its current status is in its history.
RowsCoherent ==
    \A q \in Quotes :
        /\ ~QuoteExists(q) => quote[q] = NoQuote /\ qheld[q] = {}
        /\ QuoteExists(q) =>
            /\ quote[q].status \in qheld[q]
            /\ quote[q].family \in Quotes
            /\ QuoteExists(quote[q].family)
            /\ quote[q].version >= 1

\* What a request in flight has read still supports what it will write: the
\* predecessor of a status stays in the history, that of a version in the family.
ReadSupports(r) ==
    /\ qreq[r].op = "status" =>
        \E p \in qheld[qreq[r].quote] : <<p, qreq[r].to>> \in QuoteEdges
    /\ qreq[r].op = "version" =>
        /\ QuoteExists(qreq[r].family)
        /\ qreq[r].next > 1
        /\ VersionTaken(qreq[r].family, qreq[r].next - 1)

ReadsSupport == \A r \in QuoteReqs : ReadSupports(r)

QuotesInv == QuotesTypeOK /\ RowsCoherent /\ ReadsSupport /\ VersionsContiguous

LEMMA InitQuotesInv == QuotesInit => QuotesInv
  BY QuotesAssumption
  DEF QuotesInit, QuotesInv, QuotesTypeOK, RowsCoherent, ReadsSupport, ReadSupports,
      VersionsContiguous, QuoteExists, NoQuote, QuoteRow, QIdle

\* A request's operation determines the fields it carries.
LEMMA QuoteRequestFields ==
    ASSUME QuotesTypeOK, NEW r \in QuoteReqs
    PROVE  /\ qreq[r].op = "create" => qreq[r] \in CreatingQuote
           /\ qreq[r].op = "mark" => qreq[r] \in MarkingRfq
           /\ qreq[r].op = "version" => qreq[r] \in CreatingVersion
           /\ qreq[r].op = "status" => qreq[r] \in SettingStatus
  BY DEF QuotesTypeOK, QIdle, CreatingQuote, MarkingRfq, CreatingVersion, SettingStatus

\* What supports a read is not taken away by steps that keep the rows'
\* identities and let their histories grow.
LEMMA ReadsKeepSupport ==
    ASSUME QuotesTypeOK, NEW r \in QuoteReqs, ReadSupports(r), qreq'[r] = qreq[r],
           \A p \in Quotes : /\ quote'[p].family = quote[p].family
                             /\ quote'[p].version = quote[p].version
                             /\ QuoteExists(p) => QuoteExists(p)'
                             /\ qheld[p] \subseteq qheld'[p]
    PROVE  ReadSupports(r)'
<1>1. CASE qreq[r].op = "status"
  BY <1>1, QuoteRequestFields DEF ReadSupports, SettingStatus
<1>2. CASE qreq[r].op = "version"
  BY <1>2, QuoteRequestFields DEF ReadSupports, CreatingVersion, VersionTaken
<1> QED BY <1>1, <1>2 DEF ReadSupports

\* A step that leaves the quotes alone and lets a request go on with what its
\* reads support preserves the invariant.
LEMMA QuotesUntouched ==
    ASSUME QuotesInv, QuotesTypeOK', UNCHANGED <<quote, qheld>>,
           \A r \in QuoteReqs : qreq'[r] = qreq[r] \/ qreq'[r].op \notin {"status", "version"}
    PROVE  QuotesInv'
<1>1. RowsCoherent'
  BY DEF QuotesInv, RowsCoherent, QuoteExists
<1>2. ReadsSupport'
  <2> SUFFICES ASSUME NEW r \in QuoteReqs, qreq'[r] = qreq[r]
               PROVE  ReadSupports(r)'
    BY DEF ReadsSupport, ReadSupports
  <2> QED BY DEF QuotesInv, ReadsSupport, ReadSupports, QuoteExists, VersionTaken
<1>3. VersionsContiguous'
  BY DEF QuotesInv, VersionsContiguous, QuoteExists, Family
<1> QED BY <1>1, <1>2, <1>3 DEF QuotesInv

LEMMA CreateRfqPreserves ==
    ASSUME QuotesInv, NEW f \in Rfqs, CreateRfq(f)
    PROVE  QuotesInv'
<1>1. QuotesTypeOK'
  BY DEF QuotesInv, QuotesTypeOK, CreateRfq, RfqStatus
<1> QED BY <1>1, QuotesUntouched DEF CreateRfq

LEMMA UpdateRfqPreserves ==
    ASSUME QuotesInv, NEW f \in Rfqs, NEW to \in RfqStatus, UpdateRfq(f, to)
    PROVE  QuotesInv'
<1>1. QuotesTypeOK'
  BY DEF QuotesInv, QuotesTypeOK, UpdateRfq
<1> QED BY <1>1, QuotesUntouched DEF UpdateRfq

LEMMA CreateQuoteReadPreserves ==
    ASSUME QuotesInv, NEW r \in QuoteReqs, NEW f \in Rfqs \cup {NoRow},
           CreateQuoteRead(r, f)
    PROVE  QuotesInv'
<1>1. QuotesTypeOK'
  BY DEF QuotesInv, QuotesTypeOK, CreateQuoteRead, QGoto, CreatingQuote
<1>2. \A x \in QuoteReqs : qreq'[x] = qreq[x] \/ qreq'[x].op \notin {"status", "version"}
  BY DEF QuotesInv, QuotesTypeOK, CreateQuoteRead, QGoto
<1> QED BY <1>1, <1>2, QuotesUntouched DEF CreateQuoteRead

LEMMA CreateQuoteMarkRfqPreserves ==
    ASSUME QuotesInv, NEW r \in QuoteReqs, CreateQuoteMarkRfq(r)
    PROVE  QuotesInv'
<1>1. qreq[r].rfq \in Rfqs
  BY QuoteRequestFields DEF QuotesInv, CreateQuoteMarkRfq, MarkingRfq
<1>2. QuotesTypeOK'
  BY <1>1 DEF QuotesInv, QuotesTypeOK, CreateQuoteMarkRfq, QGoto, RfqStatus
<1>3. \A x \in QuoteReqs : qreq'[x] = qreq[x] \/ qreq'[x].op \notin {"status", "version"}
  BY DEF QuotesInv, QuotesTypeOK, CreateQuoteMarkRfq, QGoto, QIdle
<1> QED BY <1>2, <1>3, QuotesUntouched DEF CreateQuoteMarkRfq

\* Requests that end without another write.
LEMMA QuoteEndingPreserves ==
    ASSUME QuotesInv, NEW r \in QuoteReqs, QGoto(r, QIdle),
           UNCHANGED <<rfq, quote, qheld, marked>>
    PROVE  QuotesInv'
<1>1. QuotesTypeOK'
  BY DEF QuotesInv, QuotesTypeOK, QGoto
<1>2. \A x \in QuoteReqs : qreq'[x] = qreq[x] \/ qreq'[x].op \notin {"status", "version"}
  BY DEF QuotesInv, QuotesTypeOK, QGoto, QIdle
<1> QED BY <1>1, <1>2, QuotesUntouched

-----------------------------------------------------------------------------
\* Inserting a draft keeps rows, reads and numbering in order, provided its
\* family lacks the version and is new or already has the one before it.
LEMMA InsertQuotePreserves ==
    ASSUME QuotesInv, QuotesTypeOK', NEW q \in Quotes, NEW family \in Quotes,
           NEW version \in Nat, NEW f \in Rfqs \cup {NoRow},
           InsertQuote(q, [family |-> family, version |-> version, rfq |-> f,
                           status |-> "draft"]),
           \/ family = q /\ version = 1
           \/ /\ QuoteExists(family) /\ version > 1
              /\ ~VersionTaken(family, version) /\ VersionTaken(family, version - 1),
           \A r \in QuoteReqs : qreq'[r] = qreq[r] \/ qreq'[r].op \notin {"status", "version"}
    PROVE  QuotesInv'
<1> USE DEF QuotesInv
<1>1. /\ ~QuoteExists(q)
      /\ quote'[q] = [family |-> family, version |-> version, rfq |-> f,
                      status |-> "draft"]
      /\ qheld'[q] = {"draft"}
      /\ \A p \in Quotes \ {q} : quote'[p] = quote[p] /\ qheld'[p] = qheld[p]
  BY DEF InsertQuote, QuotesTypeOK
<1>2. \A p \in Quotes : QuoteExists(p) => p # q /\ quote'[p] = quote[p]
  BY <1>1 DEF QuoteExists
<1>3. \A p \in Quotes : QuoteExists(p)' <=> p = q \/ QuoteExists(p)
  BY <1>1 DEF QuoteExists
<1>4. RowsCoherent'
  BY <1>1, <1>2, <1>3 DEF RowsCoherent, QuoteExists
<1>5. \A g \in Quotes, n \in Nat :
        QuoteExists(g) /\ n >= 1 /\ VersionTaken(g, n) => VersionTaken(g, n)'
  BY <1>1, <1>2 DEF VersionTaken, RowsCoherent, QuoteExists, NoQuote,
     QuotesTypeOK, QuoteRow
<1>6. ReadsSupport'
  <2> SUFFICES ASSUME NEW r \in QuoteReqs, qreq'[r] = qreq[r]
               PROVE  ReadSupports(r)'
    BY DEF ReadsSupport, ReadSupports
  <2>1. CASE qreq[r].op = "status"
    <3> DEFINE target == qreq[r].quote
    <3>1. target \in Quotes
      BY <2>1, QuoteRequestFields DEF SettingStatus
    <3>2. PICK p \in qheld[target] : <<p, qreq[r].to>> \in QuoteEdges
      BY <2>1 DEF ReadsSupport, ReadSupports
    <3>3. qheld'[target] = qheld[target]
      BY <3>1, <3>2, <1>1 DEF RowsCoherent
    <3> QED BY <2>1, <3>2, <3>3 DEF ReadSupports
  <2>2. CASE qreq[r].op = "version"
    BY <2>2, <1>3, <1>5, QuoteRequestFields
    DEF ReadsSupport, ReadSupports, CreatingVersion
  <2> QED BY <2>1, <2>2 DEF ReadSupports
<1>7. VersionsContiguous'
  <2> SUFFICES ASSUME NEW p \in Quotes, QuoteExists(p)'
               PROVE  /\ \A o \in Family(p)' : quote'[o].version = quote'[p].version => o = p
                      /\ \/ quote'[p].version = 1
                         \/ \E o \in Family(p)' : quote'[o].version = quote'[p].version - 1
    BY DEF VersionsContiguous
  <2>0. \A o \in Quotes : QuoteExists(o) => quote[o].family \in Quotes /\ QuoteExists(quote[o].family)
    BY DEF RowsCoherent
  <2>00. \A o \in Quotes : quote'[o].family \in Quotes => QuoteExists(o)'
    BY <1>4, QuotesAssumption DEF RowsCoherent, NoQuote
  <2>1. CASE family = q /\ version = 1
    <3>1. \A o \in Quotes \ {q} : quote'[o].family # q
      BY <1>1, <1>3, <2>0, <2>00 DEF QuoteExists
    <3>2. CASE p = q
      BY <2>1, <3>1, <3>2, <1>1 DEF Family
    <3>3. CASE p # q
      <4>1. QuoteExists(p) /\ quote'[p] = quote[p] /\ quote[p].family # q
        BY <3>1, <3>3, <1>1, <1>2, <1>3
      <4>2. \A o \in Quotes : o \in Family(p)' <=> o # q /\ o \in Family(p)
        BY <2>1, <4>1, <1>1 DEF Family
      <4>3. q \notin Family(p)
        BY <4>1, <2>0, <1>1, QuotesAssumption DEF Family, RowsCoherent, NoQuote
      <4> QED BY <4>1, <4>2, <4>3, <1>1 DEF VersionsContiguous, Family
    <3> QED BY <3>2, <3>3
  <2>2. CASE /\ QuoteExists(family) /\ version > 1
             /\ ~VersionTaken(family, version) /\ VersionTaken(family, version - 1)
    <3>1. CASE p = q
      <4>1. PICK o \in Quotes : quote[o].family = family /\ quote[o].version = version - 1
        BY <2>2 DEF VersionTaken
      <4>2. o # q
        BY <4>1, <1>1, QuotesAssumption DEF RowsCoherent, NoQuote
      <4> QED BY <2>2, <3>1, <4>1, <4>2, <1>1 DEF Family, VersionTaken
    <3>2. CASE p # q
      <4>1. QuoteExists(p) /\ quote'[p] = quote[p]
        BY <3>2, <1>2, <1>3
      <4>2. quote[p].family = family => quote[p].version # version
        BY <2>2 DEF VersionTaken
      <4>3. \A o \in Family(p)' : o = q \/ o \in Family(p)
        BY <4>1, <1>1 DEF Family
      <4>4. \A o \in Family(p) : o # q
        BY <4>1, <2>0, <1>1, QuotesAssumption DEF Family, RowsCoherent, NoQuote
      <4>5. \A o \in Family(p) : o \in Family(p)' /\ quote'[o] = quote[o]
        BY <4>1, <4>4, <1>1 DEF Family
      <4> QED BY <4>1, <4>2, <4>3, <4>4, <4>5, <1>1 DEF VersionsContiguous, Family
    <3> QED BY <3>1, <3>2
  <2> QED BY <2>1, <2>2
<1> QED BY <1>4, <1>6, <1>7

LEMMA CreateQuoteInsertPreserves ==
    ASSUME QuotesInv, NEW r \in QuoteReqs, NEW q \in Quotes, CreateQuoteInsert(r, q)
    PROVE  QuotesInv'
<1> USE DEF CreateQuoteInsert, QGoto
<1>1. qreq[r].rfq \in Rfqs \cup {NoRow}
  BY QuoteRequestFields DEF QuotesInv, CreatingQuote
<1>2. qreq[r].rfq # NoRow => [op |-> "mark", rfq |-> qreq[r].rfq] \in MarkingRfq
  BY <1>1 DEF MarkingRfq
<1>3. QuotesTypeOK'
  BY <1>1, <1>2 DEF QuotesInv, QuotesTypeOK, InsertQuote, QuoteRow, QuoteStatus
<1>4. \A x \in QuoteReqs : qreq'[x] = qreq[x] \/ qreq'[x].op \notin {"status", "version"}
  BY DEF QuotesInv, QuotesTypeOK, QIdle
<1> QED BY <1>1, <1>3, <1>4, InsertQuotePreserves

LEMMA CreateVersionReadPreserves ==
    ASSUME QuotesInv, NEW r \in QuoteReqs, NEW q \in Quotes, CreateVersionRead(r, q)
    PROVE  QuotesInv'
<1> USE DEF QuotesInv, CreateVersionRead, QGoto
<1>1. PICK latest \in Family(q) :
        qreq' = [qreq EXCEPT ![r] =
            [op |-> "version", family |-> quote[q].family, rfq |-> quote[q].rfq,
             next |-> quote[latest].version + 1]]
  OBVIOUS
<1>2. /\ quote[q].family \in Quotes /\ QuoteExists(quote[q].family)
      /\ quote[q].rfq \in Rfqs \cup {NoRow}
      /\ latest \in Quotes /\ quote[latest].family = quote[q].family
  BY <1>1 DEF RowsCoherent, QuotesTypeOK, QuoteRow, Family
<1>3. quote[latest].version \in Nat /\ quote[latest].version >= 1
  BY <1>2, QuotesAssumption DEF RowsCoherent, QuotesTypeOK, QuoteRow, NoQuote
<1>4. QuotesTypeOK'
  BY <1>1, <1>2, <1>3 DEF QuotesTypeOK, CreatingVersion
<1>5. RowsCoherent' /\ VersionsContiguous'
  BY DEF RowsCoherent, VersionsContiguous, QuoteExists, Family
<1>6. \A x \in QuoteReqs : x # r => qreq'[x] = qreq[x]
  BY <1>1 DEF QuotesTypeOK
<1>7. /\ qreq'[r].op = "version" /\ qreq'[r].family = quote[q].family
      /\ qreq'[r].next = quote[latest].version + 1
  BY <1>1 DEF QuotesTypeOK
<1>8. VersionTaken(quote[q].family, quote[latest].version)
  BY <1>2 DEF VersionTaken
<1>9. ReadSupports(r)'
  BY <1>2, <1>3, <1>7, <1>8 DEF ReadSupports, QuoteExists, VersionTaken
<1>10. ReadsSupport'
  BY <1>6, <1>9, ReadsKeepSupport DEF ReadsSupport, QuoteExists
<1> QED BY <1>4, <1>5, <1>10

LEMMA CreateVersionInsertPreserves ==
    ASSUME QuotesInv, NEW r \in QuoteReqs, NEW q \in Quotes, CreateVersionInsert(r, q)
    PROVE  QuotesInv'
<1> USE DEF CreateVersionInsert, QGoto
<1>1. qreq[r] \in CreatingVersion
  BY QuoteRequestFields DEF QuotesInv
<1>2. /\ QuoteExists(qreq[r].family) /\ qreq[r].next > 1
      /\ VersionTaken(qreq[r].family, qreq[r].next - 1)
  BY DEF QuotesInv, ReadsSupport, ReadSupports
<1>3. QuotesTypeOK'
  BY <1>1 DEF QuotesInv, QuotesTypeOK, InsertQuote, QuoteRow, QuoteStatus, CreatingVersion
<1>4. \A x \in QuoteReqs : qreq'[x] = qreq[x] \/ qreq'[x].op \notin {"status", "version"}
  BY DEF QuotesInv, QuotesTypeOK, QIdle
<1>5. /\ qreq[r].family \in Quotes /\ qreq[r].next \in Nat
      /\ qreq[r].rfq \in Rfqs \cup {NoRow}
  BY <1>1 DEF CreatingVersion
<1> QED BY <1>2, <1>3, <1>4, <1>5, InsertQuotePreserves

LEMMA SetStatusReadPreserves ==
    ASSUME QuotesInv, NEW r \in QuoteReqs, NEW q \in Quotes,
           NEW edge \in QuoteEdges, SetStatusRead(r, q, edge[1], edge[2])
    PROVE  QuotesInv'
<1> USE DEF QuotesInv, SetStatusRead, QGoto
<1>1. edge = <<edge[1], edge[2]>> /\ edge[1] \in QuoteStatus /\ edge[2] \in QuoteStatus
  BY DEF QuoteEdges, QuoteStatus
<1>2. QuotesTypeOK'
  BY <1>1 DEF QuotesTypeOK, SettingStatus
<1>3. edge[1] \in qheld[q]
  BY <1>1 DEF RowsCoherent, QuoteExists, QuoteStatus
<1>4. RowsCoherent' /\ VersionsContiguous'
  BY DEF RowsCoherent, VersionsContiguous, QuoteExists, Family
<1>5. ReadSupports(r)'
  BY <1>1, <1>3 DEF ReadSupports, QuotesTypeOK
<1>6. ReadsSupport'
  BY <1>5 DEF ReadsSupport, ReadSupports, QuoteExists, VersionTaken, QuotesTypeOK
<1> QED BY <1>2, <1>4, <1>6

LEMMA SetStatusWritePreserves ==
    ASSUME QuotesInv, NEW r \in QuoteReqs, SetStatusWrite(r)
    PROVE  QuotesInv'
<1> USE DEF QuotesInv, SetStatusWrite, QGoto
<1> DEFINE q == qreq[r].quote
<1>1. q \in Quotes /\ qreq[r].to \in QuoteStatus
  BY QuoteRequestFields DEF SettingStatus
<1>2. QuoteExists(q)
  BY <1>1 DEF ReadsSupport, ReadSupports, RowsCoherent
<1>3. QuotesTypeOK'
  BY <1>1 DEF QuotesTypeOK, QuoteRow
<1>4. /\ \A p \in Quotes : /\ quote'[p].family = quote[p].family
                           /\ quote'[p].version = quote[p].version
                           /\ QuoteExists(p)' <=> QuoteExists(p)
                           /\ qheld[p] \subseteq qheld'[p]
                           /\ p # q => quote'[p] = quote[p] /\ qheld'[p] = qheld[p]
      /\ quote'[q].status = qreq[r].to /\ qreq[r].to \in qheld'[q]
  BY <1>1, <1>2 DEF QuotesTypeOK, QuoteRow, QuoteExists, QuoteStatus
<1>5. RowsCoherent'
  BY <1>1, <1>2, <1>4 DEF RowsCoherent
<1>6. VersionsContiguous'
  <2>1. VersionsContiguous
    OBVIOUS
  <2> HIDE DEF QuotesInv, SetStatusWrite, QGoto
  <2>2. \A p \in Quotes : Family(p)' = Family(p) /\ Family(p) \subseteq Quotes
    BY <1>4 DEF Family
  <2> QED BY <1>4, <2>1, <2>2 DEF VersionsContiguous
<1>7. ReadSupports(r)' /\ \A x \in QuoteReqs : x # r => qreq'[x] = qreq[x]
  BY DEF ReadSupports, QuotesTypeOK, QIdle
<1>8. ReadsSupport'
  BY <1>4, <1>7, ReadsKeepSupport DEF ReadsSupport
<1> QED BY <1>3, <1>5, <1>6, <1>8

-----------------------------------------------------------------------------
\* Every step of every request preserves the inductive invariant.
THEOREM NextPreservesQuotesInv ==
    QuotesInv /\ [QuotesNext]_quoteVars => QuotesInv'
<1> SUFFICES ASSUME QuotesInv, [QuotesNext]_quoteVars PROVE QuotesInv'
  OBVIOUS
<1>1. CASE UNCHANGED quoteVars
  <2>1. QuotesTypeOK' /\ UNCHANGED <<quote, qheld, qreq>>
    BY <1>1 DEF quoteVars, QuotesInv, QuotesTypeOK
  <2> QED BY <2>1, QuotesUntouched
<1>2. ASSUME NEW f \in Rfqs, CreateRfq(f) PROVE QuotesInv'
  BY <1>2, CreateRfqPreserves
<1>3. ASSUME NEW f \in Rfqs, NEW to \in RfqStatus, UpdateRfq(f, to) PROVE QuotesInv'
  BY <1>3, UpdateRfqPreserves
<1>4. ASSUME NEW r \in QuoteReqs, QuoteReqStarts(r) PROVE QuotesInv'
  BY <1>4, CreateQuoteReadPreserves, CreateVersionReadPreserves,
     SetStatusReadPreserves DEF QuoteReqStarts
<1>5. ASSUME NEW r \in QuoteReqs, QuoteReqContinues(r) PROVE QuotesInv'
  <2>1. CASE CreateVersionConflict(r)
    BY <2>1, QuoteEndingPreserves DEF CreateVersionConflict
  <2> QED
    BY <1>5, <2>1, CreateQuoteInsertPreserves, CreateQuoteMarkRfqPreserves,
       CreateVersionInsertPreserves, SetStatusWritePreserves DEF QuoteReqContinues
<1>6. ASSUME NEW r \in QuoteReqs, QuoteReqFails(r) PROVE QuotesInv'
  BY <1>6, QuoteEndingPreserves DEF QuoteReqFails
<1> QED BY <1>1, <1>2, <1>3, <1>4, <1>5, <1>6 DEF QuotesNext

\* Rows, the reads of requests in flight and version numbers stay coherent.
THEOREM QuotesInvariant == QuotesSpec => []QuotesInv
  BY InitQuotesInv, NextPreservesQuotesInv, PTL DEF QuotesSpec

\* Every variable keeps its type (the tables and the requests of Quotes.tla).
THEOREM QuotesTypeCorrect == QuotesSpec => []QuotesTypeOK
  BY QuotesInvariant, PTL DEF QuotesInv

\* However many createVersion requests overlap, the versions of a family are
\* numbered without gap or duplicate.
THEOREM VersionsStayContiguous == QuotesSpec => []VersionsContiguous
  BY QuotesInvariant, PTL DEF QuotesInv

-----------------------------------------------------------------------------
\* The only steps that touch a history insert a draft or write the status a
\* request has read the predecessor of: both are steps of StatusPath.
LEMMA StepOnPath ==
    ASSUME QuotesInv, [QuotesNext]_quoteVars
    PROVE  [QuotePath!Next]_qheld
<1> USE DEF QuotesInv
<1>1. ASSUME NEW q \in Quotes, NEW row, row.status = "draft", InsertQuote(q, row)
      PROVE  QuotePath!Next
  <2>1. qheld[q] = {}
    BY <1>1 DEF InsertQuote, RowsCoherent
  <2> QED BY <1>1, <2>1 DEF InsertQuote, QuotePath!Next, QuotePath!Open
<1>2. ASSUME NEW r \in QuoteReqs, SetStatusWrite(r) PROVE QuotePath!Next
  <2> DEFINE q == qreq[r].quote
             to == qreq[r].to
  <2>1. q \in Quotes
    BY <1>2, QuoteRequestFields DEF SetStatusWrite, SettingStatus
  <2>2. PICK p \in qheld[q] : <<p, to>> \in QuoteEdges
    BY <1>2 DEF SetStatusWrite, ReadsSupport, ReadSupports
  <2>3. to \in QuotePath!Targets
    BY <2>2 DEF QuotePath!Targets, QuoteEdges
  <2>4. QuotePath!Reach(q, to)
    BY <1>2, <2>2 DEF SetStatusWrite, QuotePath!Reach
  <2> QED BY <2>1, <2>3, <2>4 DEF QuotePath!Next
<1>3. ASSUME NEW r \in QuoteReqs, NEW q \in Quotes, CreateQuoteInsert(r, q)
      PROVE  QuotePath!Next
  BY <1>1, <1>3 DEF CreateQuoteInsert
<1>4. ASSUME NEW r \in QuoteReqs, NEW q \in Quotes, CreateVersionInsert(r, q)
      PROVE  QuotePath!Next
  BY <1>1, <1>4 DEF CreateVersionInsert
<1> QED
  BY <1>2, <1>3, <1>4
  DEF QuotesNext, quoteVars, CreateRfq, UpdateRfq, QuoteReqStarts, QuoteReqContinues,
      QuoteReqFails, CreateQuoteRead, CreateVersionRead, SetStatusRead,
      CreateQuoteMarkRfq, CreateVersionConflict

\* Quote statuses implement StatusPath: whatever the interleaving of send,
\* accept and decline, a quote reaches a status only from one it has held.
THEOREM QuotesImplementPath == QuotesSpec => QuotesFollowPath
<1>1. QuotesInit => QuotePath!Init
  BY DEF QuotesInit, QuotePath!Init
<1>2. QuotesInv /\ [QuotesNext]_quoteVars => [QuotePath!Next]_qheld
  BY StepOnPath
<1> QED
  BY <1>1, <1>2, QuotesInvariant, PTL DEF QuotesSpec, QuotesFollowPath, QuotePath!Spec

\* Hence no status a quote has held lacks its permitted predecessor.
THEOREM QuoteHistoriesAreClosed == QuotesSpec => []QuotePath!Closed
  BY QuotesImplementPath, QuotePath!StaysClosed, PTL DEF QuotesFollowPath

\* No step returns a quote to draft or moves it to another family or version.
THEOREM QuotesKeepIdentity == QuotesSpec => QuoteKeepsIdentity
<1> DEFINE Keeps ==
        \A q \in Quotes : QuoteExists(q) =>
            /\ quote'[q].status = "draft" => quote[q].status = "draft"
            /\ quote'[q].family = quote[q].family
            /\ quote'[q].version = quote[q].version
<1>1. ASSUME QuotesInv, [QuotesNext]_quoteVars PROVE [Keeps]_quoteVars
  <2> USE <1>1 DEF QuotesInv, QuotesTypeOK, QuoteRow
  <2>1. CASE quote' = quote
    BY <2>1
  <2>2. ASSUME NEW p \in Quotes, NEW row, InsertQuote(p, row) PROVE Keeps
    BY <2>2 DEF InsertQuote, QuoteExists
  <2>3. ASSUME NEW r \in QuoteReqs, SetStatusWrite(r) PROVE Keeps
    <3>1. qreq[r].to # "draft"
      BY <2>3 DEF SetStatusWrite, ReadsSupport, ReadSupports, QuoteEdges
    <3>2. qreq[r].quote \in Quotes
      BY <2>3, QuoteRequestFields DEF SetStatusWrite, SettingStatus
    <3> QED BY <2>3, <3>1, <3>2 DEF SetStatusWrite
  <2> QED
    BY <2>1, <2>2, <2>3
    DEF QuotesNext, quoteVars, CreateRfq, UpdateRfq, QuoteReqStarts, QuoteReqContinues,
        QuoteReqFails, CreateQuoteRead, CreateVersionRead, SetStatusRead,
        CreateQuoteInsert, CreateVersionInsert, CreateQuoteMarkRfq, CreateVersionConflict
<1> QED BY <1>1, QuotesInvariant, PTL DEF QuotesSpec, QuoteKeepsIdentity

-----------------------------------------------------------------------------
\* What a request will write into a new row's RFQ: createQuote's was found, and
\* createVersion's is the one every version of the family answers.
RfqReadHolds(r) ==
    /\ qreq[r].op = "create" /\ qreq[r].rfq # NoRow => RfqExists(qreq[r].rfq)
    /\ qreq[r].op = "version" =>
        \A p \in Quotes : quote[p].family = qreq[r].family => quote[p].rfq = qreq[r].rfq

RfqInv == FamilyAnswersOneRfq /\ \A r \in QuoteReqs : RfqReadHolds(r)

\* Steps that leave the quotes' families and RFQs alone, and let a request go on
\* only with an RFQ that holds.
LEMMA RfqsUntouched ==
    ASSUME QuotesInv, RfqInv,
           \A p \in Quotes : /\ quote'[p].family = quote[p].family
                             /\ quote'[p].rfq = quote[p].rfq
                             /\ QuoteExists(p)' <=> QuoteExists(p),
           \A f \in Rfqs : RfqExists(f) => RfqExists(f)',
           \A r \in QuoteReqs : \/ qreq'[r] = qreq[r]
                                \/ qreq'[r].op \notin {"create", "version"}
                                \/ RfqReadHolds(r)'
    PROVE  RfqInv'
<1>1. \A q \in Quotes : quote[q].rfq \in Rfqs \cup {NoRow}
  BY DEF QuotesInv, QuotesTypeOK, QuoteRow
<1>2. FamilyAnswersOneRfq'
  BY <1>1 DEF RfqInv, FamilyAnswersOneRfq, Family
<1>3. ASSUME NEW r \in QuoteReqs PROVE RfqReadHolds(r)'
  <2>1. CASE qreq'[r] = qreq[r]
    <3>1. RfqReadHolds(r)
      BY DEF RfqInv
    <3>2. qreq[r].op = "create" => qreq[r].rfq \in Rfqs \cup {NoRow}
      BY QuoteRequestFields DEF QuotesInv, CreatingQuote
    <3> QED BY <2>1, <3>1, <3>2 DEF RfqReadHolds
  <2>2. CASE qreq'[r].op \notin {"create", "version"}
    BY <2>2 DEF RfqReadHolds
  <2> QED BY <2>1, <2>2
<1> QED BY <1>2, <1>3 DEF RfqInv

\* A new quote keeps its family's answers in agreement when it is the first of
\* it, or carries the RFQ that all the others carry.
LEMMA InsertKeepsRfqs ==
    ASSUME QuotesInv, RfqInv, NEW q \in Quotes, NEW family \in Quotes,
           NEW version \in Nat, NEW f \in Rfqs \cup {NoRow},
           InsertQuote(q, [family |-> family, version |-> version, rfq |-> f,
                           status |-> "draft"]),
           rfq' = rfq,
           f # NoRow => RfqExists(f),
           \/ family = q
           \/ /\ QuoteExists(family)
              /\ \A p \in Quotes : quote[p].family = family => quote[p].rfq = f
              /\ \E p \in Quotes : quote[p].family = family,
           \A r \in QuoteReqs : qreq'[r] = qreq[r]
                                \/ qreq'[r].op \notin {"create", "version"}
    PROVE  RfqInv'
<1>1. /\ ~QuoteExists(q)
      /\ quote'[q] = [family |-> family, version |-> version, rfq |-> f,
                      status |-> "draft"]
      /\ \A p \in Quotes \ {q} : quote'[p] = quote[p]
  BY DEF InsertQuote, QuotesInv, QuotesTypeOK
<1>2. \A p \in Quotes : QuoteExists(p) => /\ quote[p].family \in Quotes
                                          /\ QuoteExists(quote[p].family)
                                          /\ quote[p].rfq # NoRow => RfqExists(quote[p].rfq)
                                          /\ p # q
  BY <1>1 DEF QuotesInv, RowsCoherent, RfqInv, FamilyAnswersOneRfq
<1>3. \A p \in Quotes : quote[p].family \in Quotes => QuoteExists(p)
  BY QuotesAssumption DEF QuotesInv, RowsCoherent, NoQuote
<1>4. \A p \in Quotes : quote[p].family = family => quote[p].rfq = f
  BY <1>1, <1>2, <1>3
<1>5. FamilyAnswersOneRfq'
  <2> SUFFICES ASSUME NEW p \in Quotes, QuoteExists(p)'
               PROVE  /\ \A o \in Quotes : quote'[o].family = quote'[p].family
                                                => quote'[o].rfq = quote'[p].rfq
                      /\ quote'[p].rfq # NoRow => rfq'[quote'[p].rfq] # "none"
    BY DEF FamilyAnswersOneRfq, Family, RfqExists
  <2>1. CASE p = q
    BY <2>1, <1>1, <1>4 DEF RfqExists
  <2>2. CASE p # q
    <3>1. QuoteExists(p) /\ quote'[p] = quote[p]
      BY <2>2, <1>1 DEF QuoteExists
    <3>2. \A o \in Quotes : quote[o].family = quote[p].family => quote[o].rfq = quote[p].rfq
      BY <3>1 DEF RfqInv, FamilyAnswersOneRfq, Family
    <3> QED BY <3>1, <3>2, <1>1, <1>2, <1>4 DEF RfqExists
  <2> QED BY <2>1, <2>2
<1>6. ASSUME NEW r \in QuoteReqs, qreq'[r] = qreq[r] PROVE RfqReadHolds(r)'
  <2>1. RfqReadHolds(r)
    BY DEF RfqInv
  <2>2. CASE qreq[r].op = "version"
    <3>1. /\ qreq[r].family \in Quotes
          /\ \E p \in Quotes : quote[p].family = qreq[r].family
          /\ QuoteExists(qreq[r].family)
      BY <2>2, QuoteRequestFields
      DEF QuotesInv, CreatingVersion, ReadsSupport, ReadSupports, VersionTaken
    <3>2. \A p \in Quotes : quote[p].family = qreq[r].family => quote[p].rfq = qreq[r].rfq
      BY <2>1, <2>2 DEF RfqReadHolds
    <3>3. family = qreq[r].family => qreq[r].rfq = f
      BY <3>1, <3>2, <1>4
    <3> QED BY <1>1, <1>6, <2>2, <3>2, <3>3 DEF RfqReadHolds
  <2> QED BY <1>6, <2>1, <2>2 DEF RfqReadHolds, RfqExists
<1> QED BY <1>5, <1>6 DEF RfqInv, RfqReadHolds

LEMMA NextKeepsRfqs ==
    ASSUME QuotesInv, RfqInv, [QuotesNext]_quoteVars
    PROVE  RfqInv'
<1> USE DEF QGoto
<1>0. qreq \in [QuoteReqs -> {QIdle} \cup CreatingQuote \cup MarkingRfq
                    \cup CreatingVersion \cup SettingStatus]
  BY DEF QuotesInv, QuotesTypeOK
<1>1. CASE UNCHANGED quoteVars
  BY <1>1, RfqsUntouched DEF quoteVars, QuoteExists, RfqExists
<1>2. ASSUME NEW f \in Rfqs,
             CreateRfq(f) \/ \E to \in RfqStatus : UpdateRfq(f, to)
      PROVE  RfqInv'
  <2>1. \A g \in Rfqs : RfqExists(g) => RfqExists(g)'
    BY <1>2 DEF CreateRfq, UpdateRfq, RfqExists, RfqStatus, QuotesInv, QuotesTypeOK
  <2> QED BY <1>2, <2>1, RfqsUntouched DEF CreateRfq, UpdateRfq, QuoteExists
<1>3. ASSUME NEW r \in QuoteReqs, NEW f \in Rfqs \cup {NoRow}, CreateQuoteRead(r, f)
      PROVE  RfqInv'
  <2>1. RfqReadHolds(r)' /\ \A x \in QuoteReqs : x # r => qreq'[x] = qreq[x]
    BY <1>0, <1>3 DEF CreateQuoteRead, RfqReadHolds, RfqExists
  <2> QED BY <1>3, <2>1, RfqsUntouched DEF CreateQuoteRead, QuoteExists, RfqExists
<1>4. ASSUME NEW r \in QuoteReqs, NEW q \in Quotes, CreateVersionRead(r, q)
      PROVE  RfqInv'
  <2>1. PICK latest \in Family(q) :
            qreq' = [qreq EXCEPT ![r] =
                [op |-> "version", family |-> quote[q].family, rfq |-> quote[q].rfq,
                 next |-> quote[latest].version + 1]]
    BY <1>4 DEF CreateVersionRead
  <2>2. \A p \in Quotes : quote[p].family = quote[q].family => quote[p].rfq = quote[q].rfq
    BY <1>4 DEF CreateVersionRead, RfqInv, FamilyAnswersOneRfq, Family
  <2>3. RfqReadHolds(r)' /\ \A x \in QuoteReqs : x # r => qreq'[x] = qreq[x]
    BY <1>0, <1>4, <2>1, <2>2 DEF CreateVersionRead, RfqReadHolds
  <2> QED BY <1>4, <2>3, RfqsUntouched DEF CreateVersionRead, QuoteExists, RfqExists
<1>5. ASSUME NEW r \in QuoteReqs, NEW q \in Quotes, CreateQuoteInsert(r, q)
      PROVE  RfqInv'
  <2>1. qreq[r].rfq \in Rfqs \cup {NoRow} /\ (qreq[r].rfq # NoRow => RfqExists(qreq[r].rfq))
    BY <1>5, QuoteRequestFields
    DEF CreateQuoteInsert, QuotesInv, CreatingQuote, RfqInv, RfqReadHolds
  <2>2. \A x \in QuoteReqs : qreq'[x] = qreq[x] \/ qreq'[x].op \notin {"create", "version"}
    BY <1>0, <1>5 DEF CreateQuoteInsert, QIdle
  <2> QED BY <1>5, <2>1, <2>2, InsertKeepsRfqs DEF CreateQuoteInsert
<1>6. ASSUME NEW r \in QuoteReqs, NEW q \in Quotes, CreateVersionInsert(r, q)
      PROVE  RfqInv'
  <2>1. /\ qreq[r].op = "version"
        /\ qreq[r].family \in Quotes /\ qreq[r].next \in Nat
        /\ qreq[r].rfq \in Rfqs \cup {NoRow}
    BY <1>6, QuoteRequestFields DEF CreateVersionInsert, QuotesInv, CreatingVersion
  <2>2. PICK p \in Quotes : quote[p].family = qreq[r].family
    BY <2>1 DEF QuotesInv, ReadsSupport, ReadSupports, VersionTaken
  <2>3. \A o \in Quotes : quote[o].family = qreq[r].family => quote[o].rfq = qreq[r].rfq
    BY <2>1 DEF RfqInv, RfqReadHolds
  <2>4. QuoteExists(p) /\ QuoteExists(qreq[r].family)
    BY <2>1, <2>2, QuotesAssumption
    DEF QuotesInv, RowsCoherent, NoQuote, ReadsSupport, ReadSupports
  <2>5. qreq[r].rfq # NoRow => RfqExists(qreq[r].rfq)
    BY <2>2, <2>3, <2>4 DEF RfqInv, FamilyAnswersOneRfq
  <2>6. \A x \in QuoteReqs : qreq'[x] = qreq[x] \/ qreq'[x].op \notin {"create", "version"}
    BY <1>0, <1>6 DEF CreateVersionInsert, QIdle
  <2> QED BY <1>6, <2>1, <2>2, <2>3, <2>4, <2>5, <2>6, InsertKeepsRfqs DEF CreateVersionInsert
<1>7. ASSUME NEW r \in QuoteReqs, CreateQuoteMarkRfq(r)
      PROVE  RfqInv'
  <2>1. \A g \in Rfqs : RfqExists(g) => RfqExists(g)'
    BY <1>7 DEF CreateQuoteMarkRfq, RfqExists, QuotesInv, QuotesTypeOK
  <2>2. \A x \in QuoteReqs : qreq'[x] = qreq[x] \/ qreq'[x].op \notin {"create", "version"}
    BY <1>0, <1>7 DEF CreateQuoteMarkRfq, QIdle
  <2> QED BY <1>7, <2>1, <2>2, RfqsUntouched DEF CreateQuoteMarkRfq, QuoteExists
<1>8. ASSUME NEW r \in QuoteReqs, SetStatusWrite(r)
      PROVE  RfqInv'
  <2>1. /\ qreq[r].quote \in Quotes /\ qreq[r].to # "none"
        /\ QuoteExists(qreq[r].quote)
    BY <1>8, QuoteRequestFields
    DEF SetStatusWrite, SettingStatus, QuoteStatus, QuotesInv, ReadsSupport, ReadSupports,
        RowsCoherent
  <2>2. \A p \in Quotes : /\ quote'[p].family = quote[p].family
                          /\ quote'[p].rfq = quote[p].rfq
                          /\ QuoteExists(p)' <=> QuoteExists(p)
    BY <1>8, <2>1 DEF SetStatusWrite, QuoteExists, QuotesInv, QuotesTypeOK, QuoteRow
  <2>3. \A x \in QuoteReqs : qreq'[x] = qreq[x] \/ qreq'[x].op \notin {"create", "version"}
    BY <1>0, <1>8 DEF SetStatusWrite, QIdle
  <2> QED BY <1>8, <2>2, <2>3, RfqsUntouched DEF SetStatusWrite, RfqExists
<1>9. ASSUME NEW r \in QuoteReqs,
             \/ CreateVersionConflict(r) \/ QuoteReqFails(r)
             \/ \E q \in Quotes, edge \in QuoteEdges : SetStatusRead(r, q, edge[1], edge[2])
      PROVE  RfqInv'
  <2>1. \A x \in QuoteReqs : qreq'[x] = qreq[x] \/ qreq'[x].op \notin {"create", "version"}
    BY <1>0, <1>9 DEF CreateVersionConflict, QuoteReqFails, SetStatusRead, QIdle
  <2>2. UNCHANGED <<rfq, quote>>
    BY <1>9 DEF CreateVersionConflict, QuoteReqFails, SetStatusRead
  <2> QED BY <2>1, <2>2, RfqsUntouched DEF QuoteExists, RfqExists
<1> QED
  BY <1>1, <1>2, <1>3, <1>4, <1>5, <1>6, <1>7, <1>8, <1>9
  DEF QuotesNext, QuoteReqStarts, QuoteReqContinues

\* All versions of a family answer the same RFQ, and it exists, whichever
\* version createVersion copied it from and whatever ran in between.
THEOREM FamiliesAnswerOneRfq == QuotesSpec => []FamilyAnswersOneRfq
<1>1. QuotesInit => RfqInv
  BY DEF QuotesInit, RfqInv, RfqReadHolds, FamilyAnswersOneRfq, QuoteExists, NoQuote, QIdle
<1>2. QuotesInv /\ RfqInv /\ [QuotesNext]_quoteVars => RfqInv'
  BY NextKeepsRfqs
<1>3. RfqInv => FamilyAnswersOneRfq
  BY DEF RfqInv
<1> QED BY <1>1, <1>2, <1>3, QuotesInvariant, PTL DEF QuotesSpec

-----------------------------------------------------------------------------
\* With one request at a time nothing moves a quote between the read of its
\* status and the write.
StatusReadIsFresh ==
    \A r \in QuoteReqs : qreq[r].op = "status" =>
        <<quote[qreq[r].quote].status, qreq[r].to>> \in QuoteEdges

\* While a single request runs at a time a decision on a quote is final: no step
\* changes the status of an accepted or declined quote (setQuoteStatus,
\* acceptQuote and declineQuote refuse it).  With two requests it may change.
THEOREM SerialDecisionIsFinal ==
    ASSUME NEW r, QuoteReqs = {r}
    PROVE  QuotesSpec => DecisionIsFinal
<1> DEFINE Final == \A q \in Quotes : quote[q].status \in {"accepted", "declined"} =>
                        quote'[q].status = quote[q].status
<1>1. QuotesInit => StatusReadIsFresh
  BY DEF QuotesInit, StatusReadIsFresh, QIdle
<1>2. ASSUME QuotesInv, StatusReadIsFresh, [QuotesNext]_quoteVars
      PROVE  StatusReadIsFresh' /\ [Final]_quoteVars
  <2> USE <1>2 DEF QuotesInv, QuotesTypeOK, QGoto
  <2>1. CASE UNCHANGED <<quote, qreq>>
    BY <2>1 DEF StatusReadIsFresh
  <2>2. ASSUME NEW q \in Quotes, NEW edge \in QuoteEdges,
               SetStatusRead(r, q, edge[1], edge[2])
        PROVE  StatusReadIsFresh' /\ Final
    <3>1. edge = <<edge[1], edge[2]>>
      BY DEF QuoteEdges
    <3> QED BY <2>2, <3>1 DEF SetStatusRead, StatusReadIsFresh
  <2>3. CASE SetStatusWrite(r)
    <3>1. qreq[r].quote \in Quotes
      BY <2>3, QuoteRequestFields DEF SetStatusWrite, SettingStatus
    <3>2. quote[qreq[r].quote].status \notin {"accepted", "declined"}
      BY <2>3 DEF SetStatusWrite, StatusReadIsFresh, QuoteEdges
    <3> QED BY <2>3, <3>1, <3>2 DEF SetStatusWrite, StatusReadIsFresh, QIdle
  <2>4. ASSUME NEW q \in Quotes, NEW row, InsertQuote(q, row), qreq'[r].op # "status"
        PROVE  StatusReadIsFresh' /\ Final
    BY <2>4 DEF InsertQuote, QuoteExists, StatusReadIsFresh
  <2>5. CASE quote' = quote /\ qreq'[r].op # "status"
    BY <2>5 DEF StatusReadIsFresh
  <2>6. ASSUME NEW q \in Quotes, CreateQuoteInsert(r, q) \/ CreateVersionInsert(r, q)
        PROVE  qreq'[r].op # "status"
    BY <2>6 DEF CreateQuoteInsert, CreateVersionInsert, QIdle
  <2>7. ASSUME \/ \E f \in Rfqs \cup {NoRow} : CreateQuoteRead(r, f)
               \/ \E q \in Quotes : CreateVersionRead(r, q)
               \/ CreateQuoteMarkRfq(r) \/ CreateVersionConflict(r) \/ QuoteReqFails(r)
        PROVE  quote' = quote /\ qreq'[r].op # "status"
    BY <2>7
    DEF CreateQuoteRead, CreateVersionRead, CreateQuoteMarkRfq, CreateVersionConflict,
        QuoteReqFails, QIdle
  <2>8. CASE \E f \in Rfqs : CreateRfq(f) \/ \E to \in RfqStatus : UpdateRfq(f, to)
    BY <2>1, <2>8 DEF CreateRfq, UpdateRfq
  <2> QED
    BY <2>1, <2>2, <2>3, <2>4, <2>5, <2>6, <2>7, <2>8
    DEF QuotesNext, quoteVars, QuoteReqStarts, QuoteReqContinues, CreateQuoteInsert,
        CreateVersionInsert
<1> QED BY <1>1, <1>2, QuotesInvariant, PTL DEF QuotesSpec, DecisionIsFinal

-----------------------------------------------------------------------------
(***************************************************************************)
(* Operations: the pipeline from RFQ to delivery keeps what Quotes.tla     *)
(* promises, and bookings and shipments what theirs does.                  *)
(***************************************************************************)

ShipmentsCoherent ==
    \A s \in Shipments :
        /\ ~ShipmentExists(s) => shipment[s] = NoShipment /\ sheld[s] = {}
        /\ ShipmentExists(s) => shipment[s].status \in sheld[s]

BookingsCoherent ==
    /\ \A b \in Bookings : ~BookingExists(b) => booking[b] = NoBooking
    /\ \A b \in Bookings : BookingExists(b) => "accepted" \in qheld[booking[b].quote]
                                            /\ booking[b].quote \in Quotes

\* What a request in flight has read still supports what it will write: the
\* predecessor of a shipment's next status, the acceptance of a quote to book.
OpSupported(r) ==
    /\ oreq[r].op = "change" =>
        \E p \in sheld[oreq[r].shipment] : <<p, oreq[r].to>> \in ShipmentEdges
    /\ oreq[r].op = "book" => "accepted" \in qheld[oreq[r].quote]

OpsSupported == \A r \in OpReqs : OpSupported(r)

OperationsInv ==
    /\ OperationsTypeOK /\ ShipmentsCoherent /\ BookingsCoherent
    /\ OpsSupported /\ BookingMatchesShipment

PipelineInv == QuotesInv /\ OperationsInv

-----------------------------------------------------------------------------
\* The pipeline implements its quote component.
THEOREM PipelineImplementsQuotes == Spec => QuotesSpec
<1>1. Init => QuotesInit
  BY DEF Init
<1>2. [Next]_vars => [QuotesNext]_quoteVars
  BY DEF Next, vars
<1> QED BY <1>1, <1>2, PTL DEF Spec, QuotesSpec

LEMMA InitPipelineInv == Init => PipelineInv
  BY InitQuotesInv, OperationsAssumption
  DEF Init, PipelineInv, OperationsInit, OperationsInv, OperationsTypeOK,
      ShipmentsCoherent, BookingsCoherent, OpsSupported, OpSupported,
      BookingMatchesShipment, ShipmentExists, BookingExists, NoShipment, NoBooking,
      ShipmentRow, BookingRow, OIdle

LEMMA OpRequestFields ==
    ASSUME OperationsTypeOK, NEW r \in OpReqs
    PROVE  /\ oreq[r].op = "book" => oreq[r] \in CreatingBooking
           /\ oreq[r].op = "change" => oreq[r] \in ChangingStatus
  BY DEF OperationsTypeOK, OIdle, CreatingBooking, ChangingStatus

\* Steps of quote requests only let the histories of quotes grow.
LEMMA QuoteHistoriesGrow ==
    ASSUME QuotesInv, [QuotesNext]_quoteVars, NEW q \in Quotes
    PROVE  qheld[q] \subseteq qheld'[q]
<1>1. [QuotePath!Next]_qheld
  BY StepOnPath
<1>2. qheld \in [Quotes -> SUBSET QuoteStatus]
  BY DEF QuotesInv, QuotesTypeOK
<1> QED BY <1>1, <1>2 DEF QuotePath!Next, QuotePath!Open, QuotePath!Reach

\* A request keeps its support while histories grow.
LEMMA SupportKept ==
    ASSUME OperationsTypeOK, NEW r \in OpReqs, OpSupported(r), oreq'[r] = oreq[r],
           \A q \in Quotes : qheld[q] \subseteq qheld'[q],
           \A s \in Shipments : sheld[s] \subseteq sheld'[s]
    PROVE  OpSupported(r)'
<1>1. CASE oreq[r].op = "change"
  BY <1>1, OpRequestFields DEF OpSupported, ChangingStatus
<1>2. CASE oreq[r].op = "book"
  BY <1>2, OpRequestFields DEF OpSupported, CreatingBooking
<1> QED BY <1>1, <1>2 DEF OpSupported

LEMMA QuoteStepPreserves ==
    ASSUME PipelineInv, [QuotesNext]_quoteVars, UNCHANGED opVars
    PROVE  PipelineInv'
<1> USE DEF PipelineInv, OperationsInv, opVars
<1>1. QuotesInv'
  BY NextPreservesQuotesInv
<1>2. \A q \in Quotes : qheld[q] \subseteq qheld'[q]
  BY QuoteHistoriesGrow
<1>3. OperationsTypeOK' /\ ShipmentsCoherent' /\ BookingMatchesShipment'
  BY DEF OperationsTypeOK, ShipmentsCoherent, BookingMatchesShipment, ShipmentExists
<1>4. BookingsCoherent'
  BY <1>2 DEF BookingsCoherent, BookingExists
<1>5. OpsSupported'
  BY <1>2, SupportKept DEF OpsSupported
<1> QED BY <1>1, <1>3, <1>4, <1>5

-----------------------------------------------------------------------------
\* A request that ends or starts without touching a table.
LEMMA OpReadPreserves ==
    ASSUME OperationsInv, NEW r \in OpReqs, OperationsTypeOK', OpSupported(r)',
           UNCHANGED <<shipment, booking, sheld, quote, qheld>>,
           \A x \in OpReqs : x # r => oreq'[x] = oreq[x]
    PROVE  OperationsInv'
<1> USE DEF OperationsInv
<1>1. ShipmentsCoherent' /\ BookingsCoherent' /\ BookingMatchesShipment'
  BY DEF ShipmentsCoherent, BookingsCoherent, BookingMatchesShipment, ShipmentExists,
     BookingExists
<1>2. OpsSupported'
  BY SupportKept DEF OpsSupported
<1> QED BY <1>1, <1>2

\* Inserting a shipment keeps the shipments coherent and disturbs no request.
LEMMA InsertShipmentCoherent ==
    ASSUME OperationsInv, NEW s \in Shipments, NEW row \in ShipmentRow,
           row.status # "none", InsertShipment(s, row)
    PROVE  /\ shipment' \in [Shipments -> ShipmentRow]
           /\ sheld' \in [Shipments -> SUBSET ShipmentStatus]
           /\ ShipmentsCoherent'
           /\ shipment[s] = NoShipment
           /\ shipment'[s] = row /\ sheld'[s] = {row.status}
           /\ \A t \in Shipments : /\ sheld[t] \subseteq sheld'[t]
                                   /\ t # s => shipment'[t] = shipment[t]
                                   /\ t # s => sheld'[t] = sheld[t]
<1> USE DEF OperationsInv, InsertShipment
<1>1. shipment' \in [Shipments -> ShipmentRow] /\ sheld' \in [Shipments -> SUBSET ShipmentStatus]
  BY DEF OperationsTypeOK, ShipmentRow
<1>2. shipment[s] = NoShipment /\ sheld[s] = {}
  BY DEF ShipmentsCoherent
<1>3. /\ shipment'[s] = row /\ sheld'[s] = {row.status}
      /\ \A t \in Shipments : t # s => shipment'[t] = shipment[t] /\ sheld'[t] = sheld[t]
  BY DEF OperationsTypeOK
<1>4. ShipmentsCoherent'
  BY <1>3 DEF ShipmentsCoherent, ShipmentExists
<1> QED BY <1>1, <1>2, <1>3, <1>4

LEMMA CreateShipmentPreserves ==
    ASSUME OperationsInv, NEW s \in Shipments, NEW q \in Quotes \cup {NoRow},
           CreateShipment(s, q), UNCHANGED qheld
    PROVE  OperationsInv'
<1> USE DEF OperationsInv, CreateShipment
<1> DEFINE row == [status |-> "draft", quote |-> q, booking |-> NoRow]
<1>1. row \in ShipmentRow /\ row.status # "none" /\ row.booking = NoRow
  BY DEF ShipmentRow, ShipmentStatus
<1>2. InsertShipment(s, row)
  OBVIOUS
<1> HIDE DEF row
<1>3. /\ shipment' \in [Shipments -> ShipmentRow]
      /\ sheld' \in [Shipments -> SUBSET ShipmentStatus]
      /\ ShipmentsCoherent'
      /\ shipment[s] = NoShipment
      /\ shipment'[s] = row /\ sheld'[s] = {row.status}
      /\ \A t \in Shipments : /\ sheld[t] \subseteq sheld'[t]
                              /\ t # s => shipment'[t] = shipment[t]
                              /\ t # s => sheld'[t] = sheld[t]
  BY <1>1, <1>2, InsertShipmentCoherent
<1>4. OperationsTypeOK'
  BY <1>3 DEF OperationsTypeOK
<1>5. BookingsCoherent'
  BY DEF BookingsCoherent, BookingExists
<1>6. OpsSupported'
  BY <1>3, SupportKept DEF OpsSupported
<1>7. BookingMatchesShipment'
  <2>1. \A b \in Bookings : booking[b].shipment # s
    BY <1>3, OperationsAssumption
    DEF BookingMatchesShipment, NoShipment
  <2> QED
    BY <1>1, <1>3, <2>1 DEF BookingMatchesShipment, OperationsTypeOK, BookingRow
<1> QED BY <1>3, <1>4, <1>5, <1>6, <1>7

LEMMA CreateBookingReadPreserves ==
    ASSUME PipelineInv, NEW r \in OpReqs, NEW q \in Quotes,
           CreateBookingRead(r, q), UNCHANGED quoteVars
    PROVE  OperationsInv'
<1> USE DEF PipelineInv, OperationsInv, CreateBookingRead, OGoto, quoteVars
<1>1. OperationsTypeOK'
  BY DEF OperationsTypeOK, CreatingBooking
<1>2. "accepted" \in qheld[q]
  BY DEF QuotesInv, RowsCoherent, QuoteExists
<1>3. OpSupported(r)' /\ \A x \in OpReqs : x # r => oreq'[x] = oreq[x]
  BY <1>2 DEF OpSupported, OperationsTypeOK
<1> QED BY <1>1, <1>3, OpReadPreserves

LEMMA ChangeStatusReadPreserves ==
    ASSUME OperationsInv, NEW r \in OpReqs, NEW s \in Shipments,
           NEW to \in ShipmentStatus, ChangeStatusRead(r, s, to), UNCHANGED quoteVars
    PROVE  OperationsInv'
<1> USE DEF OperationsInv, ChangeStatusRead, OGoto, quoteVars
<1>1. OperationsTypeOK'
  BY DEF OperationsTypeOK, ChangingStatus
<1>2. shipment[s].status \in sheld[s]
  BY DEF ShipmentsCoherent, ShipmentExists, canTransitionShipment, ShipmentStatus
<1>3. <<shipment[s].status, to>> \in ShipmentEdges
  BY DEF ShipmentEdges, canTransitionShipment
<1>4. OpSupported(r)' /\ \A x \in OpReqs : x # r => oreq'[x] = oreq[x]
  BY <1>2, <1>3 DEF OpSupported, OperationsTypeOK
<1> QED BY <1>1, <1>4, OpReadPreserves

LEMMA OpReqFailsPreserves ==
    ASSUME OperationsInv, NEW r \in OpReqs, OpReqFails(r), UNCHANGED quoteVars
    PROVE  OperationsInv'
<1> USE DEF OperationsInv, OpReqFails, OGoto, quoteVars
<1>1. OperationsTypeOK'
  BY DEF OperationsTypeOK
<1>2. OpSupported(r)' /\ \A x \in OpReqs : x # r => oreq'[x] = oreq[x]
  BY DEF OpSupported, OperationsTypeOK, OIdle
<1> QED BY <1>1, <1>2, OpReadPreserves

LEMMA ChangeStatusWritePreserves ==
    ASSUME OperationsInv, NEW r \in OpReqs, ChangeStatusWrite(r), UNCHANGED quoteVars
    PROVE  OperationsInv'
<1> USE DEF OperationsInv, ChangeStatusWrite, OGoto, quoteVars
<1> DEFINE s == oreq[r].shipment
           to == oreq[r].to
<1>1. s \in Shipments /\ to \in ShipmentStatus
  BY OpRequestFields DEF ChangingStatus
<1>2. PICK p \in sheld[s] : <<p, to>> \in ShipmentEdges
  BY DEF OpsSupported, OpSupported
<1>3. ShipmentExists(s) /\ to # "draft"
  BY <1>1, <1>2 DEF ShipmentsCoherent, ShipmentEdges, canTransitionShipment,
     SHIPMENT_TRANSITIONS, ShipmentStatus
<1>4. OperationsTypeOK'
  BY <1>1 DEF OperationsTypeOK, ShipmentRow
<1>5. /\ \A t \in Shipments : /\ sheld[t] \subseteq sheld'[t]
                              /\ shipment'[t].booking = shipment[t].booking
                              /\ shipment'[t].quote = shipment[t].quote
                              /\ t # s => shipment'[t] = shipment[t] /\ sheld'[t] = sheld[t]
      /\ shipment'[s].status = to /\ sheld'[s] = sheld[s] \cup {to}
  BY <1>1 DEF OperationsTypeOK, ShipmentRow
<1>6. ShipmentsCoherent'
  BY <1>1, <1>3, <1>5 DEF ShipmentsCoherent, ShipmentExists, ShipmentStatus
<1>7. BookingsCoherent'
  BY DEF BookingsCoherent, BookingExists
<1>8. BookingMatchesShipment'
  <2>1. \A b \in Bookings : booking[b].shipment # NoRow => booking[b].shipment \in Shipments
    BY DEF OperationsTypeOK, BookingRow
  <2>2. UNCHANGED booking /\ BookingMatchesShipment
    OBVIOUS
  <2> HIDE DEF OperationsInv, ChangeStatusWrite, OGoto, s, to
  <2> QED BY <1>3, <1>5, <2>1, <2>2 DEF BookingMatchesShipment
<1>9. OpsSupported'
  <2>1. OpSupported(r)' /\ \A x \in OpReqs : x # r => oreq'[x] = oreq[x]
    BY DEF OpSupported, OperationsTypeOK, OIdle
  <2> QED BY <1>5, <2>1, SupportKept DEF OpsSupported
<1> QED BY <1>4, <1>6, <1>7, <1>8, <1>9

\* The booking's transaction: with s = NoRow the booking alone, else the
\* shipment that names it too.
LEMMA CreateBookingCommitPreserves ==
    ASSUME OperationsInv, NEW r \in OpReqs, NEW b \in Bookings,
           NEW s \in Shipments \cup {NoRow}, CreateBookingCommit(r, b, s),
           UNCHANGED quoteVars
    PROVE  OperationsInv'
<1> USE DEF OperationsInv, OGoto, quoteVars
<1> DEFINE q == oreq[r].quote
           row == [status |-> "booked", quote |-> q, booking |-> b]
<1>1. q \in Quotes /\ "accepted" \in qheld[q]
  BY OpRequestFields
  DEF CreateBookingCommit, CreatingBooking, OpsSupported, OpSupported
<1>2. /\ booking[b] = NoBooking
      /\ booking'[b] = [status |-> "confirmed", quote |-> q, shipment |-> s]
      /\ \A c \in Bookings : c # b => booking'[c] = booking[c]
      /\ booking' \in [Bookings -> BookingRow]
      /\ oreq' = [oreq EXCEPT ![r] = OIdle]
  BY <1>1 DEF CreateBookingCommit, BookingsCoherent, OperationsTypeOK, BookingRow
<1>3. oreq' \in [OpReqs -> {OIdle} \cup CreatingBooking \cup ChangingStatus]
  BY <1>2 DEF OperationsTypeOK
<1>4. OpSupported(r)' /\ \A x \in OpReqs : x # r => oreq'[x] = oreq[x]
  BY <1>2 DEF OpSupported, OperationsTypeOK, OIdle
<1>5. BookingsCoherent'
  BY <1>1, <1>2 DEF BookingsCoherent, BookingExists
<1>6. \A t \in Shipments : shipment[t].booking # b
  BY <1>2, OperationsAssumption DEF BookingMatchesShipment, NoBooking
<1>7. CASE s = NoRow
  <2>1. shipment' = shipment /\ sheld' = sheld
    BY <1>7 DEF CreateBookingCommit
  <2>2. OperationsTypeOK' /\ ShipmentsCoherent'
    BY <1>2, <1>3, <2>1 DEF OperationsTypeOK, ShipmentsCoherent, ShipmentExists
  <2>3. BookingMatchesShipment'
    BY <1>2, <1>6, <1>7, <2>1 DEF BookingMatchesShipment, OperationsTypeOK, ShipmentRow
  <2>4. OpsSupported'
    BY <1>4, <2>1, SupportKept DEF OpsSupported
  <2> QED BY <1>5, <2>2, <2>3, <2>4
<1>8. CASE s # NoRow
  <2>1. s \in Shipments /\ InsertShipment(s, row)
    BY <1>8 DEF CreateBookingCommit
  <2>2. row \in ShipmentRow /\ row.status = "booked"
    BY <1>1 DEF ShipmentRow, ShipmentStatus
  <2> HIDE DEF row
  <2>3. /\ shipment' \in [Shipments -> ShipmentRow]
        /\ sheld' \in [Shipments -> SUBSET ShipmentStatus]
        /\ ShipmentsCoherent'
        /\ shipment[s] = NoShipment
        /\ shipment'[s] = row /\ sheld'[s] = {"booked"}
        /\ \A t \in Shipments : /\ sheld[t] \subseteq sheld'[t]
                                /\ t # s => shipment'[t] = shipment[t]
                                /\ t # s => sheld'[t] = sheld[t]
    BY <2>1, <2>2, InsertShipmentCoherent
  <2>4. OperationsTypeOK'
    BY <1>2, <1>3, <2>3 DEF OperationsTypeOK
  <2>5. OpsSupported'
    BY <1>4, <2>3, SupportKept DEF OpsSupported
  <2>6. row.quote = q /\ row.booking = b
    BY DEF row
  <2>7. \A c \in Bookings : booking[c].shipment # s
    BY <1>8, <2>3, OperationsAssumption DEF BookingMatchesShipment, NoShipment
  <2>8. BookingMatchesShipment'
    <3>1. \A c \in Bookings : booking'[c].shipment # NoRow =>
            /\ shipment'[booking'[c].shipment].booking = c
            /\ shipment'[booking'[c].shipment].quote = booking'[c].quote
      BY <1>2, <2>3, <2>6, <2>7 DEF BookingMatchesShipment, OperationsTypeOK, BookingRow
    <3>2. \A t \in Shipments : shipment'[t].booking # NoRow =>
            /\ booking'[shipment'[t].booking].shipment = t
            /\ "draft" \notin sheld'[t]
      BY <1>2, <1>6, <2>3, <2>6 DEF BookingMatchesShipment, OperationsTypeOK, ShipmentRow
    <3> QED BY <3>1, <3>2 DEF BookingMatchesShipment
  <2> QED BY <1>5, <2>3, <2>4, <2>5, <2>8
<1> QED BY <1>7, <1>8

-----------------------------------------------------------------------------
\* Every step of the pipeline preserves the inductive invariant.
THEOREM NextPreservesPipelineInv == PipelineInv /\ [Next]_vars => PipelineInv'
<1> SUFFICES ASSUME PipelineInv, [Next]_vars PROVE PipelineInv'
  OBVIOUS
<1>1. CASE UNCHANGED vars
  BY <1>1, QuoteStepPreserves DEF vars
<1>2. CASE QuotesNext /\ UNCHANGED opVars
  BY <1>2, QuoteStepPreserves
<1>3. CASE OperationsNext /\ UNCHANGED quoteVars
  <2>1. QuotesInv'
    BY <1>3, NextPreservesQuotesInv DEF PipelineInv
  <2>2. UNCHANGED qheld
    BY <1>3 DEF quoteVars
  <2>3. OperationsInv'
    BY <1>3, <2>2, CreateShipmentPreserves, CreateBookingReadPreserves,
       CreateBookingCommitPreserves, ChangeStatusReadPreserves,
       ChangeStatusWritePreserves, OpReqFailsPreserves
    DEF OperationsNext, PipelineInv
  <2> QED BY <2>1, <2>3 DEF PipelineInv
<1> QED BY <1>1, <1>2, <1>3 DEF Next

\* The same of quotes, bookings and shipments together.
THEOREM PipelineInvariant == Spec => []PipelineInv
  BY InitPipelineInv, NextPreservesPipelineInv, PTL DEF Spec

\* Every variable of the bookings and shipments keeps its type.
THEOREM OperationsTypeCorrect == Spec => []OperationsTypeOK
  BY PipelineInvariant, PTL DEF PipelineInv, OperationsInv

\* Bookings and the shipments they created always name each other and one quote,
\* whatever other requests do to either (createBooking, changeStatus).
THEOREM BookingsMatchShipments == Spec => []BookingMatchesShipment
  BY PipelineInvariant, PTL DEF PipelineInv, OperationsInv

-----------------------------------------------------------------------------
\* Only the inserts and ChangeStatusWrite touch a shipment's history, and the
\* write adds a status whose predecessor was read from it.
LEMMA ShipmentStepOnPath ==
    ASSUME PipelineInv, [Next]_vars
    PROVE  [ShipmentPath!Next]_sheld
<1> USE DEF PipelineInv, OperationsInv
<1>1. ASSUME NEW s \in Shipments, NEW row, row.status \in {"draft", "booked"},
             InsertShipment(s, row)
      PROVE  ShipmentPath!Next
  <2>1. sheld[s] = {}
    BY <1>1 DEF InsertShipment, ShipmentsCoherent
  <2> QED BY <1>1, <2>1 DEF InsertShipment, ShipmentPath!Next, ShipmentPath!Open
<1>2. ASSUME NEW r \in OpReqs, ChangeStatusWrite(r) PROVE ShipmentPath!Next
  <2> DEFINE s == oreq[r].shipment
             to == oreq[r].to
  <2>1. s \in Shipments
    BY <1>2, OpRequestFields DEF ChangeStatusWrite, ChangingStatus
  <2>2. PICK p \in sheld[s] : <<p, to>> \in ShipmentEdges
    BY <1>2 DEF ChangeStatusWrite, OpsSupported, OpSupported
  <2>3. to \in ShipmentPath!Targets
    BY <2>2 DEF ShipmentPath!Targets
  <2>4. ShipmentPath!Reach(s, to)
    BY <1>2, <2>2 DEF ChangeStatusWrite, ShipmentPath!Reach
  <2> QED BY <2>1, <2>3, <2>4 DEF ShipmentPath!Next
<1>3. ASSUME NEW s \in Shipments, NEW q \in Quotes \cup {NoRow}, CreateShipment(s, q)
      PROVE  ShipmentPath!Next
  BY <1>1, <1>3 DEF CreateShipment
<1>4. ASSUME NEW r \in OpReqs, NEW b \in Bookings, NEW s \in Shipments \cup {NoRow},
             CreateBookingCommit(r, b, s)
      PROVE  [ShipmentPath!Next]_sheld
  <2>1. CASE s = NoRow
    BY <1>4, <2>1 DEF CreateBookingCommit
  <2>2. CASE s # NoRow
    BY <1>1, <1>4, <2>2 DEF CreateBookingCommit
  <2> QED BY <2>1, <2>2
<1> QED
  BY <1>2, <1>3, <1>4
  DEF Next, OperationsNext, vars, opVars, CreateBookingRead, ChangeStatusRead, OpReqFails

\* Shipment statuses implement StatusPath, whatever changeStatus requests overlap.
THEOREM ShipmentsImplementPath == Spec => ShipmentsFollowPath
<1>1. Init => ShipmentPath!Init
  BY DEF Init, OperationsInit, ShipmentPath!Init
<1>2. PipelineInv /\ [Next]_vars => [ShipmentPath!Next]_sheld
  BY ShipmentStepOnPath
<1> QED
  BY <1>1, <1>2, PipelineInvariant, PTL DEF Spec, ShipmentsFollowPath, ShipmentPath!Spec

\* Each stage of carriage is entered from the stage before it alone.
LEMMA ShipmentPredecessors ==
    ASSUME NEW from
    PROVE  /\ <<from, "delivered">> \in ShipmentEdges => from = "arrived"
           /\ <<from, "arrived">> \in ShipmentEdges => from = "in_transit"
           /\ <<from, "in_transit">> \in ShipmentEdges => from = "booked"
<1>1. \A to : <<from, to>> \in ShipmentEdges =>
        from \in ShipmentStatus /\ to \in SHIPMENT_TRANSITIONS[from]
  BY DEF ShipmentEdges, canTransitionShipment
<1> QED BY <1>1 DEF SHIPMENT_TRANSITIONS, ShipmentStatus

\* A delivered shipment was booked, in transit and arrived before: read off the
\* closure of its history backwards from 'delivered'.
THEOREM DeliveredWasReallyCarried == Spec => []DeliveredWasCarried
<1>1. Spec => []ShipmentPath!Closed
  BY ShipmentsImplementPath, ShipmentPath!StaysClosed, PTL DEF ShipmentsFollowPath
<1>2. ShipmentPath!Closed => DeliveredWasCarried
  <2> SUFFICES ASSUME ShipmentPath!Closed, NEW s \in Shipments, "delivered" \in sheld[s]
               PROVE  {"booked", "in_transit", "arrived"} \subseteq sheld[s]
    BY DEF DeliveredWasCarried
  <2>1. "arrived" \in sheld[s]
    BY ShipmentPredecessors DEF ShipmentPath!Closed
  <2>2. "in_transit" \in sheld[s]
    BY <2>1, ShipmentPredecessors DEF ShipmentPath!Closed
  <2>3. "booked" \in sheld[s]
    BY <2>2, ShipmentPredecessors DEF ShipmentPath!Closed
  <2> QED BY <2>1, <2>2, <2>3
<1> QED BY <1>1, <1>2, PTL

\* A booked quote was once sent and accepted: the booking's history reaches back
\* into the quote's, across the two components.
THEOREM BookedQuotesWereAccepted == Spec => []BookedQuoteWasAccepted
<1>1. Spec => []QuotePath!Closed
  BY PipelineImplementsQuotes, QuoteHistoriesAreClosed, PTL
<1>2. PipelineInv /\ QuotePath!Closed => BookedQuoteWasAccepted
  <2> SUFFICES ASSUME PipelineInv, QuotePath!Closed, NEW b \in Bookings, BookingExists(b)
               PROVE  {"draft", "sent", "accepted"} \subseteq qheld[booking[b].quote]
    BY DEF BookedQuoteWasAccepted
  <2> DEFINE q == booking[b].quote
  <2>1. q \in Quotes /\ "accepted" \in qheld[q]
    BY DEF PipelineInv, OperationsInv, BookingsCoherent
  <2>2. "sent" \in qheld[q]
    BY <2>1 DEF QuotePath!Closed, QuoteEdges
  <2>3. "draft" \in qheld[q]
    BY <2>1, <2>2 DEF QuotePath!Closed, QuoteEdges
  <2> QED BY <2>1, <2>2, <2>3
<1> QED BY <1>1, <1>2, PipelineInvariant, PTL

-----------------------------------------------------------------------------
\* With one request at a time on shipments nothing moves a shipment between the
\* read of its status and the write.
ShipmentReadIsFresh ==
    \A r \in OpReqs : oreq[r].op = "change" =>
        canTransitionShipment(shipment[oreq[r].shipment].status, oreq[r].to)

\* While a single request on bookings and shipments runs at a time every change
\* of a shipment's status is in SHIPMENT_TRANSITIONS; with two it need not be
\* (changeStatus updates by id after checking what it read).
THEOREM SerialTransitionsAreLegal ==
    ASSUME NEW r, OpReqs = {r}
    PROVE  Spec => TransitionsAreLegal
<1> DEFINE Legal == \A s \in Shipments : ShipmentExists(s) =>
                        \/ shipment'[s].status = shipment[s].status
                        \/ canTransitionShipment(shipment[s].status, shipment'[s].status)
<1>1. Init => ShipmentReadIsFresh
  BY DEF Init, OperationsInit, ShipmentReadIsFresh, OIdle
<1>2. ASSUME PipelineInv, ShipmentReadIsFresh, [Next]_vars
      PROVE  ShipmentReadIsFresh' /\ [Legal]_vars
  <2> USE <1>2 DEF PipelineInv, OperationsInv, OperationsTypeOK, OGoto
  <2>1. CASE UNCHANGED <<shipment, oreq>>
    BY <2>1 DEF ShipmentReadIsFresh
  <2>2. ASSUME NEW s \in Shipments, NEW to \in ShipmentStatus, ChangeStatusRead(r, s, to)
        PROVE  ShipmentReadIsFresh' /\ Legal
    BY <2>2 DEF ChangeStatusRead, ShipmentReadIsFresh
  <2>3. CASE ChangeStatusWrite(r)
    <3>1. /\ oreq[r].shipment \in Shipments
          /\ canTransitionShipment(shipment[oreq[r].shipment].status, oreq[r].to)
      BY <2>3, OpRequestFields DEF ChangeStatusWrite, ChangingStatus, ShipmentReadIsFresh
    <3> QED BY <2>3, <3>1 DEF ChangeStatusWrite, ShipmentReadIsFresh, OIdle, ShipmentRow
  <2>4. ASSUME NEW s \in Shipments, NEW q \in Quotes \cup {NoRow}, CreateShipment(s, q)
        PROVE  ShipmentReadIsFresh' /\ Legal
    <3>1. /\ \A t \in Shipments : ShipmentExists(t) => shipment'[t] = shipment[t]
          /\ oreq' = oreq
      BY <2>4 DEF CreateShipment, InsertShipment, ShipmentExists
    <3>2. oreq[r].op = "change" =>
            oreq[r].shipment \in Shipments /\ ShipmentExists(oreq[r].shipment)
      BY OpRequestFields
      DEF ChangingStatus, ShipmentReadIsFresh, canTransitionShipment, ShipmentExists,
          ShipmentStatus
    <3> QED BY <3>1, <3>2 DEF ShipmentReadIsFresh
  <2>5. ASSUME NEW b \in Bookings, NEW s \in Shipments \cup {NoRow},
               CreateBookingCommit(r, b, s)
        PROVE  ShipmentReadIsFresh' /\ Legal
    BY <2>5 DEF CreateBookingCommit, InsertShipment, ShipmentExists,
                ShipmentReadIsFresh, OIdle
  <2>6. CASE OpReqFails(r) \/ \E q \in Quotes : CreateBookingRead(r, q)
    BY <2>6 DEF OpReqFails, CreateBookingRead, ShipmentReadIsFresh, OIdle
  <2> QED
    BY <2>1, <2>2, <2>3, <2>4, <2>5, <2>6 DEF Next, OperationsNext, vars, opVars
<1> QED BY <1>1, <1>2, PipelineInvariant, PTL DEF Spec, TransitionsAreLegal

\* The quotes that booking requests have looked at are still accepted.
BookReadIsFresh ==
    \A x \in OpReqs : oreq[x].op = "book" => quote[oreq[x].quote].status = "accepted"

\* While a single request on quotes runs at a time a quote is accepted at the
\* moment it is booked, however many booking requests overlap: what could make
\* createBooking's check stale is only a second decision on the quote.
THEOREM SerialBookedWhileAccepted ==
    ASSUME NEW r, QuoteReqs = {r}
    PROVE  Spec => BookedWhileAccepted
<1> DEFINE Accepted == \A b \in Bookings : BookingExists(b)' /\ ~BookingExists(b) =>
                           quote[booking'[b].quote].status = "accepted"
           Final == \A q \in Quotes : quote[q].status \in {"accepted", "declined"} =>
                        quote'[q].status = quote[q].status
<1>1. Init => BookReadIsFresh
  BY DEF Init, OperationsInit, BookReadIsFresh, OIdle
<1>2. Spec => [][Final]_quoteVars
  BY PipelineImplementsQuotes, SerialDecisionIsFinal DEF DecisionIsFinal
<1>3. ASSUME PipelineInv, BookReadIsFresh, [Next]_vars, [Final]_quoteVars
      PROVE  BookReadIsFresh' /\ [Accepted]_vars
  <2> USE <1>3 DEF PipelineInv, OperationsInv, OperationsTypeOK, OGoto
  <2>1. CASE UNCHANGED opVars
    <3>1. \A x \in OpReqs : oreq[x].op = "book" => oreq[x].quote \in Quotes
      BY OpRequestFields DEF CreatingBooking
    <3> QED BY <2>1, <3>1 DEF opVars, quoteVars, BookReadIsFresh, BookingExists
  <2>2. ASSUME NEW x \in OpReqs, NEW q \in Quotes, CreateBookingRead(x, q), quote' = quote
        PROVE  BookReadIsFresh' /\ Accepted
    BY <2>2 DEF CreateBookingRead, BookReadIsFresh, BookingExists
  <2>3. ASSUME NEW x \in OpReqs, NEW b \in Bookings, NEW s \in Shipments \cup {NoRow},
               CreateBookingCommit(x, b, s), quote' = quote
        PROVE  BookReadIsFresh' /\ Accepted
    BY <2>3 DEF CreateBookingCommit, BookReadIsFresh, BookingExists, OIdle
  <2>4. ASSUME NEW x \in OpReqs, UNCHANGED <<booking, quote>>,
               \/ ChangeStatusWrite(x) \/ OpReqFails(x)
               \/ \E s \in Shipments, to \in ShipmentStatus : ChangeStatusRead(x, s, to)
        PROVE  BookReadIsFresh' /\ Accepted
    BY <2>4 DEF ChangeStatusWrite, OpReqFails, ChangeStatusRead, BookReadIsFresh,
                BookingExists, OIdle
  <2>5. CASE UNCHANGED <<booking, oreq, quote>>
    BY <2>5 DEF BookReadIsFresh, BookingExists
  <2> QED
    BY <2>1, <2>2, <2>3, <2>4, <2>5
    DEF Next, OperationsNext, vars, opVars, quoteVars, CreateShipment, ChangeStatusWrite,
        OpReqFails, ChangeStatusRead
<1> QED BY <1>1, <1>2, <1>3, PipelineInvariant, PTL DEF Spec, BookedWhileAccepted
=============================================================================
