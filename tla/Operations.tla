----------------------------- MODULE Operations -----------------------------
(***************************************************************************)
(* Bookings and shipments (operations/operations.service.ts and            *)
(* operations/shipment-status.ts) on top of the quotes they come from.     *)
(* Conventions are those of Quotes.tla: a slot of OpReqs is an HTTP        *)
(* request, a Prisma call or transaction is one step, rows are not         *)
(* deleted.  A booking reads a quote that other requests keep changing.    *)
(***************************************************************************)
EXTENDS Quotes

CONSTANTS
    Shipments,      \* ids of shipments
    Bookings,       \* ids of bookings
    OpReqs,         \* concurrent HTTP requests on bookings and shipments
    OpReqsFail      \* TRUE: a request may die between two of its statements

ASSUME OperationsAssumption ==
    /\ NoRow \notin Shipments \cup Bookings
    /\ OpReqsFail \in BOOLEAN

VARIABLES
    shipment,   \* shipment[s]: row of shipment s
    booking,    \* booking[b]: row of booking b
    sheld,      \* history: the statuses shipment s has held
    oreq        \* oreq[r]: what request r has read and is about to write

opVars == <<shipment, booking, sheld, oreq>>
vars == <<quoteVars, opVars>>

-----------------------------------------------------------------------------
ShipmentStatus ==
    {"draft", "booked", "in_transit", "arrived", "delivered", "cancelled"}

\* Mutant: a shipment may be delivered before it has arrived.
SHIPMENT_TRANSITIONS_SKIP ==
    [draft      |-> {"booked", "cancelled"},
     booked     |-> {"in_transit", "cancelled"},
     in_transit |-> {"arrived", "delivered", "cancelled"},
     arrived    |-> {"delivered", "cancelled"},
     delivered  |-> {},
     cancelled  |-> {}]

SHIPMENT_TRANSITIONS ==
    [draft      |-> {"booked", "cancelled"},
     booked     |-> {"in_transit", "cancelled"},
     in_transit |-> {"arrived", "cancelled"},
     arrived    |-> {"delivered", "cancelled"},
     delivered  |-> {},
     cancelled  |-> {}]

canTransitionShipment(from, to) ==
    from \in ShipmentStatus /\ to \in SHIPMENT_TRANSITIONS[from]

ShipmentRow == [status : ShipmentStatus \cup {"none"}, quote : Quotes \cup {NoRow},
                booking : Bookings \cup {NoRow}]
NoShipment == [status |-> "none", quote |-> NoRow, booking |-> NoRow]

BookingRow == [status : {"confirmed", "none"}, quote : Quotes \cup {NoRow},
               shipment : Shipments \cup {NoRow}]
NoBooking == [status |-> "none", quote |-> NoRow, shipment |-> NoRow]

ShipmentExists(s) == shipment[s].status # "none"
BookingExists(b) == booking[b].status # "none"

OIdle == [op |-> "idle"]
CreatingBooking == [op : {"book"}, quote : Quotes]
ChangingStatus == [op : {"change"}, shipment : Shipments, to : ShipmentStatus]

OperationsTypeOK ==
    /\ shipment \in [Shipments -> ShipmentRow]
    /\ booking \in [Bookings -> BookingRow]
    /\ sheld \in [Shipments -> SUBSET ShipmentStatus]
    /\ oreq \in [OpReqs -> {OIdle} \cup CreatingBooking \cup ChangingStatus]

OperationsInit ==
    /\ shipment = [s \in Shipments |-> NoShipment]
    /\ booking = [b \in Bookings |-> NoBooking]
    /\ sheld = [s \in Shipments |-> {}]
    /\ oreq = [r \in OpReqs |-> OIdle]

-----------------------------------------------------------------------------
OGoto(r, next) == oreq' = [oreq EXCEPT ![r] = next]

InsertShipment(s, row) ==
    /\ ~ShipmentExists(s)
    /\ shipment' = [shipment EXCEPT ![s] = row]
    /\ sheld' = [sheld EXCEPT ![s] = {row.status}]

\* createShipment: a shipment of its own, or one that names a quote in any
\* status.  Quotes are not deleted, so the check and the insert are one step.
CreateShipment(s, q) ==
    /\ q # NoRow => QuoteExists(q)
    /\ InsertShipment(s, [status |-> "draft", quote |-> q, booking |-> NoRow])
    /\ UNCHANGED <<booking, oreq>>

\* Mutant: any quote that exists may be booked.
CreateBookingReadUnchecked(r, q) ==
    /\ oreq[r] = OIdle
    /\ QuoteExists(q)
    /\ OGoto(r, [op |-> "book", quote |-> q])
    /\ UNCHANGED <<shipment, booking, sheld>>

\* createBooking looks at the quote before its transaction begins.
CreateBookingRead(r, q) ==
    /\ oreq[r] = OIdle
    /\ quote[q].status = "accepted"
    /\ OGoto(r, [op |-> "book", quote |-> q])
    /\ UNCHANGED <<shipment, booking, sheld>>

\* Mutant: the shipment is inserted without its booking.
CreateBookingCommitUnlinked(r, b, s) ==
    /\ oreq[r].op = "book"
    /\ ~BookingExists(b)
    /\ booking' = [booking EXCEPT ![b] = [status |-> "confirmed",
                        quote |-> oreq[r].quote, shipment |-> s]]
    /\ IF s = NoRow
       THEN UNCHANGED <<shipment, sheld>>
       ELSE InsertShipment(s, [status |-> "booked", quote |-> oreq[r].quote,
                               booking |-> NoRow])
    /\ OGoto(r, OIdle)

\* Mutant: the booking keeps the default status of its column.
CreateBookingCommitDraft(r, b, s) ==
    /\ oreq[r].op = "book"
    /\ ~BookingExists(b)
    /\ booking' = [booking EXCEPT ![b] = [status |-> "draft",
                        quote |-> oreq[r].quote, shipment |-> s]]
    /\ IF s = NoRow
       THEN UNCHANGED <<shipment, sheld>>
       ELSE InsertShipment(s, [status |-> "booked", quote |-> oreq[r].quote,
                               booking |-> b])
    /\ OGoto(r, OIdle)

\* The transaction: the booking alone (createShipment === false), or a shipment
\* in 'booked', the booking that names it, and the shipment's link back.
CreateBookingCommit(r, b, s) ==
    /\ oreq[r].op = "book"
    /\ ~BookingExists(b)
    /\ booking' = [booking EXCEPT ![b] = [status |-> "confirmed",
                        quote |-> oreq[r].quote, shipment |-> s]]
    /\ IF s = NoRow
       THEN UNCHANGED <<shipment, sheld>>
       ELSE InsertShipment(s, [status |-> "booked", quote |-> oreq[r].quote,
                               booking |-> b])
    /\ OGoto(r, OIdle)

-----------------------------------------------------------------------------
\* Mutant: the table is not consulted.
ChangeStatusReadUnchecked(r, s, to) ==
    /\ oreq[r] = OIdle
    /\ ShipmentExists(s)
    /\ OGoto(r, [op |-> "change", shipment |-> s, to |-> to])
    /\ UNCHANGED <<shipment, booking, sheld>>

\* changeStatus: read the row, refuse a transition the table does not list,
\* then update the row by id, whatever status it has by then.
ChangeStatusRead(r, s, to) ==
    /\ oreq[r] = OIdle
    /\ canTransitionShipment(shipment[s].status, to)
    /\ OGoto(r, [op |-> "change", shipment |-> s, to |-> to])
    /\ UNCHANGED <<shipment, booking, sheld>>

ChangeStatusWrite(r) ==
    /\ oreq[r].op = "change"
    /\ shipment' = [shipment EXCEPT ![oreq[r].shipment].status = oreq[r].to]
    /\ sheld' = [sheld EXCEPT ![oreq[r].shipment] = @ \cup {oreq[r].to}]
    /\ OGoto(r, OIdle)
    /\ UNCHANGED booking

\* The process dies, or a transaction rolls back.
OpReqFails(r) ==
    /\ OpReqsFail
    /\ oreq[r] # OIdle
    /\ OGoto(r, OIdle)
    /\ UNCHANGED <<shipment, booking, sheld>>

OperationsNext ==
    \/ \E s \in Shipments, q \in Quotes \cup {NoRow} : CreateShipment(s, q)
    \/ \E r \in OpReqs :
        \/ \E q \in Quotes : CreateBookingRead(r, q)
        \/ \E b \in Bookings, s \in Shipments \cup {NoRow} : CreateBookingCommit(r, b, s)
        \/ \E s \in Shipments, to \in ShipmentStatus : ChangeStatusRead(r, s, to)
        \/ ChangeStatusWrite(r)
        \/ OpReqFails(r)

-----------------------------------------------------------------------------
\* The pipeline from RFQ to delivery: each component's requests interleave.
Init == QuotesInit /\ OperationsInit

Next ==
    \/ QuotesNext /\ UNCHANGED opVars
    \/ OperationsNext /\ UNCHANGED quoteVars

Spec == Init /\ [][Next]_vars

FairSpec == Spec /\ QuotesFairness

-----------------------------------------------------------------------------
ShipmentEdges ==
    {e \in ShipmentStatus \X ShipmentStatus : canTransitionShipment(e[1], e[2])}

ShipmentPath == INSTANCE StatusPath WITH
    Entities <- Shipments, Opening <- {"draft", "booked"},
    Edges <- ShipmentEdges, held <- sheld

\* Whatever the interleaving of changeStatus requests, a shipment reaches a
\* status only from one it really held (changeStatus, SHIPMENT_TRANSITIONS).
ShipmentsFollowPath == ShipmentPath!Spec

\* A delivered shipment has been through every stage of carriage, even when
\* its status was overwritten by requests that had read an older one.
DeliveredWasCarried ==
    \A s \in Shipments : "delivered" \in sheld[s] =>
        {"booked", "in_transit", "arrived"} \subseteq sheld[s]

\* Bookings and the shipments they created name each other and the same quote,
\* and such a shipment was never a draft (createBooking's transaction).
BookingMatchesShipment ==
    /\ \A b \in Bookings : booking[b].shipment # NoRow =>
        /\ shipment[booking[b].shipment].booking = b
        /\ shipment[booking[b].shipment].quote = booking[b].quote
    /\ \A s \in Shipments : shipment[s].booking # NoRow =>
        /\ booking[shipment[s].booking].shipment = s
        /\ "draft" \notin sheld[s]

\* A quote that has been booked was sent to the customer and accepted, although
\* the booking's check of it is stale by the time the transaction commits.
BookedQuoteWasAccepted ==
    \A b \in Bookings : BookingExists(b) =>
        {"draft", "sent", "accepted"} \subseteq qheld[booking[b].quote]

\* SHIPMENT_TRANSITIONS lists the "Allowed next statuses for each current
\* shipment status": every change of a shipment's status is in the table.
TransitionsAreLegal ==
    [][\A s \in Shipments : ShipmentExists(s) =>
        \/ shipment'[s].status = shipment[s].status
        \/ canTransitionShipment(shipment[s].status, shipment'[s].status)]_vars

\* "Quote must be accepted before booking": the quote is accepted at the moment
\* a booking of it is created.
BookedWhileAccepted ==
    [][\A b \in Bookings : BookingExists(b)' /\ ~BookingExists(b) =>
        quote[booking'[b].quote].status = "accepted"]_vars

\* "one booking per accepted quote path": two bookings never name one quote.
OneBookingPerQuote ==
    \A b, c \in Bookings :
        BookingExists(b) /\ booking[b].quote = booking[c].quote => b = c
=============================================================================
