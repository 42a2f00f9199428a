-------------------------------- MODULE Desk --------------------------------
(***************************************************************************)
(* Replies to support requests and tickets and the notifications they      *)
(* cause: support/support.service.ts and notifications.service.ts.         *)
(*                                                                         *)
(* A reply is three statements: the ticket is read, the message inserted,  *)
(* the status written, which for a reply that is not the staff's is the    *)
(* one that was read.  A reply to a RAANKO ticket then notifies whoever    *)
(* opened it, whose preferences are found or else inserted.                *)
(***************************************************************************)
EXTENDS Integers, FiniteSets

CONSTANTS
    CompanyRequests,    \* support requests of a customer to its company
    RaankoTickets,      \* tickets of a company to the platform
    DeskReqs,           \* concurrent HTTP requests
    MaxReplies,         \* bound: messages to a ticket
    DeskReqsFail        \* TRUE: a request may die between two statements

ASSUME DeskAssumption ==
    /\ CompanyRequests \cap RaankoTickets = {} /\ "update" \notin RaankoTickets
    /\ IsFiniteSet(DeskReqs) /\ MaxReplies \in Nat
    /\ DeskReqsFail \in BOOLEAN

VARIABLES
    ticket,     \* ticket[k]: status and number of messages
    prefs,      \* preferences of the user who opens the RAANKO tickets
    notice,     \* notice[k]: unread and read notifications about k
    deskreq,    \* deskreq[r]: where request r is
    answered,   \* history: tickets to which the staff has written a status
    overlapped, \* history: tickets where it did so while another reply was in
    missing     \* history: missing[k] replies never notified: a failure, or a choice

deskVars == <<ticket, prefs, notice, deskreq, answered, overlapped, missing>>

-----------------------------------------------------------------------------
Tickets == CompanyRequests \cup RaankoTickets
TicketRow == [status : {"none", "open", "in_progress"}, messages : 0 .. MaxReplies]
Preferences == {"none", "inApp", "silent"}

KIdle == [op |-> "idle"]
Replying == [op : {"message", "status"}, ticket : Tickets, staff : BOOLEAN,
             read : {"open", "in_progress"}]
\* about = "update": the preferences are for updatePreferences, to become new
Preparing == [op : {"find", "insertPrefs"}, about : RaankoTickets] \cup
             [op : {"find", "insertPrefs"}, about : {"update"}, new : Preferences \ {"none"}]
Updating == [op : {"update"}, new : Preferences \ {"none"}]
Notifying == [op : {"notify"}, about : RaankoTickets, inApp : BOOLEAN]

DeskTypeOK ==
    /\ ticket \in [Tickets -> TicketRow]
    /\ prefs \in Preferences
    /\ notice \in [RaankoTickets -> [unread : 0 .. MaxReplies, read : 0 .. MaxReplies]]
    /\ deskreq \in [DeskReqs -> {KIdle} \cup Replying \cup Preparing \cup Updating \cup Notifying]
    /\ answered \subseteq Tickets /\ overlapped \subseteq answered
    /\ missing \in [RaankoTickets -> 0 .. MaxReplies]

DeskInit ==
    /\ ticket = [k \in Tickets |-> [status |-> "none", messages |-> 0]]
    /\ prefs = "none"
    /\ notice = [k \in RaankoTickets |-> [unread |-> 0, read |-> 0]]
    /\ deskreq = [r \in DeskReqs |-> KIdle]
    /\ answered = {} /\ overlapped = {}
    /\ missing = [k \in RaankoTickets |-> 0]

-----------------------------------------------------------------------------
KGoto(r, next) == deskreq' = [deskreq EXCEPT ![r] = next]
Misses(k) == missing' = [missing EXCEPT ![k] = @ + 1]

\* createCompanyRequest, createRaankoTicket
createTicket(k) ==
    /\ ticket[k].status = "none"
    /\ ticket' = [ticket EXCEPT ![k].status = "open"]
    /\ UNCHANGED <<prefs, notice, deskreq, answered, overlapped, missing>>

\* The replies to k that have read its status.
RepliesTo(k) == {r \in DeskReqs : deskreq[r].op \in {"message", "status"} /\ deskreq[r].ticket = k}

ReplyRead(r, k, staff) ==
    /\ deskreq[r] = KIdle
    /\ ticket[k].status # "none"
    /\ KGoto(r, [op |-> "message", ticket |-> k, staff |-> staff, read |-> ticket[k].status])
    /\ UNCHANGED <<ticket, prefs, notice, answered, overlapped, missing>>

InsertMessage(r) == LET k == deskreq[r].ticket IN
    /\ deskreq[r].op = "message"
    /\ ticket[k].messages < MaxReplies
    /\ ticket' = [ticket EXCEPT ![k].messages = @ + 1]
    /\ KGoto(r, [deskreq[r] EXCEPT !.op = "status"])
    /\ UNCHANGED <<prefs, notice, answered, overlapped, missing>>

\* Mutant: a reply of the other side opens the ticket again.
StatusAfterOpen(staff, read) == IF staff THEN "in_progress" ELSE "open"

StatusAfter(staff, read) == IF staff THEN "in_progress" ELSE read

WriteStatus(r) == LET q == deskreq[r] IN
    /\ q.op = "status"
    /\ ticket' = [ticket EXCEPT ![q.ticket].status = StatusAfter(q.staff, q.read)]
    /\ answered' = IF q.staff THEN answered \cup {q.ticket} ELSE answered
    /\ overlapped' = IF q.staff /\ RepliesTo(q.ticket) # {r}
                     THEN overlapped \cup {q.ticket} ELSE overlapped
    /\ KGoto(r, IF q.ticket \in RaankoTickets THEN [op |-> "find", about |-> q.ticket] ELSE KIdle)
    /\ UNCHANGED <<prefs, notice, missing>>

-----------------------------------------------------------------------------
\* getPreferences and updatePreferences; without a row they insert one first.
PreferencesCall(r, new) ==
    /\ deskreq[r] = KIdle
    /\ KGoto(r, [op |-> "find", about |-> "update", new |-> new])
    /\ UNCHANGED <<ticket, prefs, notice, answered, overlapped, missing>>

\* Where a request goes on that has found or inserted preferences p.
WithPreferences(q, p) ==
    IF q.about = "update" THEN [op |-> "update", new |-> q.new]
    ELSE [op |-> "notify", about |-> q.about, inApp |-> p = "inApp"]

FindPreferences(r) == LET q == deskreq[r] IN
    /\ q.op = "find"
    /\ KGoto(r, IF prefs = "none" THEN [q EXCEPT !.op = "insertPrefs"]
                ELSE WithPreferences(q, prefs))
    /\ UNCHANGED <<ticket, prefs, notice, answered, overlapped, missing>>

InsertPreferences(r) ==
    /\ deskreq[r].op = "insertPrefs"
    /\ prefs = "none"
    /\ prefs' = "inApp"
    /\ KGoto(r, WithPreferences(deskreq[r], "inApp"))
    /\ UNCHANGED <<ticket, notice, answered, overlapped, missing>>

UpdatePreferences(r) ==
    /\ deskreq[r].op = "update"
    /\ prefs' = deskreq[r].new
    /\ KGoto(r, KIdle)
    /\ UNCHANGED <<ticket, notice, answered, overlapped, missing>>

\* createAndSend: in the app, if the preferences that were found say so.
Notify(r) == LET q == deskreq[r] IN
    /\ q.op = "notify"
    /\ IF q.inApp
       THEN notice' = [notice EXCEPT ![q.about].unread = @ + 1] /\ UNCHANGED missing
       ELSE Misses(q.about) /\ UNCHANGED notice
    /\ KGoto(r, KIdle)
    /\ UNCHANGED <<ticket, prefs, answered, overlapped>>

markRead(k) ==
    /\ notice[k].unread > 0
    /\ notice' = [notice EXCEPT ![k].unread = @ - 1, ![k].read = @ + 1]
    /\ UNCHANGED <<ticket, prefs, deskreq, answered, overlapped, missing>>

-----------------------------------------------------------------------------
\* The ticket about whose message r has not notified anybody yet, if any.
Owes(r, k) ==
    \/ deskreq[r].op = "status" /\ deskreq[r].ticket = k
    \/ deskreq[r].op \in {"find", "insertPrefs", "notify"} /\ deskreq[r].about = k

\* A request ends before its last statement.
DeskAbandon(r) ==
    /\ missing' = [k \in RaankoTickets |-> missing[k] + IF Owes(r, k) THEN 1 ELSE 0]
    /\ KGoto(r, KIdle)
    /\ UNCHANGED <<ticket, prefs, notice, answered, overlapped>>

\* A user has one row of preferences; and the model has no message left.
DeskClash(r) ==
    /\ \/ deskreq[r].op = "insertPrefs" /\ prefs # "none"
       \/ deskreq[r].op = "message" /\ ticket[deskreq[r].ticket].messages = MaxReplies
    /\ DeskAbandon(r)

DeskDie(r) == DeskReqsFail /\ deskreq[r] # KIdle /\ DeskAbandon(r)

DeskNext ==
    \/ \E r \in DeskReqs :
        \/ \E k \in Tickets, staff \in BOOLEAN : ReplyRead(r, k, staff)
        \/ \E new \in Preferences \ {"none"} : PreferencesCall(r, new)
        \/ InsertMessage(r) \/ WriteStatus(r) \/ FindPreferences(r) \/ InsertPreferences(r)
        \/ UpdatePreferences(r) \/ Notify(r) \/ DeskClash(r) \/ DeskDie(r)
    \/ \E k \in Tickets : createTicket(k)
    \/ \E k \in RaankoTickets : markRead(k)

DeskSpec == DeskInit /\ [][DeskNext]_deskVars

-----------------------------------------------------------------------------
\* A ticket that the staff has answered is open again only if the answer ran
\* into another reply, which then wrote back the status it had read.
ReopenedOnlyByOverlap == \A k \in answered \ overlapped : ticket[k].status = "in_progress"

\* Of the messages to a RAANKO ticket each has notified its opener once, was
\* missed, or belongs to a request that is still about to do one of the two.
EveryReplyIsTold == \A k \in RaankoTickets :
    ticket[k].messages = notice[k].unread + notice[k].read + missing[k]
                             + Cardinality({r \in DeskReqs : Owes(r, k)})

\* replyCompanyRequest and replyRaankoTicket with the notification chain
\* behind them keep statuses, messages and notifications in step.
DeskKeepsUp == ReopenedOnlyByOverlap /\ EveryReplyIsTold
=============================================================================
