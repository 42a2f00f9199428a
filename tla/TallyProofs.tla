----------------------------- MODULE TallyProofs -----------------------------
(***************************************************************************)
(* Proofs about Desk.tla, Trails.tla and Records.tla: what each of them    *)
(* counts adds up, for any numbers of rows and requests, whatever overlaps *)
(* and wherever a request dies.                                            *)
(***************************************************************************)
EXTENDS Desk, Trails, Records, SumTheorems

-----------------------------------------------------------------------------
(***************************************************************************)
(* Desk: statuses of tickets, messages and notifications.                  *)
(***************************************************************************)

Owing(k) == {r \in DeskReqs : Owes(r, k)}
Owed(r, k) == IF Owes(r, k) THEN 1 ELSE 0

\* The types, but for the bounds of what is counted: they follow from the count.
DeskShape ==
    /\ ticket \in [Tickets -> TicketRow]
    /\ prefs \in Preferences
    /\ notice \in [RaankoTickets -> [unread : Nat, read : Nat]]
    /\ deskreq \in [DeskReqs -> {KIdle} \cup Replying \cup Preparing \cup Updating \cup Notifying]
    /\ answered \subseteq Tickets /\ overlapped \subseteq answered
    /\ missing \in [RaankoTickets -> Nat]

\* A ticket whose answers met no other reply is in progress, and so it was for
\* every reply under way that has read it.
AnswersStand ==
    \A k \in answered \ overlapped :
        /\ ticket[k].status = "in_progress"
        /\ \A r \in RepliesTo(k) : deskreq[r].read = "in_progress"

DeskInv == DeskShape /\ AnswersStand /\ EveryReplyIsTold

LEMMA DeskRequestFields ==
    ASSUME DeskShape, NEW r \in DeskReqs
    PROVE  /\ deskreq[r].op \in {"message", "status"} => deskreq[r] \in Replying
           /\ deskreq[r].op \in {"find", "insertPrefs"} => deskreq[r] \in Preparing
           /\ deskreq[r].op = "update" => deskreq[r] \in Updating
           /\ deskreq[r].op = "notify" => deskreq[r] \in Notifying
  BY DEF DeskShape, KIdle, Replying, Preparing, Updating, Notifying

\* When one request moves, the number of requests that owe a notification
\* about k changes by what that request owes.
LEMMA OwingMoves ==
    ASSUME NEW r \in DeskReqs, NEW k, \A x \in DeskReqs \ {r} : deskreq'[x] = deskreq[x]
    PROVE  /\ Cardinality(Owing(k)) \in Nat /\ Owed(r, k) <= Cardinality(Owing(k))
           /\ Cardinality(Owing(k)') = Cardinality(Owing(k)) - Owed(r, k) + Owed(r, k)'
<1>1. Owing(k) \ {r} = Owing(k)' \ {r}
  BY DEF Owing, Owes
<1>2. IsFiniteSet(Owing(k)) /\ IsFiniteSet(Owing(k)')
  <2>1. Owing(k) \subseteq DeskReqs /\ Owing(k)' \subseteq DeskReqs
    BY DEF Owing
  <2> QED BY <2>1, DeskAssumption, FS_Subset
<1>3. r \in Owing(k) <=> Owes(r, k)
  BY DEF Owing
<1>4. r \in Owing(k)' <=> Owes(r, k)'
  BY DEF Owing
<1> QED BY <1>1, <1>2, <1>3, <1>4, CountMoves DEF Owed

\* The count is kept when each ticket's messages, less its notices and misses,
\* change by what the request that moves comes to owe.
LEMMA ToldAfter ==
    ASSUME DeskInv, DeskShape', NEW r \in DeskReqs,
           \A x \in DeskReqs \ {r} : deskreq'[x] = deskreq[x],
           \A k \in RaankoTickets :
              ticket'[k].messages - notice'[k].unread - notice'[k].read - missing'[k] - Owed(r, k)'
                = ticket[k].messages - notice[k].unread - notice[k].read - missing[k] - Owed(r, k)
    PROVE  EveryReplyIsTold'
<1> SUFFICES ASSUME NEW k \in RaankoTickets
             PROVE  ticket'[k].messages = notice'[k].unread + notice'[k].read + missing'[k]
                                              + Cardinality(Owing(k)')
  BY DEF EveryReplyIsTold, Owing
<1>1. ticket[k].messages = notice[k].unread + notice[k].read + missing[k]
                               + Cardinality(Owing(k))
  BY DEF DeskInv, EveryReplyIsTold, Owing
<1>2. /\ Cardinality(Owing(k)) \in Nat
      /\ Cardinality(Owing(k)') = Cardinality(Owing(k)) - Owed(r, k) + Owed(r, k)'
  BY OwingMoves
<1>3. Owed(r, k) \in {0, 1} /\ Owed(r, k)' \in {0, 1}
  BY DEF Owed
<1>4. /\ ticket[k].messages \in Nat /\ ticket'[k].messages \in Nat
      /\ notice[k].unread \in Nat /\ notice[k].read \in Nat /\ missing[k] \in Nat
      /\ notice'[k].unread \in Nat /\ notice'[k].read \in Nat /\ missing'[k] \in Nat
  BY DeskAssumption DEF DeskInv, DeskShape, TicketRow, Tickets
<1> QED BY <1>1, <1>2, <1>3, <1>4

\* What is counted stays within its bounds.
LEMMA DeskInvImplies == DeskInv => DeskTypeOK /\ DeskKeepsUp
<1> SUFFICES ASSUME DeskInv PROVE DeskTypeOK /\ DeskKeepsUp
  OBVIOUS
<1>1. ASSUME NEW k \in RaankoTickets
      PROVE  /\ notice[k] \in [unread : 0 .. MaxReplies, read : 0 .. MaxReplies]
             /\ missing[k] \in 0 .. MaxReplies
  <2>1. /\ ticket[k].messages \in 0 .. MaxReplies
        /\ notice[k] \in [unread : Nat, read : Nat] /\ missing[k] \in Nat
    BY DEF DeskInv, DeskShape, TicketRow, Tickets
  <2>2. IsFiniteSet(Owing(k))
    BY DeskAssumption, FS_Subset DEF Owing
  <2>3. Cardinality(Owing(k)) \in Nat
    BY <2>2, FS_CardinalityType
  <2>4. ticket[k].messages = notice[k].unread + notice[k].read + missing[k]
                                 + Cardinality(Owing(k))
    BY DEF DeskInv, EveryReplyIsTold, Owing
  <2> QED BY <2>1, <2>3, <2>4, DeskAssumption
<1>2. DeskTypeOK
  BY <1>1 DEF DeskInv, DeskShape, DeskTypeOK
<1>3. ReopenedOnlyByOverlap
  BY DEF DeskInv, AnswersStand, ReopenedOnlyByOverlap
<1> QED BY <1>2, <1>3 DEF DeskInv, DeskKeepsUp

LEMMA InitDeskInv == DeskInit => DeskInv
<1> SUFFICES ASSUME DeskInit PROVE DeskInv
  OBVIOUS
<1>1. DeskShape /\ AnswersStand
  BY DeskAssumption
  DEF DeskInit, DeskShape, AnswersStand, TicketRow, Preferences, Tickets
<1>2. \A k \in RaankoTickets : {r \in DeskReqs : Owes(r, k)} = {}
  BY DEF DeskInit, Owes, KIdle
<1>3. EveryReplyIsTold
  BY <1>2, FS_EmptySet DEF DeskInit, EveryReplyIsTold, Tickets
<1> QED BY <1>1, <1>3 DEF DeskInv

\* What the replies have read stands when tickets are written as they allow.
LEMMA StandAfter ==
    ASSUME DeskInv, NEW r \in DeskReqs,
           \A x \in DeskReqs \ {r} : deskreq'[x] = deskreq[x],
           UNCHANGED <<answered, overlapped>>,
           \A k \in Tickets : ticket[k].status = "in_progress" => ticket'[k].status = "in_progress",
           deskreq'[r].op \in {"message", "status"} =>
              \/ /\ deskreq[r].op \in {"message", "status"}
                 /\ deskreq'[r].ticket = deskreq[r].ticket /\ deskreq'[r].read = deskreq[r].read
              \/ deskreq'[r].read = ticket[deskreq'[r].ticket].status
    PROVE  AnswersStand'
<1> SUFFICES ASSUME NEW k \in answered \ overlapped
             PROVE  /\ ticket'[k].status = "in_progress"
                    /\ \A x \in DeskReqs : deskreq'[x].op \in {"message", "status"}
                            /\ deskreq'[x].ticket = k => deskreq'[x].read = "in_progress"
  BY DEF AnswersStand, RepliesTo
<1>1. /\ k \in Tickets /\ ticket[k].status = "in_progress"
      /\ \A x \in DeskReqs : deskreq[x].op \in {"message", "status"} /\ deskreq[x].ticket = k
            => deskreq[x].read = "in_progress"
  BY DEF DeskInv, DeskShape, AnswersStand, RepliesTo
<1> QED BY <1>1

LEMMA ReplyReadKeeps ==
    ASSUME DeskInv, NEW r \in DeskReqs, NEW k \in Tickets, NEW staff \in BOOLEAN,
           ReplyRead(r, k, staff)
    PROVE  DeskInv'
<1> USE DEF ReplyRead, KGoto, DeskInv, DeskShape
<1>1. deskreq' = [deskreq EXCEPT ![r] = deskreq'[r]] /\ deskreq'[r] \in Replying
      /\ deskreq'[r].op = "message" /\ deskreq'[r].ticket = k
      /\ deskreq'[r].read = ticket[k].status
  BY DEF Replying, TicketRow
<1>2. DeskShape'
  BY <1>1
<1>3. AnswersStand'
  BY <1>1, StandAfter
<1>4. \A c \in RaankoTickets : Owed(r, c) = 0 /\ Owed(r, c)' = 0
  BY <1>1 DEF Owed, Owes, KIdle
<1>5. EveryReplyIsTold'
  BY <1>1, <1>2, <1>4, ToldAfter
<1> QED BY <1>2, <1>3, <1>5

LEMMA InsertMessageKeeps ==
    ASSUME DeskInv, NEW r \in DeskReqs, InsertMessage(r)
    PROVE  DeskInv'
<1> USE DEF InsertMessage, KGoto, DeskInv, DeskShape
<1>0. deskreq[r] \in Replying /\ deskreq[r].ticket \in Tickets
  BY DeskRequestFields DEF Replying
<1>1. /\ deskreq' = [deskreq EXCEPT ![r] = deskreq'[r]] /\ deskreq'[r] \in Replying
      /\ deskreq'[r].op = "status" /\ deskreq'[r].ticket = deskreq[r].ticket
      /\ deskreq'[r].read = deskreq[r].read
  BY <1>0 DEF Replying
<1>2. \A k \in Tickets :
        /\ ticket'[k].status = ticket[k].status
        /\ ticket'[k].messages = ticket[k].messages + IF k = deskreq[r].ticket THEN 1 ELSE 0
  BY <1>0, DeskAssumption DEF TicketRow
<1>3. DeskShape'
  <2>1. ticket' \in [Tickets -> TicketRow]
    BY <1>0, DeskAssumption DEF TicketRow
  <2> QED BY <1>1, <2>1
<1>4. AnswersStand'
  BY <1>1, <1>2, StandAfter
<1>5. \A k \in RaankoTickets :
        /\ Owed(r, k) = 0
        /\ Owed(r, k)' = IF k = deskreq[r].ticket THEN 1 ELSE 0
  BY <1>1 DEF Owed, Owes
<1>6. \A k \in RaankoTickets :
        /\ ticket[k].messages \in Nat /\ notice[k].unread \in Nat /\ notice[k].read \in Nat
        /\ missing[k] \in Nat
  BY DEF TicketRow, Tickets
<1>7. EveryReplyIsTold'
  BY <1>1, <1>2, <1>3, <1>5, <1>6, ToldAfter DEF Tickets
<1> QED BY <1>3, <1>4, <1>7

\* The staff writes a status, the other side what it has read.
LEMMA WriteStatusKeeps ==
    ASSUME DeskInv, NEW r \in DeskReqs, WriteStatus(r)
    PROVE  DeskInv'
<1> USE DEF WriteStatus, KGoto, DeskInv, DeskShape
<1>0. /\ deskreq[r] \in Replying /\ deskreq[r].op = "status"
      /\ deskreq[r].ticket \in Tickets /\ deskreq[r].staff \in BOOLEAN
      /\ deskreq[r].read \in {"open", "in_progress"}
  BY DeskRequestFields DEF Replying
<1>1. /\ deskreq' = [deskreq EXCEPT ![r] = deskreq'[r]]
      /\ deskreq'[r] = IF deskreq[r].ticket \in RaankoTickets
                       THEN [op |-> "find", about |-> deskreq[r].ticket] ELSE KIdle
  BY <1>0
<1>2. /\ \A k \in Tickets :
            /\ ticket'[k].messages = ticket[k].messages
            /\ k # deskreq[r].ticket => ticket'[k].status = ticket[k].status
      /\ ticket'[deskreq[r].ticket].status =
            IF deskreq[r].staff THEN "in_progress" ELSE deskreq[r].read
  BY <1>0 DEF TicketRow, StatusAfter
<1>3. DeskShape'
  <2>1. ticket' \in [Tickets -> TicketRow]
    BY <1>0 DEF TicketRow, StatusAfter
  <2>2. deskreq'[r] \in {KIdle} \cup Preparing
    BY <1>1 DEF Preparing
  <2>3. answered' \subseteq Tickets /\ overlapped' \subseteq answered'
    BY <1>0
  <2> QED BY <1>1, <2>1, <2>2, <2>3
<1>4. AnswersStand'
  <2> SUFFICES ASSUME NEW k \in answered' \ overlapped'
               PROVE  /\ ticket'[k].status = "in_progress"
                      /\ \A x \in DeskReqs : deskreq'[x].op \in {"message", "status"}
                            /\ deskreq'[x].ticket = k => deskreq'[x].read = "in_progress"
    BY DEF AnswersStand, RepliesTo
  <2>0. k \in Tickets /\ deskreq'[r].op \notin {"message", "status"}
    BY <1>1, <1>3 DEF KIdle
  <2>1. CASE k \in answered
    <3>1. /\ ticket[k].status = "in_progress"
          /\ \A x \in DeskReqs : deskreq[x].op \in {"message", "status"}
                            /\ deskreq[x].ticket = k => deskreq[x].read = "in_progress"
      BY <2>1 DEF AnswersStand, RepliesTo
    <3> QED BY <1>0, <1>1, <1>2, <2>0, <3>1
  <2>2. CASE k \notin answered
    <3>1. deskreq[r].staff /\ k = deskreq[r].ticket /\ RepliesTo(k) = {r}
      BY <2>2
    <3> QED BY <1>1, <1>2, <2>0, <3>1 DEF RepliesTo
  <2> QED BY <2>1, <2>2
<1>5. \A k \in RaankoTickets : Owed(r, k)' = Owed(r, k)
  BY <1>0, <1>1 DEF Owed, Owes, KIdle
<1>6. EveryReplyIsTold'
  BY <1>1, <1>2, <1>3, <1>5, ToldAfter DEF Tickets
<1> QED BY <1>3, <1>4, <1>6

-----------------------------------------------------------------------------
\* A request that goes on without writing owes what it owed.
LEMMA PreparingKeeps ==
    ASSUME DeskInv, NEW r \in DeskReqs, NEW q, KGoto(r, q),
           q \in {KIdle} \cup Preparing \cup Updating \cup Notifying,
           deskreq[r].op \notin {"message", "status"},
           \A k \in RaankoTickets :
              (deskreq[r].op \in {"find", "insertPrefs", "notify"} /\ deskreq[r].about = k)
                <=> (q.op \in {"find", "insertPrefs", "notify"} /\ q.about = k),
           prefs' \in Preferences,
           UNCHANGED <<ticket, notice, answered, overlapped, missing>>
    PROVE  DeskInv'
<1> USE DEF DeskInv, DeskShape, KGoto
<1>1. deskreq' = [deskreq EXCEPT ![r] = q] /\ deskreq'[r] = q
  OBVIOUS
<1>2. DeskShape'
  BY <1>1
<1>3. deskreq'[r].op \notin {"message", "status"}
  BY <1>1 DEF KIdle, Preparing, Updating, Notifying
<1>4. AnswersStand'
  BY <1>1, <1>3, StandAfter
<1>5. \A k \in RaankoTickets : Owed(r, k)' = Owed(r, k)
  BY <1>1, <1>3 DEF Owed, Owes
<1>6. EveryReplyIsTold'
  BY <1>1, <1>2, <1>5, ToldAfter
<1> QED BY <1>2, <1>4, <1>6

LEMMA PreferencesKeep ==
    ASSUME DeskInv, NEW r \in DeskReqs,
           \/ \E new \in Preferences \ {"none"} : PreferencesCall(r, new)
           \/ FindPreferences(r) \/ InsertPreferences(r) \/ UpdatePreferences(r)
    PROVE  DeskInv'
<1> USE DeskAssumption DEF DeskInv, DeskShape
<1>1. ASSUME NEW new \in Preferences \ {"none"}, PreferencesCall(r, new) PROVE DeskInv'
  BY <1>1, PreparingKeeps DEF PreferencesCall, Preparing, KIdle
<1>2. ASSUME NEW p \in Preferences, deskreq[r] \in Preparing
      PROVE  /\ WithPreferences(deskreq[r], p) \in Updating \cup Notifying
             /\ \A k \in RaankoTickets : deskreq[r].about = k
                    <=> /\ WithPreferences(deskreq[r], p).op = "notify"
                        /\ WithPreferences(deskreq[r], p).about = k
  BY <1>2 DEF WithPreferences, Preparing, Updating, Notifying
<1>3. CASE FindPreferences(r)
  <2>1. deskreq[r] \in Preparing /\ deskreq[r].op = "find"
    BY <1>3, DeskRequestFields DEF FindPreferences
  <2>2. CASE prefs = "none"
    <3> DEFINE q == [deskreq[r] EXCEPT !.op = "insertPrefs"]
    <3>1. q \in Preparing /\ q.op = "insertPrefs" /\ q.about = deskreq[r].about
      BY <2>1 DEF Preparing
    <3>2. KGoto(r, q)
      BY <1>3, <2>2 DEF FindPreferences
    <3> HIDE DEF q
    <3> QED BY <1>3, <2>1, <3>1, <3>2, PreparingKeeps DEF FindPreferences
  <2>3. CASE prefs # "none"
    <3> DEFINE q == WithPreferences(deskreq[r], prefs)
    <3>1. KGoto(r, q)
      BY <1>3, <2>3 DEF FindPreferences
    <3>2. /\ q \in Updating \cup Notifying
          /\ \A k \in RaankoTickets : deskreq[r].about = k <=> q.op = "notify" /\ q.about = k
      BY <1>2, <2>1
    <3>3. q.op \in {"update", "notify"}
      BY <3>2 DEF Updating, Notifying
    <3> HIDE DEF q
    <3> QED BY <1>3, <2>1, <3>1, <3>2, <3>3, PreparingKeeps DEF FindPreferences
  <2> QED BY <2>2, <2>3
<1>4. CASE InsertPreferences(r)
  <2>1. deskreq[r] \in Preparing /\ deskreq[r].op = "insertPrefs"
    BY <1>4, DeskRequestFields DEF InsertPreferences
  <2> DEFINE q == WithPreferences(deskreq[r], "inApp")
  <2>2. /\ q \in Updating \cup Notifying
        /\ \A k \in RaankoTickets : deskreq[r].about = k <=> q.op = "notify" /\ q.about = k
    BY <1>2, <2>1 DEF Preferences
  <2>3. q.op \in {"update", "notify"}
    BY <2>2 DEF Updating, Notifying
  <2>4. KGoto(r, q) /\ prefs' \in Preferences
    BY <1>4 DEF InsertPreferences, Preferences
  <2> HIDE DEF q
  <2> QED BY <1>4, <2>1, <2>2, <2>3, <2>4, PreparingKeeps DEF InsertPreferences
<1>5. CASE UpdatePreferences(r)
  <2>1. deskreq[r] \in Updating
    BY <1>5, DeskRequestFields DEF UpdatePreferences
  <2>2. prefs' \in Preferences
    BY <1>5, <2>1 DEF UpdatePreferences, Updating
  <2> QED BY <1>5, <2>2, PreparingKeeps DEF UpdatePreferences, KIdle
<1> QED BY <1>1, <1>3, <1>4, <1>5

LEMMA NotifyKeeps ==
    ASSUME DeskInv, NEW r \in DeskReqs, Notify(r)
    PROVE  DeskInv'
<1> USE DEF DeskInv, DeskShape, Notify, KGoto, Misses
<1>1. deskreq[r] \in Notifying /\ deskreq[r].about \in RaankoTickets
  BY DeskRequestFields DEF Notifying
<1>2. deskreq' = [deskreq EXCEPT ![r] = KIdle]
  OBVIOUS
<1>3. DeskShape'
  BY <1>1
<1>4. AnswersStand'
  BY <1>2, StandAfter DEF KIdle
<1>5. \A k \in RaankoTickets :
        /\ Owed(r, k)' = 0
        /\ Owed(r, k) = IF k = deskreq[r].about THEN 1 ELSE 0
  BY <1>2 DEF Owed, Owes, KIdle
<1>6. \A k \in RaankoTickets :
        notice'[k].unread + notice'[k].read + missing'[k]
            = notice[k].unread + notice[k].read + missing[k] + Owed(r, k)
  <2>1. CASE deskreq[r].inApp
    <3>1. \A k \in RaankoTickets :
            /\ notice'[k].unread = IF k = deskreq[r].about THEN notice[k].unread + 1
                                                          ELSE notice[k].unread
            /\ notice'[k].read = notice[k].read /\ missing'[k] = missing[k]
      BY <1>1, <2>1
    <3>2. \A k \in RaankoTickets :
            notice[k].unread \in Nat /\ notice[k].read \in Nat /\ missing[k] \in Nat
      OBVIOUS
    <3> QED BY <1>5, <3>1, <3>2
  <2>2. CASE ~deskreq[r].inApp
    <3>1. \A k \in RaankoTickets :
            /\ missing'[k] = IF k = deskreq[r].about THEN missing[k] + 1 ELSE missing[k]
            /\ notice'[k] = notice[k]
      BY <1>1, <2>2
    <3>2. \A k \in RaankoTickets :
            notice[k].unread \in Nat /\ notice[k].read \in Nat /\ missing[k] \in Nat
      OBVIOUS
    <3> QED BY <1>5, <3>1, <3>2
  <2> QED BY <2>1, <2>2
<1>7. \A k \in RaankoTickets :
        /\ notice[k].unread \in Nat /\ notice[k].read \in Nat /\ missing[k] \in Nat
        /\ notice'[k].unread \in Nat /\ notice'[k].read \in Nat /\ missing'[k] \in Nat
        /\ ticket[k].messages \in Nat /\ ticket'[k].messages = ticket[k].messages
  BY <1>3 DEF TicketRow, Tickets
<1>8. ASSUME NEW k \in RaankoTickets
      PROVE  ticket'[k].messages - notice'[k].unread - notice'[k].read - missing'[k] - Owed(r, k)'
                = ticket[k].messages - notice[k].unread - notice[k].read - missing[k] - Owed(r, k)
  <2> HIDE DEF DeskInv, DeskShape, Notify, KGoto, Misses
  <2>1. Owed(r, k) \in Nat /\ Owed(r, k)' = 0
    BY <1>5
  <2> QED BY <1>6, <1>7, <2>1
<1>9. EveryReplyIsTold'
  BY <1>2, <1>3, <1>8, ToldAfter
<1> QED BY <1>3, <1>4, <1>9

LEMMA DeskAbandonKeeps ==
    ASSUME DeskInv, NEW r \in DeskReqs, DeskAbandon(r)
    PROVE  DeskInv'
<1> USE DEF DeskInv, DeskShape, DeskAbandon, KGoto
<1>1. deskreq' = [deskreq EXCEPT ![r] = KIdle]
  OBVIOUS
<1>2. DeskShape'
  BY <1>1
<1>3. AnswersStand'
  BY <1>1, StandAfter DEF KIdle
<1>4. \A k \in RaankoTickets : Owed(r, k)' = 0 /\ missing'[k] = missing[k] + Owed(r, k)
  BY <1>1 DEF Owed, Owes, KIdle
<1>5. \A k \in RaankoTickets :
        /\ notice[k].unread \in Nat /\ notice[k].read \in Nat /\ missing[k] \in Nat
        /\ ticket[k].messages \in Nat /\ Owed(r, k) \in Nat
        /\ ticket'[k].messages = ticket[k].messages /\ notice'[k] = notice[k]
  BY DEF TicketRow, Tickets, Owed
<1>6. \A k \in RaankoTickets :
        ticket'[k].messages - notice'[k].unread - notice'[k].read - missing'[k] - Owed(r, k)'
            = ticket[k].messages - notice[k].unread - notice[k].read - missing[k] - Owed(r, k)
  <2> HIDE DEF DeskInv, DeskShape, DeskAbandon, KGoto
  <2> QED BY <1>4, <1>5
<1>7. EveryReplyIsTold'
  BY <1>1, <1>2, <1>6, ToldAfter
<1> QED BY <1>2, <1>3, <1>7

\* What happens without a request: a ticket is opened, a notification is read.
LEMMA DeskCallsKeep ==
    ASSUME DeskInv,
           (\E k \in Tickets : createTicket(k)) \/ (\E k \in RaankoTickets : markRead(k))
    PROVE  DeskInv'
<1> USE DEF DeskInv, DeskShape
<1>1. DeskShape' /\ UNCHANGED <<deskreq, answered, overlapped, missing>>
  <2>1. ASSUME NEW k \in Tickets, createTicket(k) PROVE ticket' \in [Tickets -> TicketRow]
    BY <2>1 DEF createTicket, TicketRow
  <2>2. ASSUME NEW k \in RaankoTickets, markRead(k)
        PROVE  notice' \in [RaankoTickets -> [unread : Nat, read : Nat]]
    BY <2>2 DEF markRead
  <2> QED BY <2>1, <2>2 DEF createTicket, markRead
<1>2. /\ \A k \in Tickets : /\ ticket'[k].messages = ticket[k].messages
                            /\ ticket[k].status # "none" => ticket'[k].status = ticket[k].status
      /\ \A k \in RaankoTickets : notice'[k].unread + notice'[k].read
                                     = notice[k].unread + notice[k].read
  <2>1. ASSUME NEW k \in Tickets, createTicket(k)
        PROVE  \A c \in Tickets :
                  /\ ticket'[c].messages = ticket[c].messages
                  /\ ticket[c].status # "none" => ticket'[c].status = ticket[c].status
    BY <2>1 DEF createTicket, TicketRow
  <2>2. ASSUME NEW k \in RaankoTickets, markRead(k), NEW c \in RaankoTickets
        PROVE  notice'[c].unread + notice'[c].read = notice[c].unread + notice[c].read
    <3>1. /\ notice'[c].unread = IF c = k THEN notice[c].unread - 1 ELSE notice[c].unread
          /\ notice'[c].read = IF c = k THEN notice[c].read + 1 ELSE notice[c].read
          /\ notice[c].unread \in Nat /\ notice[c].read \in Nat
      BY <2>2 DEF markRead
    <3> QED BY <3>1
  <2> QED BY <2>1, <2>2 DEF createTicket, markRead
<1>3. AnswersStand'
  BY <1>1, <1>2 DEF AnswersStand, RepliesTo
<1>4. EveryReplyIsTold'
  <2> SUFFICES ASSUME NEW k \in RaankoTickets
               PROVE  ticket'[k].messages = notice'[k].unread + notice'[k].read + missing'[k]
                                                + Cardinality(Owing(k)')
    BY DEF EveryReplyIsTold, Owing
  <2>1. Owing(k)' = Owing(k)
    BY <1>1 DEF Owing, Owes
  <2>2. ticket[k].messages = notice[k].unread + notice[k].read + missing[k]
                                 + Cardinality(Owing(k))
    BY DEF EveryReplyIsTold, Owing
  <2> QED BY <1>1, <1>2, <2>1, <2>2 DEF Tickets
<1> QED BY <1>1, <1>3, <1>4

LEMMA NextKeepsDesk == DeskInv /\ [DeskNext]_deskVars => DeskInv'
<1> SUFFICES ASSUME DeskInv, [DeskNext]_deskVars PROVE DeskInv'
  OBVIOUS
<1>1. CASE UNCHANGED deskVars
  BY <1>1 DEF deskVars, DeskInv, DeskShape, AnswersStand, RepliesTo, EveryReplyIsTold, Owes
<1>2. CASE DeskNext
  BY <1>2, ReplyReadKeeps, InsertMessageKeeps, WriteStatusKeeps, PreferencesKeep, NotifyKeeps,
     DeskAbandonKeeps, DeskCallsKeep DEF DeskNext, DeskClash, DeskDie
<1> QED BY <1>1, <1>2

\* However many replies overlap, and wherever one dies, a ticket the staff has
\* answered is open again only after an overlap, and each message to a RAANKO
\* ticket is notified once, missed, or still to be told (replyRaankoTicket,
\* createAndSend); and every variable of Desk.tla keeps its type.
THEOREM DeskStaysInStep == DeskSpec => [](DeskTypeOK /\ DeskKeepsUp)
  BY InitDeskInv, NextKeepsDesk, DeskInvImplies, PTL DEF DeskSpec

-----------------------------------------------------------------------------
(***************************************************************************)
(* Trails: writes, their audit entries, and the meters.                    *)
(***************************************************************************)

Endpoints == {x \in Rows : row[x].kind = "webhook"}

\* Whether r has a write of x whose trail is still to come.
Bound(r, x) == trailreq[r].op \in {"audit", "find", "insert", "increment"} /\ trailreq[r].row = x
OneBound(r, x) == IF Bound(r, x) THEN 1 ELSE 0

\* The writes of x that have left no trail yet.
Unmarked(x) == OnTheWay(x) + untold[x]
UnmarkedEndpoints == SumFunctionOnSet([x \in Rows |-> Unmarked(x)], Endpoints)

TrailsShape ==
    /\ row \in [Rows -> RowState]
    /\ trail \in [Rows -> Nat]
    /\ month \in 1 .. Months
    /\ meter \in [1 .. Months -> Nat]
    /\ delivery \subseteq Rows \X {"delivered", "pending"}
    /\ trailreq \in [TrailReqs -> {LIdle} \cup Auditing \cup Metering \cup Delivering]
    /\ writes \in [Rows -> 0 .. MaxWrites]
    /\ untold \in [Rows -> Nat]

\* A request that is about to audit or to meter a row has written one of the kind.
TrailsFit == \A r \in TrailReqs :
    /\ trailreq[r].op = "audit" => row[trailreq[r].row].kind \notin {"none", "webhook"}
    /\ trailreq[r].op \in {"find", "insert", "increment"}
          => row[trailreq[r].row].kind = "webhook"

\* What becomes of the writes of x, by its kind: an endpoint is written once.
RowAccount(x) ==
    /\ row[x].kind = "none" => writes[x] = 0 /\ trail[x] = 0 /\ Unmarked(x) = 0
    /\ row[x].kind = "webhook" => trail[x] = 0 /\ Unmarked(x) <= 1
    /\ row[x].kind # "webhook" => writes[x] = trail[x] + Unmarked(x)

TrailsInv ==
    /\ TrailsShape /\ TrailsFit
    /\ \A x \in Rows : RowAccount(x)
    /\ MetersAddUp

LEMMA TrailRequestFields ==
    ASSUME TrailsShape, NEW r \in TrailReqs
    PROVE  /\ trailreq[r].op \in {"audit", "find", "insert", "increment"} =>
                 trailreq[r] \in Auditing \cup Metering /\ trailreq[r].row \in Rows
           /\ trailreq[r].op \in {"insert", "increment"} => trailreq[r].month \in 1 .. Months
           /\ trailreq[r].op = "deliver" => trailreq[r] \in Delivering
           /\ trailreq[r] # LIdle =>
                 trailreq[r].op \in {"audit", "find", "insert", "increment", "deliver"}
  BY DEF TrailsShape, LIdle, Auditing, Metering, Delivering

\* When one request moves, what is on the way changes by what it carries.
LEMMA OnTheWayMoves ==
    ASSUME NEW r \in TrailReqs, NEW x, \A q \in TrailReqs \ {r} : trailreq'[q] = trailreq[q]
    PROVE  /\ OnTheWay(x) \in Nat /\ OnTheWay(x)' \in Nat
           /\ OneBound(r, x) \in {0, 1} /\ OneBound(r, x)' \in {0, 1}
           /\ OnTheWay(x)' = OnTheWay(x) - OneBound(r, x) + OneBound(r, x)'
<1> DEFINE S == {q \in TrailReqs : Bound(q, x)}
           T == {q \in TrailReqs : Bound(q, x)'}
<1>1. S \ {r} = T \ {r} /\ (r \in S <=> Bound(r, x)) /\ (r \in T <=> Bound(r, x)')
  BY DEF Bound
<1>2. IsFiniteSet(S) /\ IsFiniteSet(T)
  BY TrailsAssumption, FS_Subset
<1>3. OnTheWay(x) = Cardinality(S) /\ OnTheWay(x)' = Cardinality(T)
  BY DEF OnTheWay, Bound
<1> HIDE DEF S, T
<1> QED BY <1>1, <1>2, <1>3, CountMoves DEF OneBound

MarksAreNat == \A x \in Rows : OnTheWay(x) \in Nat /\ Unmarked(x) \in Nat

LEMMA UnmarkedIsNat == TrailsShape => MarksAreNat
<1> SUFFICES ASSUME TrailsShape, NEW x \in Rows
             PROVE  OnTheWay(x) \in Nat /\ Unmarked(x) \in Nat
  BY DEF MarksAreNat
<1>1. IsFiniteSet({r \in TrailReqs :
         trailreq[r].op \in {"audit", "find", "insert", "increment"} /\ trailreq[r].row = x})
  BY TrailsAssumption, FS_Subset
<1>2. OnTheWay(x) \in Nat
  BY <1>1, FS_CardinalityType DEF OnTheWay
<1> QED BY <1>2 DEF Unmarked, TrailsShape

LEMMA MarksLater == TrailsShape' => MarksAreNat'
  BY UnmarkedIsNat, PTL

LEMMA MetersAreFinite ==
    /\ IsFiniteSet(1 .. Months)
    /\ IsFiniteSet(Endpoints) /\ Endpoints \subseteq Rows
    /\ Cardinality(Endpoints) \in Nat /\ Cardinality(Endpoints) <= Cardinality(Rows)
    /\ Cardinality(Rows) \in Nat
<1>1. IsFiniteSet(1 .. Months)
  BY TrailsAssumption, FS_Interval
<1>2. Endpoints \subseteq Rows
  BY DEF Endpoints
<1> QED BY <1>1, <1>2, TrailsAssumption, FS_Subset, FS_CardinalityType

MetersAreSums ==
    /\ SumFunction(meter) = SumFunctionOnSet(meter, 1 .. Months)
    /\ SumFunction(meter) \in Nat /\ UnmarkedEndpoints \in Nat
    /\ MetersAddUp <=> SumFunction(meter) + UnmarkedEndpoints = Cardinality(Endpoints)

LEMMA MetersSum == TrailsShape => MetersAreSums
<1> HAVE TrailsShape
<1> DEFINE f == [x \in Rows |-> Unmarked(x)]
<1>1. SumFunction(meter) = SumFunctionOnSet(meter, 1 .. Months)
  BY DEF SumFunction, TrailsShape
<1>2. \A p \in 1 .. Months : meter[p] \in Nat
  BY DEF TrailsShape
<1>3. SumFunctionOnSet(meter, 1 .. Months) \in Nat
  BY <1>2, MetersAreFinite, SumType
<1>4. \A x \in Endpoints : f[x] \in Nat
  BY UnmarkedIsNat, MetersAreFinite DEF MarksAreNat
<1>5. SumFunctionOnSet(f, Endpoints) \in Nat
  <2> HIDE DEF f
  <2> QED BY <1>4, MetersAreFinite, SumType
<1> QED BY <1>1, <1>3, <1>5
    DEF MetersAreSums, MetersAddUp, UnmarkedEndpoints, Unmarked, Endpoints

LEMMA MetersSumLater == TrailsShape' => MetersAreSums'
  BY MetersSum, PTL

\* Every count stays within its bounds.
LEMMA TrailsInvImplies == TrailsInv => TrailsTypeOK /\ TrailsReconcile
<1> SUFFICES ASSUME TrailsInv PROVE TrailsTypeOK /\ TrailsReconcile
  OBVIOUS
<1> USE DEF TrailsInv
<1>1. ASSUME NEW x \in Rows
      PROVE  /\ trail[x] \in 0 .. MaxWrites /\ untold[x] \in 0 .. MaxWrites
             /\ row[x].kind # "webhook" => writes[x] = trail[x] + OnTheWay(x) + untold[x]
  <2>1. /\ OnTheWay(x) \in Nat /\ untold[x] \in Nat /\ trail[x] \in Nat
        /\ writes[x] \in 0 .. MaxWrites
    BY UnmarkedIsNat DEF TrailsShape, MarksAreNat
  <2> QED BY <2>1, TrailsAssumption DEF RowAccount, Unmarked
<1>2. ASSUME NEW p \in 1 .. Months PROVE meter[p] \in 0 .. Cardinality(Rows)
  <2>1. meter[p] <= SumFunctionOnSet(meter, 1 .. Months) /\ meter[p] \in Nat
    BY MetersAreFinite, SumBound DEF TrailsShape
  <2> QED BY <2>1, MetersSum, MetersAreFinite DEF MetersAreSums
<1>3. TrailsTypeOK
  BY <1>1, <1>2 DEF TrailsShape, TrailsTypeOK
<1> QED BY <1>1, <1>3 DEF TrailsReconcile, WritesAreAudited

LEMMA InitTrailsInv == TrailsInit => TrailsInv
<1> SUFFICES ASSUME TrailsInit PROVE TrailsInv
  OBVIOUS
<1> USE DEF TrailsInit
<1>1. TrailsShape
  BY TrailsAssumption DEF TrailsShape, RowState, NoRow
<1>2. TrailsFit
  BY DEF TrailsFit, LIdle
<1>3. ASSUME NEW x \in Rows PROVE Unmarked(x) = 0 /\ RowAccount(x)
  <2>1. {r \in TrailReqs : trailreq[r].op \in {"audit", "find", "insert", "increment"}
                              /\ trailreq[r].row = x} = {}
    BY DEF LIdle
  <2>2. OnTheWay(x) = 0
    BY <2>1, FS_EmptySet DEF OnTheWay
  <2> QED BY <2>2 DEF Unmarked, RowAccount, NoRow
<1>4. MetersAddUp
  <2>1. Endpoints = {} /\ Cardinality(Endpoints) = 0
    BY FS_EmptySet DEF Endpoints, NoRow
  <2>2. SumFunctionOnSet(meter, 1 .. Months) = 0
    BY MetersAreFinite, SumZero
  <2>3. UnmarkedEndpoints = 0
    BY <2>1, FS_EmptySet, SumZero DEF UnmarkedEndpoints
  <2> QED BY <1>1, <2>1, <2>2, <2>3, MetersSum DEF MetersAreSums
<1> QED BY <1>1, <1>2, <1>3, <1>4 DEF TrailsInv

-----------------------------------------------------------------------------
\* Rows keep their accounts when what a request no longer carries has become a
\* trail, or is lost.
LEMMA AccountsAfter ==
    ASSUME TrailsInv, TrailsShape', NEW r \in TrailReqs,
           \A q \in TrailReqs \ {r} : trailreq'[q] = trailreq[q],
           \A x \in Rows : /\ row'[x].kind = row[x].kind /\ writes'[x] = writes[x]
                           /\ trail'[x] + untold'[x] + OneBound(r, x)'
                                = trail[x] + untold[x] + OneBound(r, x)
                           /\ row[x].kind \in {"none", "webhook"} => trail'[x] = trail[x]
    PROVE  \A x \in Rows : RowAccount(x)'
<1> SUFFICES ASSUME NEW x \in Rows PROVE RowAccount(x)'
  OBVIOUS
<1>1. /\ OnTheWay(x) \in Nat /\ OnTheWay(x)' \in Nat
      /\ OneBound(r, x) \in {0, 1} /\ OneBound(r, x)' \in {0, 1}
      /\ OnTheWay(x)' = OnTheWay(x) - OneBound(r, x) + OneBound(r, x)'
  BY OnTheWayMoves
<1>2. /\ trail[x] \in Nat /\ untold[x] \in Nat /\ trail'[x] \in Nat /\ untold'[x] \in Nat
      /\ writes[x] \in Nat
  BY DEF TrailsInv, TrailsShape
<1>3. trail'[x] + Unmarked(x)' = trail[x] + Unmarked(x)
  BY <1>1, <1>2 DEF Unmarked
<1>4. Unmarked(x) \in Nat /\ Unmarked(x)' \in Nat
  BY <1>1, <1>2 DEF Unmarked
<1>5. RowAccount(x)
  BY DEF TrailsInv
<1> QED BY <1>2, <1>3, <1>4, <1>5 DEF RowAccount

\* The meters go on adding up when at most one row's marks change, and the
\* meters by as much.
LEMMA MetersAfter ==
    ASSUME TrailsInv, TrailsShape', Endpoints' = Endpoints, NEW x \in Rows,
           \A y \in Endpoints \ {x} : Unmarked(y)' = Unmarked(y),
           SumFunction(meter)' = SumFunction(meter)
              + IF x \in Endpoints THEN Unmarked(x) - Unmarked(x)' ELSE 0
    PROVE  MetersAddUp'
<1> DEFINE f == [y \in Rows |-> Unmarked(y)]
           g == [y \in Rows |-> Unmarked(y)']
<1>1. /\ UnmarkedEndpoints = SumFunctionOnSet(f, Endpoints)
      /\ UnmarkedEndpoints' = SumFunctionOnSet(g, Endpoints)
  BY DEF UnmarkedEndpoints
<1>2. /\ \A y \in Endpoints : f[y] \in Nat /\ g[y] \in Nat
      /\ \A y \in Endpoints \ {x} : g[y] = f[y]
      /\ f[x] = Unmarked(x) /\ g[x] = Unmarked(x)'
      /\ Unmarked(x) \in Nat /\ Unmarked(x)' \in Nat
  <2>1. \A y \in Rows : Unmarked(y) \in Nat
    BY UnmarkedIsNat DEF TrailsInv, MarksAreNat
  <2>2. \A y \in Rows : Unmarked(y)' \in Nat
    BY MarksLater DEF MarksAreNat
  <2> QED BY <2>1, <2>2, MetersAreFinite
<1> HIDE DEF f, g
<1>3. UnmarkedEndpoints' = UnmarkedEndpoints
                              + IF x \in Endpoints THEN Unmarked(x)' - Unmarked(x) ELSE 0
  <2>1. CASE x \in Endpoints
    <3>1. SumFunctionOnSet(g, Endpoints) = SumFunctionOnSet(f, Endpoints) + g[x] - f[x]
      BY <1>2, <2>1, MetersAreFinite, SumUpdate
    <3>2. SumFunctionOnSet(f, Endpoints) \in Nat
      BY <1>2, MetersAreFinite, SumType
    <3> QED BY <1>1, <1>2, <2>1, <3>1, <3>2
  <2>2. CASE x \notin Endpoints
    <3>1. SumFunctionOnSet(f, Endpoints) = SumFunctionOnSet(g, Endpoints)
      BY <1>2, <2>2, MetersAreFinite, SumAgree
    <3>2. SumFunctionOnSet(f, Endpoints) \in Nat
      BY <1>2, MetersAreFinite, SumType
    <3> QED BY <1>1, <2>2, <3>1, <3>2
  <2> QED BY <2>1, <2>2
<1>4. SumFunction(meter) + UnmarkedEndpoints = Cardinality(Endpoints)
      /\ SumFunction(meter) \in Nat /\ UnmarkedEndpoints \in Nat
  BY MetersSum DEF TrailsInv, MetersAreSums
<1>5. SumFunction(meter)' + UnmarkedEndpoints' = Cardinality(Endpoints)
  BY <1>2, <1>3, <1>4
<1>6. MetersAddUp' <=> SumFunction(meter)' + UnmarkedEndpoints' = Cardinality(Endpoints)
  BY MetersSumLater DEF MetersAreSums
<1> QED BY <1>5, <1>6

LEMMA SameMarksAddUp ==
    ASSUME TrailsInv, TrailsShape', \A x \in Rows : row'[x].kind = row[x].kind,
           \A x \in Rows : Unmarked(x)' = Unmarked(x), UNCHANGED meter
    PROVE  MetersAddUp'
<1>1. Endpoints' = Endpoints /\ SumFunction(meter)' = SumFunction(meter)
  BY DEF Endpoints
<1>2. UnmarkedEndpoints' = UnmarkedEndpoints
  BY <1>1 DEF UnmarkedEndpoints
<1>3. SumFunction(meter) + UnmarkedEndpoints = Cardinality(Endpoints)
  BY MetersSum DEF TrailsInv, MetersAreSums
<1>4. MetersAddUp' <=> SumFunction(meter)' + UnmarkedEndpoints' = Cardinality(Endpoints')
  BY MetersSumLater DEF MetersAreSums
<1> QED BY <1>1, <1>2, <1>3, <1>4

\* A request that goes on with what it carries, or without, leaves no mark.
LEMMA GoingOnKeeps ==
    ASSUME TrailsInv, NEW r \in TrailReqs, NEW q, LGoto(r, q), TrailsFit',
           q \in {LIdle} \cup Auditing \cup Metering \cup Delivering,
           \A x \in Rows : OneBound(r, x)' = OneBound(r, x),
           delivery' \subseteq Rows \X {"delivered", "pending"},
           UNCHANGED <<row, trail, month, meter, writes, untold>>
    PROVE  TrailsInv'
<1> USE DEF LGoto
<1>1. TrailsShape' /\ \A p \in TrailReqs \ {r} : trailreq'[p] = trailreq[p]
  BY DEF TrailsInv, TrailsShape
<1>2. \A x \in Rows : RowAccount(x)'
  BY <1>1, AccountsAfter
<1>3. \A x \in Rows : Unmarked(x)' = Unmarked(x)
  <2> SUFFICES ASSUME NEW x \in Rows PROVE Unmarked(x)' = Unmarked(x)
    OBVIOUS
  <2>1. OnTheWay(x)' = OnTheWay(x)
    BY <1>1, OnTheWayMoves
  <2> QED BY <2>1 DEF Unmarked
<1>4. MetersAddUp'
  BY <1>1, <1>3, SameMarksAddUp
<1> QED BY <1>1, <1>2, <1>4 DEF TrailsInv

LEMMA EnqueueReadKeeps ==
    ASSUME TrailsInv, NEW r \in TrailReqs, NEW x \in Rows, EnqueueRead(r, x)
    PROVE  TrailsInv'
<1> USE DEF EnqueueRead
<1>1. PICK q \in Delivering : LGoto(r, q)
  <2> DEFINE q == [op |-> "deliver", row |-> x,
                   status |-> IF row[x].active THEN "delivered" ELSE "pending"]
  <2>1. q \in Delivering
    BY DEF Delivering
  <2>2. LGoto(r, q)
    OBVIOUS
  <2> QED BY <2>1, <2>2
<1>2. trailreq'[r] = q /\ q.op = "deliver" /\ trailreq[r].op = "idle"
  BY <1>1 DEF LGoto, Delivering, LIdle, TrailsInv, TrailsShape
<1>3. TrailsFit'
  BY <1>1, <1>2 DEF LGoto, TrailsInv, TrailsFit, TrailsShape
<1>4. \A y \in Rows : OneBound(r, y)' = OneBound(r, y)
  BY <1>2 DEF OneBound, Bound
<1> QED BY <1>1, <1>3, <1>4, GoingOnKeeps DEF TrailsInv, TrailsShape

LEMMA DeliverKeeps ==
    ASSUME TrailsInv, NEW r \in TrailReqs, Deliver(r)
    PROVE  TrailsInv'
<1> USE DEF Deliver
<1>1. trailreq[r] \in Delivering /\ trailreq'[r] = LIdle
  BY TrailRequestFields DEF LGoto, TrailsInv, TrailsShape
<1>2. TrailsFit'
  BY <1>1 DEF LGoto, LIdle, TrailsInv, TrailsFit, TrailsShape
<1>3. \A y \in Rows : OneBound(r, y)' = OneBound(r, y)
  BY <1>1 DEF OneBound, Bound, LIdle
<1>4. delivery' \subseteq Rows \X {"delivered", "pending"}
  BY <1>1 DEF Delivering, TrailsInv, TrailsShape
<1> QED BY <1>2, <1>3, <1>4, GoingOnKeeps

LEMMA FindMeterKeeps ==
    ASSUME TrailsInv, NEW r \in TrailReqs, FindMeter(r)
    PROVE  TrailsInv'
<1> USE DEF FindMeter
<1>1. trailreq[r].row \in Rows /\ month \in 1 .. Months
  BY TrailRequestFields DEF TrailsInv, TrailsShape
<1>2. PICK q \in Metering : LGoto(r, q) /\ q.op \in {"insert", "increment"}
                            /\ q.row = trailreq[r].row
  BY <1>1 DEF Metering
<1>3. trailreq'[r] = q
  BY <1>2 DEF LGoto, TrailsInv, TrailsShape
<1>4. TrailsFit'
  BY <1>2, <1>3 DEF LGoto, TrailsInv, TrailsFit, TrailsShape
<1>5. \A y \in Rows : OneBound(r, y)' = OneBound(r, y)
  BY <1>2, <1>3 DEF OneBound, Bound
<1> QED BY <1>2, <1>4, <1>5, GoingOnKeeps DEF TrailsInv, TrailsShape

-----------------------------------------------------------------------------
\* A write leaves its row with one more mark to come.
LEMMA WriteAddsOne ==
    ASSUME TrailsInv, NEW r \in TrailReqs, NEW x \in Rows, NEW kind \in UsedKinds,
           Write(r, x, kind)
    PROVE  /\ TrailsShape' /\ TrailsFit'
           /\ row'[x].kind = kind /\ kind # "none"
           /\ row[x].kind = "none" \/ (row[x].kind = kind /\ kind # "webhook")
           /\ \A y \in Rows \ {x} : row'[y] = row[y] /\ writes'[y] = writes[y]
           /\ writes'[x] = writes[x] + 1
           /\ \A y \in Rows : /\ Unmarked(y)' = Unmarked(y) + IF y = x THEN 1 ELSE 0
                              /\ Unmarked(y) \in Nat
<1> USE DEF Write, LGoto
<1>0. kind \in Kinds /\ kind # "none"
  BY TrailsAssumption DEF Kinds
<1>1. /\ \A p \in TrailReqs \ {r} : trailreq'[p] = trailreq[p]
      /\ trailreq'[r] = [op |-> IF kind = "webhook" THEN "find" ELSE "audit", row |-> x]
      /\ trailreq[r] = LIdle
      /\ row'[x] = [kind |-> kind, active |-> kind = "webhook"]
      /\ row'[x].kind = kind
      /\ row[x].kind = "none" \/ (row[x].kind = kind /\ kind # "webhook")
      /\ \A y \in Rows \ {x} : row'[y] = row[y] /\ writes'[y] = writes[y]
      /\ writes'[x] = writes[x] + 1
  BY DEF TrailsInv, TrailsShape
<1>2. TrailsShape'
  <2>1. row' \in [Rows -> RowState]
    BY <1>0, <1>1 DEF RowState, TrailsInv, TrailsShape
  <2>2. writes' \in [Rows -> 0 .. MaxWrites]
    BY TrailsAssumption DEF TrailsInv, TrailsShape
  <2>3. trailreq'[r] \in Auditing \cup Metering
    BY <1>1 DEF Auditing, Metering
  <2> QED BY <2>1, <2>2, <2>3 DEF TrailsInv, TrailsShape
<1>3. TrailsFit'
  <2> SUFFICES ASSUME NEW p \in TrailReqs
               PROVE  /\ trailreq'[p].op = "audit"
                           => row'[trailreq'[p].row].kind \notin {"none", "webhook"}
                      /\ trailreq'[p].op \in {"find", "insert", "increment"}
                           => row'[trailreq'[p].row].kind = "webhook"
    BY DEF TrailsFit
  <2>1. CASE p = r
    BY <1>0, <1>1, <2>1
  <2>2. CASE p # r
    <3>1. trailreq[p].op \in {"audit", "find", "insert", "increment"} =>
             trailreq[p].row \in Rows
      BY TrailRequestFields DEF TrailsInv
    <3> QED BY <1>0, <1>1, <2>2, <3>1 DEF TrailsInv, TrailsFit
  <2> QED BY <2>1, <2>2
<1>4. \A y \in Rows : /\ OneBound(r, y) = 0
                      /\ OneBound(r, y)' = IF y = x THEN 1 ELSE 0
  BY <1>1 DEF OneBound, Bound, LIdle
<1>5. \A y \in Rows : /\ OnTheWay(y)' = OnTheWay(y) + IF y = x THEN 1 ELSE 0
                      /\ OnTheWay(y) \in Nat
  BY <1>1, <1>4, OnTheWayMoves
<1>6. \A y \in Rows : /\ Unmarked(y)' = Unmarked(y) + IF y = x THEN 1 ELSE 0
                      /\ Unmarked(y) \in Nat
  <2>1. \A y \in Rows : untold[y] \in Nat /\ untold'[y] = untold[y]
    BY DEF TrailsInv, TrailsShape
  <2> QED BY <1>5, <2>1 DEF Unmarked
<1> QED BY <1>0, <1>1, <1>2, <1>3, <1>6

LEMMA WriteKeeps ==
    ASSUME TrailsInv, NEW r \in TrailReqs, NEW x \in Rows, NEW kind \in UsedKinds,
           Write(r, x, kind)
    PROVE  TrailsInv'
<1>0. /\ TrailsShape' /\ TrailsFit'
      /\ row'[x].kind = kind /\ kind # "none"
      /\ row[x].kind = "none" \/ (row[x].kind = kind /\ kind # "webhook")
      /\ \A y \in Rows \ {x} : row'[y] = row[y] /\ writes'[y] = writes[y]
      /\ writes'[x] = writes[x] + 1
      /\ \A y \in Rows : /\ Unmarked(y)' = Unmarked(y) + IF y = x THEN 1 ELSE 0
                         /\ Unmarked(y) \in Nat
  BY WriteAddsOne
<1>1. trail' = trail /\ trail[x] \in Nat /\ writes[x] \in Nat
  BY DEF Write, TrailsInv, TrailsShape
<1>2. ASSUME NEW y \in Rows PROVE RowAccount(y)'
  <2>1. RowAccount(y)
    BY DEF TrailsInv
  <2>2. CASE y = x
    BY <1>0, <1>1, <2>1, <2>2 DEF RowAccount
  <2>3. CASE y # x
    BY <1>0, <1>1, <2>1, <2>3 DEF RowAccount
  <2> QED BY <2>2, <2>3
<1>3. SumFunction(meter)' = SumFunction(meter)
  BY DEF Write
<1>4. /\ SumFunction(meter) + UnmarkedEndpoints = Cardinality(Endpoints)
      /\ SumFunction(meter) \in Nat /\ UnmarkedEndpoints \in Nat
  BY MetersSum DEF TrailsInv, MetersAreSums
<1>5. MetersAddUp'
  <2>1. CASE kind # "webhook"
    <3>1. Endpoints' = Endpoints /\ x \notin Endpoints
      BY <1>0, <1>1, <2>1 DEF Endpoints
    <3>2. \A y \in Endpoints \ {x} : Unmarked(y)' = Unmarked(y)
      BY <1>0, <1>1, MetersAreFinite
    <3> QED BY <1>0, <1>1, <1>3, <1>4, <3>1, <3>2, MetersAfter
  \* The endpoint is unmarked until a meter counts it.
  <2>2. CASE kind = "webhook"
    <3> DEFINE f == [y \in Rows |-> Unmarked(y)]
               g == [y \in Rows |-> Unmarked(y)']
    <3>1. Endpoints' = Endpoints \cup {x} /\ x \notin Endpoints
      BY <1>0, <1>1, <2>2 DEF Endpoints
    <3>2. Cardinality(Endpoints') = Cardinality(Endpoints) + 1
      BY <3>1, MetersAreFinite, FS_AddElement
    <3>3. \A y \in Endpoints : f[y] \in Int /\ g[y] = f[y]
      BY <1>0, <1>1, <3>1, MetersAreFinite
    <3>4. g[x] = 1
      BY <1>0, <1>1, <2>2 DEF TrailsInv, RowAccount
    <3>5. UnmarkedEndpoints = SumFunctionOnSet(f, Endpoints)
          /\ UnmarkedEndpoints' = SumFunctionOnSet(g, Endpoints')
      BY DEF UnmarkedEndpoints
    <3> HIDE DEF f, g
    <3>6. UnmarkedEndpoints' = UnmarkedEndpoints + 1
      BY <3>1, <3>3, <3>4, <3>5, MetersAreFinite, SumInsert
    <3>7. SumFunction(meter)' + UnmarkedEndpoints' = Cardinality(Endpoints')
      BY <1>3, <1>4, <3>2, <3>6
    <3> QED BY <1>0, <1>1, <3>7, MetersSumLater DEF MetersAreSums
  <2> QED BY <2>1, <2>2
<1> QED BY <1>0, <1>2, <1>5 DEF TrailsInv

-----------------------------------------------------------------------------
\* A request that ends has turned what it carried into a trail, or lost it.
LEMMA EndingFits ==
    ASSUME TrailsInv, NEW r \in TrailReqs, trailreq[r].op # "idle", LGoto(r, LIdle),
           UNCHANGED row
    PROVE  /\ trailreq' \in [TrailReqs -> {LIdle} \cup Auditing \cup Metering \cup Delivering]
           /\ TrailsFit'
           /\ \A p \in TrailReqs \ {r} : trailreq'[p] = trailreq[p]
           /\ \A x \in Rows :
                /\ OneBound(r, x)' = 0
                /\ OneBound(r, x) = IF trailreq[r].op # "deliver" /\ x = trailreq[r].row
                                    THEN 1 ELSE 0
                /\ OnTheWay(x) \in Nat
                /\ OnTheWay(x)' = OnTheWay(x) - OneBound(r, x)
<1> USE DEF LGoto
<1>1. /\ trailreq' \in [TrailReqs -> {LIdle} \cup Auditing \cup Metering \cup Delivering]
      /\ \A p \in TrailReqs \ {r} : trailreq'[p] = trailreq[p]
      /\ trailreq'[r] = LIdle
  BY DEF TrailsInv, TrailsShape
<1>2. TrailsFit'
  BY <1>1 DEF TrailsInv, TrailsFit, LIdle
<1>3. trailreq[r].op \in {"audit", "find", "insert", "increment", "deliver"}
  BY TrailRequestFields DEF TrailsInv, LIdle
<1>4. \A x \in Rows :
        /\ OneBound(r, x)' = 0
        /\ OneBound(r, x) = IF trailreq[r].op # "deliver" /\ x = trailreq[r].row THEN 1 ELSE 0
  BY <1>1, <1>3 DEF OneBound, Bound, LIdle
<1>5. \A x \in Rows : OnTheWay(x) \in Nat /\ OnTheWay(x)' = OnTheWay(x) - OneBound(r, x)
  BY <1>1, <1>4, OnTheWayMoves
<1> QED BY <1>1, <1>2, <1>4, <1>5

LEMMA WriteAuditKeeps ==
    ASSUME TrailsInv, NEW r \in TrailReqs, WriteAudit(r)
    PROVE  TrailsInv'
<1> USE DEF WriteAudit
<1>1. PICK x \in Rows : x = trailreq[r].row /\ row[x].kind \notin {"none", "webhook"}
  BY TrailRequestFields DEF TrailsInv, TrailsFit
<1>2. /\ trailreq' \in [TrailReqs -> {LIdle} \cup Auditing \cup Metering \cup Delivering]
      /\ TrailsFit'
      /\ \A p \in TrailReqs \ {r} : trailreq'[p] = trailreq[p]
      /\ \A y \in Rows : /\ OneBound(r, y)' = 0
                         /\ OneBound(r, y) = IF y = x THEN 1 ELSE 0
                         /\ OnTheWay(y) \in Nat
                         /\ OnTheWay(y)' = OnTheWay(y) - OneBound(r, y)
  BY <1>1, EndingFits
<1>3. /\ \A y \in Rows : /\ trail'[y] = trail[y] + IF y = x THEN 1 ELSE 0
                         /\ trail[y] \in Nat /\ untold[y] \in Nat
      /\ trail' \in [Rows -> Nat]
  BY <1>1 DEF TrailsInv, TrailsShape
<1>4. TrailsShape'
  BY <1>2, <1>3 DEF TrailsInv, TrailsShape
<1>5. \A y \in Rows : RowAccount(y)'
  <2>1. \A y \in Rows : /\ trail'[y] + untold'[y] + OneBound(r, y)'
                             = trail[y] + untold[y] + OneBound(r, y)
                        /\ row[y].kind \in {"none", "webhook"} => trail'[y] = trail[y]
    BY <1>1, <1>2, <1>3
  <2> QED BY <1>2, <1>4, <2>1, AccountsAfter
<1>6. MetersAddUp'
  <2>1. Endpoints' = Endpoints /\ x \notin Endpoints
    BY <1>1 DEF Endpoints
  <2>2. \A y \in Endpoints \ {x} : Unmarked(y)' = Unmarked(y)
    BY <1>2, MetersAreFinite DEF Unmarked
  <2>3. SumFunction(meter)' = SumFunction(meter) /\ SumFunction(meter) \in Nat
    BY MetersSum DEF TrailsInv, MetersAreSums
  <2> QED BY <1>1, <1>4, <2>1, <2>2, <2>3, MetersAfter
<1> QED BY <1>2, <1>4, <1>5, <1>6 DEF TrailsInv

\* An endpoint is counted by the month's meter, inserted or incremented.
LEMMA MeterKeeps ==
    ASSUME TrailsInv, NEW r \in TrailReqs, InsertMeter(r) \/ IncrementMeter(r)
    PROVE  TrailsInv'
<1> USE DEF InsertMeter, IncrementMeter
<1>0. PICK x \in Rows, p \in 1 .. Months : x = trailreq[r].row /\ p = trailreq[r].month
  BY TrailRequestFields DEF TrailsInv
<1>1. /\ row[x].kind = "webhook" /\ trailreq[r].op \in {"insert", "increment"}
      /\ LGoto(r, LIdle)
      /\ UNCHANGED <<row, trail, month, delivery, writes, untold>>
  BY <1>0 DEF TrailsInv, TrailsFit
<1>2. /\ trailreq' \in [TrailReqs -> {LIdle} \cup Auditing \cup Metering \cup Delivering]
      /\ TrailsFit'
      /\ \A q \in TrailReqs \ {r} : trailreq'[q] = trailreq[q]
      /\ \A y \in Rows : /\ OneBound(r, y)' = 0
                         /\ OneBound(r, y) = IF y = x THEN 1 ELSE 0
                         /\ OnTheWay(y) \in Nat
                         /\ OnTheWay(y)' = OnTheWay(y) - OneBound(r, y)
  BY <1>0, <1>1, EndingFits
<1>3. /\ meter' = [meter EXCEPT ![p] = meter[p] + 1] /\ meter' \in [1 .. Months -> Nat]
      /\ \A y \in Rows : untold[y] \in Nat
  <2>1. meter \in [1 .. Months -> Nat] /\ \A y \in Rows : untold[y] \in Nat
    BY DEF TrailsInv, TrailsShape
  <2>2. meter' = [meter EXCEPT ![p] = meter[p] + 1]
    BY <1>0, <2>1
  <2> QED BY <2>1, <2>2
<1>4. TrailsShape'
  BY <1>1, <1>2, <1>3 DEF TrailsInv, TrailsShape
<1>5. \A y \in Rows : Unmarked(y)' = Unmarked(y) - IF y = x THEN 1 ELSE 0
  <2> SUFFICES ASSUME NEW y \in Rows
               PROVE  Unmarked(y)' = Unmarked(y) - IF y = x THEN 1 ELSE 0
    OBVIOUS
  <2>1. PICK known \in Nat : known = untold[y] /\ untold'[y] = known
    BY <1>1, <1>3
  <2>2. PICK before \in Nat, bound \in {0, 1} :
           /\ before = OnTheWay(y) /\ bound = IF y = x THEN 1 ELSE 0
           /\ OnTheWay(y)' = before - bound
    BY <1>2
  <2> QED BY <2>1, <2>2 DEF Unmarked
<1>6. ASSUME NEW y \in Rows PROVE RowAccount(y)'
  <2>1. RowAccount(y) /\ Unmarked(y) \in Nat /\ Unmarked(y)' \in Nat
    BY <1>4, UnmarkedIsNat, MarksLater DEF TrailsInv, MarksAreNat
  <2>2. CASE y = x
    BY <1>1, <1>5, <2>1, <2>2 DEF RowAccount
  <2>3. CASE y # x
    BY <1>1, <1>5, <2>1, <2>3 DEF RowAccount
  <2> QED BY <2>2, <2>3
<1>7. SumFunction(meter)' = SumFunction(meter) + 1 /\ SumFunction(meter) \in Nat
  <2>1. meter \in [1 .. Months -> Nat]
    BY DEF TrailsInv, TrailsShape
  <2>2. SumFunctionOnSet(meter', 1 .. Months) = SumFunctionOnSet(meter, 1 .. Months) + 1
    <3>1. meter' = [meter EXCEPT ![p] = meter[p] + 1] /\ p \in 1 .. Months
      BY <1>3
    <3>2. IsFiniteSet(1 .. Months)
      BY MetersAreFinite
    <3> HIDE DEF InsertMeter, IncrementMeter
    <3> QED BY <2>1, <3>1, <3>2, SumCountsOne
  <2>3. /\ SumFunction(meter) = SumFunctionOnSet(meter, 1 .. Months)
        /\ SumFunction(meter) \in Nat
        /\ SumFunction(meter)' = SumFunctionOnSet(meter', 1 .. Months)
    BY <1>4, MetersSum, MetersSumLater DEF TrailsInv, MetersAreSums
  <2> QED BY <2>2, <2>3
<1>8. MetersAddUp'
  <2>1. Endpoints' = Endpoints /\ x \in Endpoints
    BY <1>1 DEF Endpoints
  <2>2. \A y \in Endpoints \ {x} : Unmarked(y)' = Unmarked(y)
    BY <1>2, <1>1, MetersAreFinite DEF Unmarked
  <2>3. Unmarked(x) - Unmarked(x)' = 1
    BY <1>1, <1>5, UnmarkedIsNat DEF TrailsInv, MarksAreNat
  <2> QED BY <1>1, <1>4, <1>7, <2>1, <2>2, <2>3, MetersAfter
<1> QED BY <1>2, <1>4, <1>6, <1>8 DEF TrailsInv

\* A write whose request ends before its trail is told no more.
LEMMA TrailAbandonKeeps ==
    ASSUME TrailsInv, NEW r \in TrailReqs, trailreq[r].op # "idle", TrailAbandon(r)
    PROVE  TrailsInv'
<1> DEFINE One(y) == IF trailreq[r].op # "deliver" /\ y = trailreq[r].row THEN 1 ELSE 0
<1> USE DEF TrailAbandon
<1>1. /\ trailreq' \in [TrailReqs -> {LIdle} \cup Auditing \cup Metering \cup Delivering]
      /\ TrailsFit'
      /\ \A q \in TrailReqs \ {r} : trailreq'[q] = trailreq[q]
      /\ \A y \in Rows : /\ OneBound(r, y)' = 0 /\ OneBound(r, y) = One(y)
                         /\ OnTheWay(y) \in Nat
                         /\ OnTheWay(y)' = OnTheWay(y) - OneBound(r, y)
  BY EndingFits
<1>2. \A y \in Rows : /\ untold'[y] = untold[y] + One(y)
                      /\ untold[y] \in Nat /\ trail[y] \in Nat
  BY DEF TrailsInv, TrailsShape
<1>3. untold' \in [Rows -> Nat]
  <2>1. untold \in [Rows -> Nat]
    BY DEF TrailsInv, TrailsShape
  <2>2. CASE trailreq[r].op = "deliver"
    BY <2>1, <2>2
  <2>3. CASE trailreq[r].op # "deliver"
    <3>1. untold' = [untold EXCEPT ![trailreq[r].row] = @ + 1]
      BY <2>3
    <3>2. trailreq[r].row \in Rows
      BY <2>3, TrailRequestFields DEF TrailsInv, LIdle
    <3> QED BY <2>1, <3>1, <3>2
  <2> QED BY <2>2, <2>3
<1>4. TrailsShape'
  BY <1>1, <1>3 DEF TrailsInv, TrailsShape
<1>5. \A y \in Rows : One(y) \in {0, 1}
  OBVIOUS
<1> HIDE DEF One
<1>6. \A y \in Rows : RowAccount(y)'
  <2>1. \A y \in Rows : trail'[y] + untold'[y] + OneBound(r, y)'
                           = trail[y] + untold[y] + OneBound(r, y)
    BY <1>1, <1>2, <1>5
  <2> QED BY <1>1, <1>4, <2>1, AccountsAfter
<1>7. \A y \in Rows : Unmarked(y)' = Unmarked(y)
  BY <1>1, <1>2, <1>5 DEF Unmarked
<1>8. MetersAddUp'
  BY <1>4, <1>7, SameMarksAddUp
<1> QED BY <1>1, <1>4, <1>6, <1>8 DEF TrailsInv

LEMMA NextMonthKeeps == ASSUME TrailsInv, NextMonth PROVE TrailsInv'
<1> USE DEF NextMonth
<1>1. TrailsShape'
  BY TrailsAssumption DEF TrailsInv, TrailsShape
<1> QED BY <1>1
    DEF TrailsInv, TrailsFit, RowAccount, Unmarked, OnTheWay, MetersAddUp

LEMMA SetActiveKeeps ==
    ASSUME TrailsInv, NEW x \in Rows, NEW active \in BOOLEAN, SetActive(x, active)
    PROVE  TrailsInv'
<1> USE DEF SetActive
<1>1. /\ row' \in [Rows -> RowState] /\ \A y \in Rows : row'[y].kind = row[y].kind
      /\ UNCHANGED <<trail, month, meter, delivery, trailreq, writes, untold>>
  BY DEF TrailsInv, TrailsShape, RowState
<1>2. TrailsShape'
  BY <1>1 DEF TrailsInv, TrailsShape
<1>3. TrailsFit'
  BY <1>1, TrailRequestFields DEF TrailsInv, TrailsFit
<1>4. \A y \in Rows : Unmarked(y)' = Unmarked(y) /\ RowAccount(y)'
  BY <1>1 DEF TrailsInv, RowAccount, Unmarked, OnTheWay
<1>5. MetersAddUp'
  BY <1>1, <1>2, <1>4, SameMarksAddUp
<1> QED BY <1>2, <1>3, <1>4, <1>5 DEF TrailsInv

LEMMA NextKeepsTrails == TrailsInv /\ [TrailsNext]_trailVars => TrailsInv'
<1> SUFFICES ASSUME TrailsInv, [TrailsNext]_trailVars PROVE TrailsInv'
  OBVIOUS
<1>1. CASE UNCHANGED trailVars
  BY <1>1 DEF trailVars, TrailsInv, TrailsShape, TrailsFit, RowAccount, Unmarked, OnTheWay,
              MetersAddUp
<1>2. ASSUME NEW r \in TrailReqs, MeterClash(r) \/ TrailDie(r) PROVE TrailsInv'
  <2>1. trailreq[r].op # "idle"
    BY <1>2, TrailRequestFields DEF MeterClash, TrailDie, TrailsInv
  <2> QED BY <1>2, <2>1, TrailAbandonKeeps DEF MeterClash, TrailDie
<1>3. CASE TrailsNext
  BY <1>2, <1>3, EnqueueReadKeeps, WriteKeeps, WriteAuditKeeps, FindMeterKeeps, MeterKeeps,
     DeliverKeeps, NextMonthKeeps, SetActiveKeeps DEF TrailsNext
<1> QED BY <1>1, <1>3

\* However many requests write, and wherever one dies, every audited write has
\* its one entry, is about to have it, or died before it (writeAudit after the
\* row), and the meters of all months add up to the endpoints that were
\* created (usage.increment); and every variable of Trails.tla keeps its type.
THEOREM TrailsAddUp == TrailsSpec => [](TrailsTypeOK /\ TrailsReconcile)
  BY InitTrailsInv, NextKeepsTrails, TrailsInvImplies, PTL DEF TrailsSpec

-----------------------------------------------------------------------------
(***************************************************************************)
(* Records: imports with their jobs, and writes to customers.              *)
(***************************************************************************)

IsImport(r, kind) == recreq[r].op \in {"rows", "create"} /\ recreq[r].kind = kind

\* What the import r, and the job j, add to the rows imported of a kind.
Got(r, kind) == IF IsImport(r, kind) THEN recreq[r].ok ELSE 0
Told(j, kind) == IF job[j].kind = kind THEN job[j].ok ELSE 0

GotInAll(kind) == SumFunctionOnSet([r \in RecReqs |-> Got(r, kind)], RecReqs)
ToldInAll(kind) == SumFunctionOnSet([j \in Jobs |-> Told(j, kind)], Jobs)

\* An import has accepted or rejected each row it has passed, and is at a row
\* for a supplier that exists when it is about to insert a rate.
ImportsFit == \A r \in RecReqs : recreq[r].op \in {"rows", "create"} =>
    /\ recreq[r].ok + recreq[r].bad = recreq[r].i - 1
    /\ recreq[r].i <= Len(recreq[r].rows) + 1
    /\ recreq[r].op = "create" => AtRow(r, "rates") /\ RowOf(r) \in Suppliers

\* Only rows that exist have been imported.
ImportedExist ==
    /\ \A c \in Customers : customer[c].imported => customer[c].exists
    /\ \A x \in Sheets : sheet[x].imported => sheet[x].supplier # "none"

\* Whoever is about to write to a deleted customer was there when it went.
PendingCrossed == \A r \in RecReqs :
    recreq[r].op = "write" /\ customer[recreq[r].customer].deleted
        => recreq[r].customer \in crossed

ImportsAt(kind) == [op : {"rows", "create"}, kind : {kind}, rows : Files(kind),
                    i : 1 .. MaxRows + 1, ok : 0 .. MaxRows, bad : 0 .. MaxRows]

RecordsInv ==
    /\ RecordsTypeOK
    /\ ImportsFit /\ ImportedExist
    /\ PendingCrossed /\ LateWritesCrossed
    /\ JobsAccount

\* What an import that is under way is made of.
LEMMA ImportFields ==
    ASSUME RecordsInv, NEW r \in RecReqs, recreq[r].op \in {"rows", "create"}
    PROVE  /\ recreq[r] \in Importing /\ recreq[r] \in ImportsAt(recreq[r].kind)
           /\ recreq[r].kind \in ImportKinds /\ recreq[r].rows \in Files(recreq[r].kind)
           /\ recreq[r].i \in 1 .. MaxRows + 1
           /\ recreq[r].ok \in 0 .. MaxRows /\ recreq[r].bad \in 0 .. MaxRows
           /\ Len(recreq[r].rows) \in 0 .. MaxRows
           /\ recreq[r].ok + recreq[r].bad = recreq[r].i - 1
           /\ recreq[r].i <= Len(recreq[r].rows) + 1
<1>1. recreq[r] \in Importing
  BY DEF RecordsInv, RecordsTypeOK, RIdle, Writing
<1>2. PICK kind \in ImportKinds : recreq[r] \in ImportsAt(kind)
  BY <1>1 DEF Importing, ImportsAt
<1>3. recreq[r].kind = kind /\ recreq[r].rows \in Files(kind)
  BY <1>2 DEF ImportsAt
<1>4. \A file \in Files(kind) : Len(file) \in 0 .. MaxRows
  BY RecordsAssumption DEF Files
<1> QED BY <1>1, <1>2, <1>3, <1>4 DEF RecordsInv, ImportsFit, ImportsAt

\* JobsAccount with its sums over all jobs and requests.
Balanced(kind) == Imported(kind) = ToldInAll(kind) + GotInAll(kind) + orphans[kind]
JobsTell == \A j \in Jobs : job[j].ok + job[j].bad = job[j].total

AccountsAreSums ==
    /\ \A kind \in ImportKinds :
          /\ \A r \in RecReqs : Got(r, kind) \in Nat
          /\ \A j \in Jobs : Told(j, kind) \in Nat
          /\ GotInAll(kind) \in Nat /\ ToldInAll(kind) \in Nat
    /\ JobsAccount <=> JobsTell /\ \A kind \in ImportKinds : Balanced(kind)

LEMMA AccountSums == RecordsTypeOK => AccountsAreSums
<1> SUFFICES ASSUME RecordsTypeOK PROVE AccountsAreSums
  OBVIOUS
<1>1. ASSUME NEW kind \in ImportKinds
      PROVE  /\ \A r \in RecReqs : Got(r, kind) \in Nat
             /\ \A j \in Jobs : Told(j, kind) \in Nat
             /\ GotInAll(kind) \in Nat /\ ToldInAll(kind) \in Nat
             /\ SumFunctionOnSet([r \in ImportsOf(kind) |-> recreq[r].ok], ImportsOf(kind))
                  = GotInAll(kind)
             /\ SumFunctionOnSet([j \in Jobs |-> job[j].ok], JobsOf(kind)) = ToldInAll(kind)
  <2> DEFINE got == [r \in RecReqs |-> Got(r, kind)]
             gotOf == [r \in ImportsOf(kind) |-> recreq[r].ok]
             told == [j \in Jobs |-> Told(j, kind)]
             oks == [j \in Jobs |-> job[j].ok]
  <2>1. \A r \in RecReqs : recreq[r].op \in {"rows", "create"} => recreq[r].ok \in Nat
    BY RecordsAssumption DEF RecordsTypeOK, Importing, RIdle, Writing
  <2>2. \A r \in RecReqs : Got(r, kind) \in Nat
    BY <2>1 DEF Got, IsImport
  <2>3. \A j \in Jobs : Told(j, kind) \in Nat
    BY RecordsAssumption DEF RecordsTypeOK, Told, JobRow
  <2>4. /\ \A r \in RecReqs : got[r] \in Nat
        /\ \A r \in RecReqs \ ImportsOf(kind) : got[r] = 0
        /\ \A r \in ImportsOf(kind) : gotOf[r] = got[r]
        /\ ImportsOf(kind) \subseteq RecReqs
    BY <2>2 DEF ImportsOf, Got, IsImport
  <2>5. /\ \A j \in Jobs : told[j] \in Nat
        /\ \A j \in Jobs \ JobsOf(kind) : told[j] = 0
        /\ \A j \in JobsOf(kind) : oks[j] = told[j]
        /\ JobsOf(kind) \subseteq Jobs
    BY <2>3 DEF JobsOf, Told
  <2>6. /\ GotInAll(kind) = SumFunctionOnSet(got, RecReqs)
        /\ ToldInAll(kind) = SumFunctionOnSet(told, Jobs)
    BY DEF GotInAll, ToldInAll
  <2> HIDE DEF got, gotOf, told, oks
  <2>7. /\ IsFiniteSet(RecReqs) /\ IsFiniteSet(Jobs)
        /\ IsFiniteSet(ImportsOf(kind)) /\ IsFiniteSet(JobsOf(kind))
    BY <2>4, <2>5, RecordsAssumption, FS_Subset
  <2>8. GotInAll(kind) \in Nat /\ ToldInAll(kind) \in Nat
    BY <2>4, <2>5, <2>6, <2>7, SumType
  <2>9. SumFunctionOnSet(got, RecReqs) = SumFunctionOnSet(got, ImportsOf(kind))
        /\ SumFunctionOnSet(gotOf, ImportsOf(kind)) = SumFunctionOnSet(got, ImportsOf(kind))
    <3>1. \A r \in ImportsOf(kind) : got[r] \in Int
      BY <2>4
    <3>2. SumFunctionOnSet(got, RecReqs) = SumFunctionOnSet(got, ImportsOf(kind))
      BY <2>4, <2>7, <3>1, SumSupport
    <3>3. SumFunctionOnSet(gotOf, ImportsOf(kind)) = SumFunctionOnSet(got, ImportsOf(kind))
      BY <2>4, <2>7, SumAgree
    <3> QED BY <3>2, <3>3
  <2>10. SumFunctionOnSet(told, Jobs) = SumFunctionOnSet(told, JobsOf(kind))
         /\ SumFunctionOnSet(oks, JobsOf(kind)) = SumFunctionOnSet(told, JobsOf(kind))
    <3>1. \A j \in JobsOf(kind) : told[j] \in Int
      BY <2>5
    <3>2. SumFunctionOnSet(told, Jobs) = SumFunctionOnSet(told, JobsOf(kind))
      BY <2>5, <2>7, <3>1, SumSupport
    <3>3. SumFunctionOnSet(oks, JobsOf(kind)) = SumFunctionOnSet(told, JobsOf(kind))
      BY <2>5, <2>7, SumAgree
    <3> QED BY <3>2, <3>3
  <2>11. /\ SumFunctionOnSet(gotOf, ImportsOf(kind)) = GotInAll(kind)
         /\ SumFunctionOnSet(oks, JobsOf(kind)) = ToldInAll(kind)
    BY <2>6, <2>9, <2>10
  <2> QED BY <2>2, <2>3, <2>8, <2>11 DEF gotOf, oks
<1> QED BY <1>1 DEF AccountsAreSums, JobsAccount, JobsTell, Balanced

LEMMA AccountSumsLater == RecordsTypeOK' => AccountsAreSums'
  BY AccountSums, PTL

LEMMA ImportedIsNat == RecordsTypeOK => \A kind \in ImportKinds : Imported(kind) \in Nat
<1>1. ASSUME NEW kind PROVE Imported(kind) \in Nat
  <2>1. IsFiniteSet({c \in Customers : customer[c].imported})
        /\ IsFiniteSet({x \in Sheets : sheet[x].imported})
    BY RecordsAssumption, FS_Subset
  <2> QED BY <2>1, FS_CardinalityType DEF Imported
<1> QED BY <1>1

ImportedAreNat == \A kind \in ImportKinds : Imported(kind) \in Nat

LEMMA ImportedLater == RecordsTypeOK' => \A kind \in ImportKinds : Imported(kind)' \in Nat
<1>1. RecordsTypeOK => ImportedAreNat
  BY ImportedIsNat DEF ImportedAreNat
<1>2. RecordsTypeOK' => ImportedAreNat'
  BY <1>1, PTL
<1> QED BY <1>2 DEF ImportedAreNat

-----------------------------------------------------------------------------
\* A kind stays balanced when one request moves and what it gets, or leaves
\* behind when it dies, has been imported.
LEMMA BalanceAfter ==
    ASSUME RecordsInv, RecordsTypeOK', NEW r \in RecReqs,
           \A p \in RecReqs \ {r} : recreq'[p] = recreq[p],
           UNCHANGED job, NEW kind \in ImportKinds, Imported(kind)' \in Nat,
           Imported(kind)' - Got(r, kind)' - orphans'[kind]
              = Imported(kind) - Got(r, kind) - orphans[kind]
    PROVE  Balanced(kind)'
<1> DEFINE f == [p \in RecReqs |-> Got(p, kind)]
           g == [p \in RecReqs |-> Got(p, kind)']
<1>1. /\ \A p \in RecReqs : f[p] \in Int /\ g[p] \in Int
      /\ \A p \in RecReqs \ {r} : g[p] = f[p]
      /\ f[r] = Got(r, kind) /\ g[r] = Got(r, kind)'
      /\ Got(r, kind) \in Nat /\ Got(r, kind)' \in Nat
  <2>1. \A p \in RecReqs : Got(p, kind) \in Nat
    BY AccountSums DEF RecordsInv, AccountsAreSums
  <2>2. \A p \in RecReqs : Got(p, kind)' \in Nat
    BY AccountSumsLater DEF AccountsAreSums
  <2>3. \A p \in RecReqs \ {r} : Got(p, kind)' = Got(p, kind)
    BY DEF Got, IsImport
  <2> QED BY <2>1, <2>2, <2>3
<1>2. GotInAll(kind) = SumFunctionOnSet(f, RecReqs)
      /\ GotInAll(kind)' = SumFunctionOnSet(g, RecReqs)
  BY DEF GotInAll
<1> HIDE DEF f, g
<1>3. SumFunctionOnSet(g, RecReqs) = SumFunctionOnSet(f, RecReqs) + g[r] - f[r]
  BY <1>1, RecordsAssumption, SumUpdate
<1>4. GotInAll(kind)' = GotInAll(kind) + Got(r, kind)' - Got(r, kind)
  BY <1>1, <1>2, <1>3
<1>5. ToldInAll(kind)' = ToldInAll(kind)
  BY DEF ToldInAll, Told
<1>6. /\ Imported(kind) = ToldInAll(kind) + GotInAll(kind) + orphans[kind]
      /\ GotInAll(kind) \in Nat /\ ToldInAll(kind) \in Nat
      /\ Imported(kind) \in Nat /\ orphans[kind] \in Nat /\ orphans'[kind] \in Nat
  BY AccountSums, ImportedIsNat DEF RecordsInv, AccountsAreSums, RecordsTypeOK, Balanced
<1>7. /\ Imported(kind)' - Got(r, kind)' - orphans'[kind]
            = Imported(kind) - Got(r, kind) - orphans[kind]
      /\ Got(r, kind) \in Nat /\ Got(r, kind)' \in Nat /\ Imported(kind)' \in Nat
      /\ ToldInAll(kind)' \in Nat /\ GotInAll(kind)' \in Nat
  BY <1>1, AccountSumsLater DEF AccountsAreSums
<1>8. Imported(kind)' = ToldInAll(kind)' + GotInAll(kind)' + orphans'[kind]
  <2> DEFINE i == Imported(kind)
             t == ToldInAll(kind)
             a == GotInAll(kind)
             o == orphans[kind]
             d == Got(r, kind)
             ii == Imported(kind)'
             aa == GotInAll(kind)'
             oo == orphans'[kind]
             dd == Got(r, kind)'
  <2>1. /\ i = t + a + o /\ aa = a + dd - d /\ ii - dd - oo = i - d - o
        /\ {i, t, a, o, d, ii, aa, oo, dd} \subseteq Nat
    BY <1>4, <1>6, <1>7
  <2> HIDE DEF i, t, a, o, d, ii, aa, oo, dd
  <2>2. ii = t + aa + oo
    BY <2>1
  <2> QED BY <1>5, <2>2 DEF i, t, a, o, d, ii, aa, oo, dd
<1> QED BY <1>8 DEF Balanced

\* What a request that moves has to leave in order.
LEMMA RequestKeeps ==
    ASSUME RecordsInv, RecordsTypeOK', NEW r \in RecReqs,
           \A p \in RecReqs \ {r} : recreq'[p] = recreq[p],
           UNCHANGED job,
           ImportedExist', PendingCrossed', LateWritesCrossed',
           recreq'[r].op \in {"rows", "create"} =>
              /\ recreq'[r].ok + recreq'[r].bad = recreq'[r].i - 1
              /\ recreq'[r].i <= Len(recreq'[r].rows) + 1
              /\ recreq'[r].op = "create" =>
                    /\ recreq'[r].kind = "rates" /\ recreq'[r].i <= Len(recreq'[r].rows)
                    /\ recreq'[r].rows[recreq'[r].i] \in Suppliers,
           \A kind \in ImportKinds :
              /\ Imported(kind)' \in Nat
              /\ Imported(kind)' - Got(r, kind)' - orphans'[kind]
                    = Imported(kind) - Got(r, kind) - orphans[kind]
    PROVE  RecordsInv'
<1>1. ImportsFit'
  BY DEF RecordsInv, ImportsFit, AtRow, RowOf
<1>2. \A kind \in ImportKinds : Balanced(kind)'
  BY BalanceAfter
<1>3. JobsTell'
  BY AccountSums DEF RecordsInv, AccountsAreSums, JobsTell
<1>4. JobsAccount'
  BY <1>2, <1>3, AccountSumsLater DEF AccountsAreSums
<1> QED BY <1>1, <1>4 DEF RecordsInv

\* The rows imported stay the same, whatever else is written to them.
LEMMA SameImported ==
    ASSUME RecordsInv, \A c \in Customers : customer'[c].imported = customer[c].imported,
           \A x \in Sheets : sheet'[x].imported = sheet[x].imported
    PROVE  \A kind \in ImportKinds : Imported(kind)' = Imported(kind) /\ Imported(kind)' \in Nat
<1>1. \A kind \in ImportKinds : Imported(kind)' = Imported(kind)
  BY DEF Imported
<1> QED BY <1>1, ImportedIsNat DEF RecordsInv

-----------------------------------------------------------------------------
LEMMA LookupKeeps ==
    ASSUME RecordsInv, NEW r \in RecReqs, NEW c \in Customers,
           NEW op \in {"write", "softDelete"}, Lookup(r, c, op)
    PROVE  RecordsInv'
<1> USE DEF Lookup, RGoto
<1>1. /\ \A p \in RecReqs \ {r} : recreq'[p] = recreq[p]
      /\ recreq'[r] = [op |-> op, customer |-> c] /\ recreq[r] = RIdle
      /\ ~customer[c].deleted
  BY DEF RecordsInv, RecordsTypeOK, requireCustomer
<1>2. RecordsTypeOK'
  BY DEF RecordsInv, RecordsTypeOK, Writing
<1>3. ImportedExist' /\ LateWritesCrossed' /\ PendingCrossed'
  BY <1>1 DEF RecordsInv, ImportedExist, LateWritesCrossed, PendingCrossed
<1>4. \A kind \in ImportKinds : Got(r, kind) = 0 /\ Got(r, kind)' = 0
  BY <1>1 DEF Got, IsImport, RIdle
<1>5. \A kind \in ImportKinds : Imported(kind)' = Imported(kind) /\ Imported(kind)' \in Nat
  BY SameImported
<1> QED BY <1>1, <1>2, <1>3, <1>4, <1>5, RequestKeeps

LEMMA WriteCustomerKeeps ==
    ASSUME RecordsInv, NEW r \in RecReqs, WriteCustomer(r)
    PROVE  RecordsInv'
<1> USE DEF WriteCustomer, RGoto
<1>1. /\ \A p \in RecReqs \ {r} : recreq'[p] = recreq[p]
      /\ recreq'[r] = RIdle /\ recreq[r].op = "write" /\ recreq[r].customer \in Customers
  BY DEF RecordsInv, RecordsTypeOK, RIdle, Importing, Writing
<1>2. RecordsTypeOK'
  BY <1>1 DEF RecordsInv, RecordsTypeOK
<1>3. ImportedExist' /\ LateWritesCrossed' /\ PendingCrossed'
  BY <1>1 DEF RecordsInv, ImportedExist, LateWritesCrossed, PendingCrossed, RIdle
<1>4. \A kind \in ImportKinds : Got(r, kind) = 0 /\ Got(r, kind)' = 0
  BY <1>1 DEF Got, IsImport, RIdle
<1>5. \A kind \in ImportKinds : Imported(kind)' = Imported(kind) /\ Imported(kind)' \in Nat
  BY SameImported
<1> QED BY <1>1, <1>2, <1>3, <1>4, <1>5, RequestKeeps DEF RIdle

\* Every request that is about to write to the customer sees it go.
LEMMA SoftDeleteKeeps ==
    ASSUME RecordsInv, NEW r \in RecReqs, SoftDelete(r)
    PROVE  RecordsInv'
<1> USE DEF SoftDelete, RGoto
<1>0. PICK c \in Customers : c = recreq[r].customer
  BY DEF RecordsInv, RecordsTypeOK, RIdle, Importing, Writing
<1>1. /\ \A p \in RecReqs \ {r} : recreq'[p] = recreq[p]
      /\ recreq'[r] = RIdle /\ recreq[r].op = "softDelete"
      /\ customer' = [customer EXCEPT ![c].deleted = TRUE]
      /\ crossed' = IF \E p \in RecReqs : recreq[p] = [op |-> "write", customer |-> c]
                    THEN crossed \cup {c} ELSE crossed
  BY <1>0 DEF RecordsInv, RecordsTypeOK
<1>2. /\ customer' \in [Customers -> CustomerRow]
      /\ \A d \in Customers :
            /\ customer'[d].imported = customer[d].imported
            /\ customer'[d].exists = customer[d].exists
            /\ d # c => customer'[d].deleted = customer[d].deleted
  <2>1. /\ customer \in [Customers -> CustomerRow]
        /\ customer' = [customer EXCEPT ![c].deleted = TRUE]
    BY <1>1 DEF RecordsInv, RecordsTypeOK
  <2> HIDE DEF SoftDelete
  <2> QED BY <2>1 DEF CustomerRow
<1>3. RecordsTypeOK'
  BY <1>1, <1>2 DEF RecordsInv, RecordsTypeOK
<1>4. ImportedExist' /\ LateWritesCrossed'
  BY <1>1, <1>2 DEF RecordsInv, ImportedExist, LateWritesCrossed
<1>5. PendingCrossed'
  <2> SUFFICES ASSUME NEW p \in RecReqs, recreq'[p].op = "write",
                      customer'[recreq'[p].customer].deleted
               PROVE  recreq'[p].customer \in crossed'
    BY DEF PendingCrossed
  <2>1. p # r /\ recreq'[p] = recreq[p]
    BY <1>1 DEF RIdle
  <2>2. recreq[p] \in Writing
    BY <2>1 DEF RecordsInv, RecordsTypeOK, RIdle, Importing
  <2>3. CASE recreq[p].customer = c
    <3>1. recreq[p] = [op |-> "write", customer |-> c]
      BY <2>1, <2>2, <2>3 DEF Writing
    <3> QED BY <1>1, <2>1, <2>3, <3>1
  <2>4. CASE recreq[p].customer # c
    <3>1. customer[recreq[p].customer].deleted
      BY <1>2, <2>1, <2>2, <2>4 DEF Writing
    <3> QED BY <1>1, <2>1, <3>1 DEF RecordsInv, PendingCrossed
  <2> QED BY <2>3, <2>4
<1>6. \A kind \in ImportKinds : Got(r, kind) = 0 /\ Got(r, kind)' = 0
  BY <1>1 DEF Got, IsImport, RIdle
<1>7. \A kind \in ImportKinds : Imported(kind)' = Imported(kind) /\ Imported(kind)' \in Nat
  BY <1>2, SameImported
<1> QED BY <1>1, <1>3, <1>4, <1>5, <1>6, <1>7, RequestKeeps DEF RIdle

-----------------------------------------------------------------------------
\* A request that imports touches no customer that somebody is writing to.
LEMMA ImportStep ==
    ASSUME RecordsInv, NEW r \in RecReqs, NEW q, RGoto(r, q),
           NEW kind \in ImportKinds,
           q \in ImportsAt(kind),
           q.ok + q.bad = q.i - 1, q.i <= Len(q.rows) + 1,
           q.op = "create" => kind = "rates" /\ q.i <= Len(q.rows) /\ q.rows[q.i] \in Suppliers,
           customer' \in [Customers -> CustomerRow], sheet' \in [Sheets -> SheetRow],
           ImportedExist',
           \A c \in Customers : customer'[c].deleted => customer[c].deleted,
           Got(r, kind) \in Nat,
           Imported(kind)' = Imported(kind) + q.ok - Got(r, kind),
           \A other \in ImportKinds \ {kind} :
              Got(r, other) = 0 /\ Imported(other)' = Imported(other),
           UNCHANGED <<supplier, job, orphans, late, crossed>>
    PROVE  RecordsInv'
<1> USE DEF RGoto, ImportsAt
<1>1. /\ \A p \in RecReqs \ {r} : recreq'[p] = recreq[p]
      /\ recreq'[r] = q /\ q.kind = kind /\ q.op \in {"rows", "create"}
  BY DEF RecordsInv, RecordsTypeOK
<1>2. RecordsTypeOK'
  <2>1. q \in Importing
    BY DEF Importing
  <2> QED BY <2>1 DEF RecordsInv, RecordsTypeOK
<1>3. LateWritesCrossed'
  BY DEF RecordsInv, LateWritesCrossed
<1>4. PendingCrossed'
  <2> SUFFICES ASSUME NEW p \in RecReqs, recreq'[p].op = "write",
                      customer'[recreq'[p].customer].deleted
               PROVE  recreq'[p].customer \in crossed'
    BY DEF PendingCrossed
  <2>1. recreq'[p] = recreq[p]
    BY <1>1
  <2>2. recreq[p] \in Writing
    <3>1. recreq[p] \in {RIdle} \cup Importing \cup Writing
      BY DEF RecordsInv, RecordsTypeOK
    <3>2. RIdle.op = "idle" /\ \A x \in Importing : x.op \in {"rows", "create"}
      BY DEF RIdle, Importing
    <3> QED BY <2>1, <3>1, <3>2
  <2> QED BY <2>1, <2>2 DEF RecordsInv, PendingCrossed, Writing
<1>5. \A k \in ImportKinds : Got(r, k)' = IF k = kind THEN q.ok ELSE 0
  BY <1>1 DEF Got, IsImport
<1>6. \A k \in ImportKinds :
        /\ Imported(k)' \in Nat
        /\ Imported(k)' - Got(r, k)' - orphans'[k] = Imported(k) - Got(r, k) - orphans[k]
  <2> SUFFICES ASSUME NEW k \in ImportKinds
               PROVE  /\ Imported(k)' \in Nat
                      /\ Imported(k)' - Got(r, k)' - orphans'[k]
                            = Imported(k) - Got(r, k) - orphans[k]
    OBVIOUS
  <2>1. Imported(k) \in Nat /\ Imported(k)' \in Nat
    BY <1>2, ImportedIsNat, ImportedLater DEF RecordsInv
  <2>2. orphans[k] \in Nat /\ orphans'[k] = orphans[k] /\ q.ok \in Nat
    BY RecordsAssumption DEF RecordsInv, RecordsTypeOK
  <2>3. CASE k = kind
    BY <1>5, <2>1, <2>2, <2>3
  <2>4. CASE k # kind
    BY <1>5, <2>1, <2>2, <2>4
  <2> QED BY <2>3, <2>4
<1> QED BY <1>1, <1>2, <1>3, <1>4, <1>6, RequestKeeps

LEMMA ImportStartKeeps ==
    ASSUME RecordsInv, NEW r \in RecReqs, NEW kind \in ImportKinds, NEW rows \in Files(kind),
           ImportStart(r, kind, rows)
    PROVE  RecordsInv'
<1> DEFINE q == [op |-> "rows", kind |-> kind, rows |-> rows, i |-> 1, ok |-> 0, bad |-> 0]
<1> USE DEF ImportStart
<1>1. Len(rows) \in 0 .. MaxRows
  BY RecordsAssumption DEF Files
<1>2. /\ q \in ImportsAt(kind)
      /\ q.ok + q.bad = q.i - 1 /\ q.i <= Len(q.rows) + 1 /\ q.op = "rows" /\ q.ok = 0
  BY <1>1, RecordsAssumption DEF ImportsAt
<1>3. RGoto(r, q) /\ \A k \in ImportKinds : Got(r, k) = 0
  BY DEF Got, IsImport, RIdle
<1>4. \A k \in ImportKinds : Imported(k)' = Imported(k) /\ Imported(k)' \in Nat
  BY SameImported
<1>5. ImportedExist'
  BY DEF RecordsInv, ImportedExist
<1>6. customer \in [Customers -> CustomerRow] /\ sheet \in [Sheets -> SheetRow]
  BY DEF RecordsInv, RecordsTypeOK
<1> HIDE DEF q
<1>7. Imported(kind)' = Imported(kind) + q.ok - Got(r, kind) /\ Got(r, kind) \in Nat
  BY <1>2, <1>3, <1>4
<1> QED BY <1>2, <1>3, <1>4, <1>5, <1>6, <1>7, ImportStep

\* The import is past a row, which it has accepted (gain 1) or rejected (0).
LEMMA PassRowKeeps ==
    ASSUME RecordsInv, NEW r \in RecReqs, recreq[r].op \in {"rows", "create"},
           recreq[r].i <= Len(recreq[r].rows),
           NEW kind \in ImportKinds, kind = recreq[r].kind, NEW gain \in {0, 1},
           NEW q, RGoto(r, q),
           q \in [op : {"rows"}, kind : {kind}, rows : {recreq[r].rows},
                  i : {recreq[r].i + 1}, ok : {recreq[r].ok + gain},
                  bad : {recreq[r].bad + 1 - gain}],
           customer' \in [Customers -> CustomerRow], sheet' \in [Sheets -> SheetRow],
           ImportedExist',
           \A c \in Customers : customer'[c].deleted => customer[c].deleted,
           Imported(kind)' = Imported(kind) + gain,
           \A other \in ImportKinds \ {kind} : Imported(other)' = Imported(other),
           UNCHANGED <<supplier, job, orphans, late, crossed>>
    PROVE  RecordsInv'
<1>1. /\ q.op = "rows" /\ q.rows = recreq[r].rows /\ q.i = recreq[r].i + 1
      /\ q.ok = recreq[r].ok + gain /\ q.bad = recreq[r].bad + 1 - gain /\ q.kind = kind
  OBVIOUS
<1>2. /\ recreq[r].rows \in Files(kind) /\ recreq[r].i \in 1 .. MaxRows + 1
      /\ recreq[r].ok \in 0 .. MaxRows /\ recreq[r].bad \in 0 .. MaxRows
      /\ Len(recreq[r].rows) \in 0 .. MaxRows
      /\ recreq[r].ok + recreq[r].bad = recreq[r].i - 1
  BY ImportFields
<1>3. /\ q.i \in 1 .. MaxRows + 1 /\ q.ok \in 0 .. MaxRows /\ q.bad \in 0 .. MaxRows
      /\ q.ok + q.bad = q.i - 1 /\ q.i <= Len(q.rows) + 1
  <2>1. PICK n, i, ok, bad : /\ n = Len(recreq[r].rows) /\ i = recreq[r].i
                             /\ ok = recreq[r].ok /\ bad = recreq[r].bad
    OBVIOUS
  <2>2. /\ n \in 0 .. MaxRows /\ i \in 1 .. MaxRows + 1 /\ i <= n
        /\ ok \in 0 .. MaxRows /\ bad \in 0 .. MaxRows /\ ok + bad = i - 1
    BY <1>2, <2>1
  <2>3. /\ i + 1 \in 1 .. MaxRows + 1 /\ i + 1 <= n + 1
        /\ ok + gain \in 0 .. MaxRows /\ bad + 1 - gain \in 0 .. MaxRows
        /\ (ok + gain) + (bad + 1 - gain) = (i + 1) - 1
    <3>1. MaxRows \in Nat /\ gain \in {0, 1}
      BY RecordsAssumption
    <3>2. ok + bad < MaxRows /\ n <= MaxRows
      BY <2>2, <3>1
    <3> QED BY <2>2, <3>1, <3>2
  <2> QED BY <1>1, <2>1, <2>3
<1>4. q \in ImportsAt(kind)
  BY <1>2, <1>3 DEF ImportsAt
<1>5. /\ Got(r, kind) = recreq[r].ok /\ Got(r, kind) \in Nat
      /\ \A other \in ImportKinds \ {kind} : Got(r, other) = 0
  <2>1. \A other \in ImportKinds : IsImport(r, other) <=> other = kind
    BY DEF IsImport
  <2>2. recreq[r].ok \in Nat
    BY <1>2, RecordsAssumption
  <2> QED BY <2>1, <2>2 DEF Got
<1>6. Imported(kind)' = Imported(kind) + q.ok - Got(r, kind)
  <2>1. Imported(kind) \in Nat /\ q.ok = Got(r, kind) + gain
    BY <1>1, <1>5, ImportedIsNat DEF RecordsInv
  <2> QED BY <1>5, <2>1
<1> QED BY <1>1, <1>3, <1>4, <1>5, <1>6, ImportStep

LEMMA RejectRowKeeps ==
    ASSUME RecordsInv, NEW r \in RecReqs, RejectRow(r)
    PROVE  RecordsInv'
<1> USE DEF RejectRow, AtRow
<1>1. PICK kind \in ImportKinds : kind = recreq[r].kind
  BY ImportFields
<1>2. recreq[r] \in ImportsAt(kind) /\ recreq[r].op = "rows"
      /\ recreq[r].i <= Len(recreq[r].rows)
  BY <1>1, ImportFields
<1>3. PICK q : q = [recreq[r] EXCEPT !.i = @ + 1, !.bad = @ + 1] /\ RGoto(r, q)
  OBVIOUS
<1>4. q \in [op : {"rows"}, kind : {kind}, rows : {recreq[r].rows},
             i : {recreq[r].i + 1}, ok : {recreq[r].ok + 0},
             bad : {recreq[r].bad + 1 - 0}]
  <2>1. recreq[r].ok + 0 = recreq[r].ok /\ recreq[r].bad + 1 - 0 = recreq[r].bad + 1
    BY <1>2, RecordsAssumption DEF ImportsAt
  <2>2. q \in [op : {"rows"}, kind : {kind}, rows : {recreq[r].rows},
               i : {recreq[r].i + 1}, ok : {recreq[r].ok}, bad : {recreq[r].bad + 1}]
    BY <1>1, <1>2, <1>3 DEF ImportsAt
  <2> QED BY <2>1, <2>2
<1>5. \A k \in ImportKinds : Imported(k)' = Imported(k) + 0 /\ Imported(k)' = Imported(k)
  BY SameImported, ImportedIsNat DEF RecordsInv
<1>6. ImportedExist' /\ customer' \in [Customers -> CustomerRow] /\ sheet' \in [Sheets -> SheetRow]
  BY DEF RecordsInv, RecordsTypeOK, ImportedExist
<1> QED BY <1>1, <1>2, <1>3, <1>4, <1>5, <1>6, PassRowKeeps

\* A rate is about to be inserted for a supplier that was found.
LEMMA FindSupplierKeeps ==
    ASSUME RecordsInv, NEW r \in RecReqs, FindSupplier(r)
    PROVE  RecordsInv'
<1> USE DEF FindSupplier, AtRow, RowOf
<1>1. PICK q : q = [recreq[r] EXCEPT !.op = "create"] /\ RGoto(r, q)
  OBVIOUS
<1>2. recreq[r] \in ImportsAt("rates") /\ recreq[r].op = "rows"
      /\ recreq[r].ok + recreq[r].bad = recreq[r].i - 1
      /\ recreq[r].i <= Len(recreq[r].rows) /\ recreq[r].ok \in 0 .. MaxRows
  BY ImportFields
<1>3. recreq[r].rows[recreq[r].i] \in Suppliers
  BY DEF RecordsInv, RecordsTypeOK
<1>4. /\ q \in ImportsAt("rates") /\ q.op = "create" /\ q.rows = recreq[r].rows
      /\ q.i = recreq[r].i /\ q.ok = recreq[r].ok /\ q.bad = recreq[r].bad
  BY <1>1, <1>2 DEF ImportsAt
<1>5. /\ Got(r, "rates") = recreq[r].ok /\ Got(r, "rates") \in Nat
      /\ Got(r, "customers") = 0
  BY <1>2, RecordsAssumption DEF Got, IsImport
<1>6. \A k \in ImportKinds : Imported(k)' = Imported(k) /\ Imported(k) \in Nat
  BY SameImported
<1>7. ImportedExist' /\ customer' \in [Customers -> CustomerRow] /\ sheet' \in [Sheets -> SheetRow]
  BY DEF RecordsInv, RecordsTypeOK, ImportedExist
<1>8. /\ Imported("rates")' = Imported("rates") + q.ok - Got(r, "rates")
      /\ "rates" \in ImportKinds
      /\ \A other \in ImportKinds \ {"rates"} :
            Got(r, other) = 0 /\ Imported(other)' = Imported(other)
      /\ q.ok + q.bad = q.i - 1 /\ q.i <= Len(q.rows) + 1 /\ q.i <= Len(q.rows)
  <2>1. q.ok \in Nat /\ Imported("rates") \in Nat /\ "rates" \in ImportKinds
    BY <1>2, <1>4, <1>6, RecordsAssumption DEF ImportKinds
  <2>2. Imported("rates")' = Imported("rates") + q.ok - Got(r, "rates")
    BY <1>4, <1>5, <1>6, <2>1
  <2>3. q.ok + q.bad = q.i - 1 /\ q.i <= Len(q.rows) + 1 /\ q.i <= Len(q.rows)
    <3>1. Len(q.rows) \in Nat /\ q.i \in Nat
      BY <1>2, <1>4, ImportFields, RecordsAssumption
    <3> QED BY <1>2, <1>4, <3>1
  <2> QED BY <1>5, <1>6, <2>1, <2>2, <2>3 DEF ImportKinds
<1> QED BY <1>1, <1>3, <1>4, <1>5, <1>7, <1>8, ImportStep

\* A customer that is inserted counts among the imported ones if it is.
LEMMA InsertCustomerCounts ==
    ASSUME RecordsInv, NEW c \in Customers, NEW imported \in BOOLEAN,
           InsertCustomer(c, imported), UNCHANGED sheet
    PROVE  /\ customer' \in [Customers -> CustomerRow] /\ ImportedExist'
           /\ \A d \in Customers : customer'[d].deleted => customer[d].deleted
           /\ Imported("customers")' = Imported("customers") + IF imported THEN 1 ELSE 0
           /\ Imported("rates")' = Imported("rates")
<1> USE DEF InsertCustomer
<1>1. customer \in [Customers -> CustomerRow] /\ ~customer[c].exists /\ ~customer[c].imported
  BY DEF RecordsInv, RecordsTypeOK, ImportedExist
<1>2. /\ customer' \in [Customers -> CustomerRow]
      /\ customer'[c].imported = imported /\ customer'[c].exists /\ ~customer'[c].deleted
      /\ \A d \in Customers \ {c} : customer'[d] = customer[d]
  BY <1>1 DEF CustomerRow
<1>3. ImportedExist'
  BY <1>2 DEF RecordsInv, ImportedExist
<1>4. \A d \in Customers : customer'[d].deleted => customer[d].deleted
  BY <1>2
<1>5. Imported("customers")' = Imported("customers") + IF imported THEN 1 ELSE 0
  <2> DEFINE S == {d \in Customers : customer[d].imported}
             T == {d \in Customers : customer'[d].imported}
  <2>1. S \ {c} = T \ {c} /\ c \notin S /\ (c \in T <=> imported)
    BY <1>1, <1>2
  <2>2. IsFiniteSet(S) /\ IsFiniteSet(T)
    BY RecordsAssumption, FS_Subset
  <2>3. Imported("customers") = Cardinality(S) /\ Imported("customers")' = Cardinality(T)
    BY DEF Imported
  <2> HIDE DEF S, T
  <2> QED BY <2>1, <2>2, <2>3, CountMoves
<1>6. Imported("rates")' = Imported("rates")
  BY DEF Imported
<1> QED BY <1>2, <1>3, <1>4, <1>5, <1>6

LEMMA InsertSheetCounts ==
    ASSUME RecordsInv, NEW x \in Sheets, NEW s \in Suppliers, NEW imported \in BOOLEAN,
           InsertSheet(x, s, imported), UNCHANGED customer
    PROVE  /\ sheet' \in [Sheets -> SheetRow] /\ ImportedExist'
           /\ Imported("rates")' = Imported("rates") + IF imported THEN 1 ELSE 0
           /\ Imported("customers")' = Imported("customers")
<1> USE DEF InsertSheet
<1>1. /\ sheet \in [Sheets -> SheetRow] /\ sheet[x].supplier = "none" /\ ~sheet[x].imported
      /\ s # "none"
  BY RecordsAssumption DEF RecordsInv, RecordsTypeOK, ImportedExist
<1>2. /\ sheet' \in [Sheets -> SheetRow]
      /\ sheet'[x].imported = imported /\ sheet'[x].supplier = s
      /\ \A y \in Sheets \ {x} : sheet'[y] = sheet[y]
  BY <1>1 DEF SheetRow
<1>3. ImportedExist'
  BY <1>1, <1>2 DEF RecordsInv, ImportedExist
<1>4. Imported("rates")' = Imported("rates") + IF imported THEN 1 ELSE 0
  <2> DEFINE S == {y \in Sheets : sheet[y].imported}
             T == {y \in Sheets : sheet'[y].imported}
  <2>1. S \ {x} = T \ {x} /\ x \notin S /\ (x \in T <=> imported)
    BY <1>1, <1>2
  <2>2. IsFiniteSet(S) /\ IsFiniteSet(T)
    BY RecordsAssumption, FS_Subset
  <2>3. Imported("rates") = Cardinality(S) /\ Imported("rates")' = Cardinality(T)
    BY DEF Imported
  <2> HIDE DEF S, T
  <2> QED BY <2>1, <2>2, <2>3, CountMoves
<1>5. Imported("customers")' = Imported("customers")
  BY DEF Imported
<1> QED BY <1>2, <1>3, <1>4, <1>5

LEMMA ImportCustomerKeeps ==
    ASSUME RecordsInv, NEW r \in RecReqs, NEW c \in Customers, ImportCustomer(r, c)
    PROVE  RecordsInv'
<1> USE DEF ImportCustomer, AtRow
<1>1. recreq[r] \in ImportsAt("customers") /\ recreq[r].op = "rows"
      /\ recreq[r].kind = "customers" /\ recreq[r].i <= Len(recreq[r].rows)
  BY ImportFields
<1>2. PICK q : q = [recreq[r] EXCEPT !.i = @ + 1, !.ok = @ + 1] /\ RGoto(r, q)
  OBVIOUS
<1>3. q \in [op : {"rows"}, kind : {"customers"}, rows : {recreq[r].rows},
             i : {recreq[r].i + 1}, ok : {recreq[r].ok + 1},
             bad : {recreq[r].bad + 1 - 1}]
  <2>1. recreq[r].bad + 1 - 1 = recreq[r].bad
    BY <1>1, RecordsAssumption DEF ImportsAt
  <2>2. q \in [op : {"rows"}, kind : {"customers"}, rows : {recreq[r].rows},
               i : {recreq[r].i + 1}, ok : {recreq[r].ok + 1}, bad : {recreq[r].bad}]
    BY <1>1, <1>2 DEF ImportsAt
  <2> QED BY <2>1, <2>2
<1>4. /\ customer' \in [Customers -> CustomerRow] /\ ImportedExist'
      /\ \A d \in Customers : customer'[d].deleted => customer[d].deleted
      /\ Imported("customers")' = Imported("customers") + 1
      /\ Imported("rates")' = Imported("rates")
  BY InsertCustomerCounts
<1>5. /\ sheet' \in [Sheets -> SheetRow] /\ "customers" \in ImportKinds
      /\ \A other \in ImportKinds \ {"customers"} : Imported(other)' = Imported(other)
  BY <1>4 DEF RecordsInv, RecordsTypeOK, ImportKinds
<1> QED BY <1>1, <1>2, <1>3, <1>4, <1>5, PassRowKeeps

LEMMA ImportRateKeeps ==
    ASSUME RecordsInv, NEW r \in RecReqs, NEW x \in Sheets, ImportRate(r, x)
    PROVE  RecordsInv'
<1> USE DEF ImportRate
<1>1. recreq[r] \in ImportsAt("rates") /\ recreq[r].op = "create"
      /\ recreq[r].kind = "rates" /\ recreq[r].i <= Len(recreq[r].rows)
      /\ RowOf(r) \in Suppliers
  BY ImportFields DEF RecordsInv, ImportsFit, AtRow
<1>2. PICK q : q = [recreq[r] EXCEPT !.op = "rows", !.i = @ + 1, !.ok = @ + 1] /\ RGoto(r, q)
  OBVIOUS
<1>3. q \in [op : {"rows"}, kind : {"rates"}, rows : {recreq[r].rows},
             i : {recreq[r].i + 1}, ok : {recreq[r].ok + 1},
             bad : {recreq[r].bad + 1 - 1}]
  <2>1. recreq[r].bad + 1 - 1 = recreq[r].bad
    BY <1>1, RecordsAssumption DEF ImportsAt
  <2>2. q \in [op : {"rows"}, kind : {"rates"}, rows : {recreq[r].rows},
               i : {recreq[r].i + 1}, ok : {recreq[r].ok + 1}, bad : {recreq[r].bad}]
    BY <1>1, <1>2 DEF ImportsAt
  <2> QED BY <2>1, <2>2
<1>4. /\ sheet' \in [Sheets -> SheetRow] /\ ImportedExist'
      /\ Imported("rates")' = Imported("rates") + 1
      /\ Imported("customers")' = Imported("customers")
  <2>1. PICK s \in Suppliers : s = RowOf(r)
    BY <1>1
  <2> QED BY <2>1, InsertSheetCounts
<1>5. /\ customer' \in [Customers -> CustomerRow] /\ "rates" \in ImportKinds
      /\ \A d \in Customers : customer'[d].deleted => customer[d].deleted
      /\ \A other \in ImportKinds \ {"rates"} : Imported(other)' = Imported(other)
  BY <1>4 DEF RecordsInv, RecordsTypeOK, ImportKinds
<1>6. UNCHANGED <<supplier, job, orphans, late, crossed>>
  OBVIOUS
<1>7. PICK kind \in ImportKinds, gain \in {0, 1} : kind = "rates" /\ gain = 1
  BY <1>5
<1>8. q \in [op : {"rows"}, kind : {kind}, rows : {recreq[r].rows},
             i : {recreq[r].i + 1}, ok : {recreq[r].ok + gain},
             bad : {recreq[r].bad + 1 - gain}]
  BY <1>3, <1>7
<1>9. /\ Imported(kind)' = Imported(kind) + gain
      /\ \A other \in ImportKinds \ {kind} : Imported(other)' = Imported(other)
  BY <1>4, <1>5, <1>7
<1>10. recreq[r].op \in {"rows", "create"} /\ kind = recreq[r].kind
       /\ recreq[r].i <= Len(recreq[r].rows) /\ RGoto(r, q)
  BY <1>1, <1>2, <1>7
<1> HIDE DEF ImportRate
<1> QED BY <1>4, <1>5, <1>6, <1>8, <1>9, <1>10, PassRowKeeps

\* The job takes over what the import has got.
LEMMA RecordJobKeeps ==
    ASSUME RecordsInv, NEW r \in RecReqs, NEW j \in Jobs, RecordJob(r, j)
    PROVE  RecordsInv'
<1> USE DEF RecordJob, RGoto
<1>1. PICK kind \in ImportKinds, n \in 0 .. MaxRows, ok \in 0 .. MaxRows, bad \in 0 .. MaxRows :
         /\ kind = recreq[r].kind /\ n = Len(recreq[r].rows)
         /\ ok = recreq[r].ok /\ bad = recreq[r].bad
         /\ ok + bad = n
  <2>1. /\ recreq[r].kind \in ImportKinds /\ Len(recreq[r].rows) \in 0 .. MaxRows
        /\ recreq[r].ok \in 0 .. MaxRows /\ recreq[r].bad \in 0 .. MaxRows
        /\ recreq[r].ok + recreq[r].bad = Len(recreq[r].rows)
    <3>1. recreq[r].op = "rows" /\ recreq[r].i > Len(recreq[r].rows)
      OBVIOUS
    <3> HIDE DEF RecordJob, RGoto
    <3>2. PICK n \in 0 .. MaxRows, i \in 1 .. MaxRows + 1 :
             n = Len(recreq[r].rows) /\ i = recreq[r].i /\ i <= n + 1
      BY <3>1, ImportFields
    <3>3. i = n + 1 /\ i - 1 = n
      BY <3>1, <3>2, RecordsAssumption
    <3> QED BY <3>1, <3>2, <3>3, ImportFields
  <2> QED BY <2>1
<1>2. /\ \A p \in RecReqs \ {r} : recreq'[p] = recreq[p]
      /\ recreq'[r] = RIdle /\ recreq[r].op = "rows"
      /\ \A i \in Jobs \ {j} : job'[i] = job[i]
      /\ job[j] = NoJob /\ job'[j] = [kind |-> kind, total |-> n, ok |-> ok, bad |-> bad]
  BY <1>1 DEF RecordsInv, RecordsTypeOK
<1>3. RecordsTypeOK'
  <2>1. job' \in [Jobs -> JobRow]
    BY <1>1, <1>2 DEF RecordsInv, RecordsTypeOK, JobRow
  <2> QED BY <2>1 DEF RecordsInv, RecordsTypeOK
<1>4. ImportsFit' /\ ImportedExist' /\ PendingCrossed' /\ LateWritesCrossed'
  BY <1>2 DEF RecordsInv, ImportsFit, ImportedExist, PendingCrossed, LateWritesCrossed,
              AtRow, RowOf, RIdle
<1>5. JobsTell'
  BY <1>1, <1>2, AccountSums DEF RecordsInv, AccountsAreSums, JobsTell
<1>6. ASSUME NEW k \in ImportKinds PROVE Balanced(k)'
  <2> DEFINE f == [p \in RecReqs |-> Got(p, k)]
             g == [p \in RecReqs |-> Got(p, k)']
             h == [i \in Jobs |-> Told(i, k)]
             l == [i \in Jobs |-> Told(i, k)']
             gain == IF k = kind THEN ok ELSE 0
  <2>1. /\ \A p \in RecReqs : f[p] \in Int /\ g[p] \in Int
        /\ \A p \in RecReqs \ {r} : g[p] = f[p]
        /\ f[r] = gain /\ g[r] = 0
    <3>1. \A p \in RecReqs : Got(p, k) \in Nat
      BY AccountSums DEF RecordsInv, AccountsAreSums
    <3>2. \A p \in RecReqs : Got(p, k)' \in Nat
      BY <1>3, AccountSumsLater DEF AccountsAreSums
    <3>3. /\ \A p \in RecReqs \ {r} : Got(p, k)' = Got(p, k)
          /\ Got(r, k) = gain /\ Got(r, k)' = 0
      BY <1>1, <1>2 DEF Got, IsImport, RIdle
    <3> QED BY <3>1, <3>2, <3>3
  <2>2. /\ \A i \in Jobs : h[i] \in Int /\ l[i] \in Int
        /\ \A i \in Jobs \ {j} : l[i] = h[i]
        /\ h[j] = 0 /\ l[j] = gain
    <3>1. \A i \in Jobs : Told(i, k) \in Nat
      BY AccountSums DEF RecordsInv, AccountsAreSums
    <3>2. \A i \in Jobs : Told(i, k)' \in Nat
      BY <1>3, AccountSumsLater DEF AccountsAreSums
    <3>3. /\ \A i \in Jobs \ {j} : Told(i, k)' = Told(i, k)
          /\ Told(j, k) = 0 /\ Told(j, k)' = gain
      BY <1>1, <1>2 DEF Told, NoJob, ImportKinds
    <3> QED BY <3>1, <3>2, <3>3
  <2>3. /\ GotInAll(k) = SumFunctionOnSet(f, RecReqs)
        /\ GotInAll(k)' = SumFunctionOnSet(g, RecReqs)
        /\ ToldInAll(k) = SumFunctionOnSet(h, Jobs)
        /\ ToldInAll(k)' = SumFunctionOnSet(l, Jobs)
    BY DEF GotInAll, ToldInAll
  <2>4. gain \in Nat
    BY RecordsAssumption
  <2> HIDE DEF f, g, h, l, gain
  <2>5. GotInAll(k)' = GotInAll(k) + 0 - gain
    BY <2>1, <2>3, RecordsAssumption, SumUpdate
  <2>6. ToldInAll(k)' = ToldInAll(k) + gain - 0
    BY <2>2, <2>3, RecordsAssumption, SumUpdate
  <2>7. /\ Imported(k) = ToldInAll(k) + GotInAll(k) + orphans[k]
        /\ GotInAll(k) \in Nat /\ ToldInAll(k) \in Nat /\ orphans[k] \in Nat
    BY AccountSums DEF RecordsInv, AccountsAreSums, RecordsTypeOK, Balanced
  <2>8. Imported(k)' = Imported(k) /\ orphans' = orphans
    BY DEF Imported
  <2> HIDE DEF RecordJob
  <2>9. ToldInAll(k)' + GotInAll(k)' = ToldInAll(k) + GotInAll(k)
    BY <2>4, <2>5, <2>6, <2>7
  <2> QED BY <2>7, <2>8, <2>9 DEF Balanced
<1>7. JobsAccount'
  BY <1>3, <1>5, <1>6, AccountSumsLater DEF AccountsAreSums
<1> QED BY <1>3, <1>4, <1>7 DEF RecordsInv

\* What a dead import has inserted stays, without a job.
LEMMA RecordDieKeeps ==
    ASSUME RecordsInv, NEW r \in RecReqs, RecordDie(r)
    PROVE  RecordsInv'
<1> USE DEF RecordDie, RGoto
<1>1. /\ \A p \in RecReqs \ {r} : recreq'[p] = recreq[p]
      /\ recreq'[r] = RIdle
  BY DEF RecordsInv, RecordsTypeOK
<1>2. ASSUME NEW k \in ImportKinds
      PROVE  /\ orphans'[k] = orphans[k] + Got(r, k) /\ orphans[k] \in Nat
             /\ Got(r, k) \in Nat /\ Got(r, k)' = 0
  <2>1. Got(r, k) \in Nat /\ Got(r, k)' = 0
    BY <1>1, AccountSums DEF RecordsInv, AccountsAreSums, Got, IsImport, RIdle
  <2>2. orphans \in [ImportKinds -> Nat]
    BY DEF RecordsInv, RecordsTypeOK
  <2>3. CASE recreq[r].op \in {"rows", "create"}
    BY <2>1, <2>2, <2>3 DEF Got, IsImport
  <2>4. CASE recreq[r].op \notin {"rows", "create"}
    BY <2>1, <2>2, <2>4 DEF Got, IsImport
  <2> QED BY <2>1, <2>2, <2>3, <2>4
<1>3. orphans' \in [ImportKinds -> Nat]
  <2>1. orphans \in [ImportKinds -> Nat]
    BY DEF RecordsInv, RecordsTypeOK
  <2>2. CASE recreq[r].op \in {"rows", "create"}
    <3>1. recreq[r].kind \in ImportKinds /\ recreq[r].ok \in Nat
      BY <2>2, ImportFields, RecordsAssumption
    <3> QED BY <2>1, <2>2, <3>1
  <2>3. CASE recreq[r].op \notin {"rows", "create"}
    BY <2>1, <2>3
  <2> QED BY <2>2, <2>3
<1>4. RecordsTypeOK'
  BY <1>3 DEF RecordsInv, RecordsTypeOK
<1>5. ImportedExist' /\ LateWritesCrossed' /\ PendingCrossed'
  BY <1>1 DEF RecordsInv, ImportedExist, LateWritesCrossed, PendingCrossed, RIdle
<1>6. \A k \in ImportKinds :
        /\ Imported(k)' \in Nat
        /\ Imported(k)' - Got(r, k)' - orphans'[k] = Imported(k) - Got(r, k) - orphans[k]
  <2> SUFFICES ASSUME NEW k \in ImportKinds
               PROVE  /\ Imported(k)' \in Nat
                      /\ Imported(k)' - Got(r, k)' - orphans'[k]
                            = Imported(k) - Got(r, k) - orphans[k]
    OBVIOUS
  <2>1. Imported(k)' = Imported(k) /\ Imported(k) \in Nat
    BY SameImported, ImportedIsNat DEF RecordsInv
  <2>2. /\ orphans'[k] = orphans[k] + Got(r, k) /\ orphans[k] \in Nat
        /\ Got(r, k) \in Nat /\ Got(r, k)' = 0
    BY <1>2
  <2> HIDE DEF RecordDie
  <2> QED BY <2>1, <2>2
<1> QED BY <1>1, <1>4, <1>5, <1>6, RequestKeeps DEF RIdle

\* What one statement does: a customer, a supplier or a rate sheet is created.
LEMMA CreateKeeps ==
    ASSUME RecordsInv,
           \/ \E c \in Customers : create(c)
           \/ \E s \in Suppliers : createSupplier(s) \/ \E x \in Sheets : createRateSheet(x, s)
    PROVE  RecordsInv'
<1>1. /\ UNCHANGED <<job, recreq, orphans, late, crossed>>
      /\ customer' \in [Customers -> CustomerRow] /\ sheet' \in [Sheets -> SheetRow]
      /\ supplier' \subseteq Suppliers
      /\ ImportedExist'
      /\ \A c \in Customers : customer'[c].deleted => customer[c].deleted
      /\ \A kind \in ImportKinds : Imported(kind)' = Imported(kind)
  <2> USE DEF ImportKinds
  <2>0. \A kind \in ImportKinds : Imported(kind) \in Nat
    BY ImportedIsNat DEF RecordsInv
  <2>1. ASSUME NEW c \in Customers, create(c)
        PROVE  /\ customer' \in [Customers -> CustomerRow] /\ ImportedExist'
               /\ \A d \in Customers : customer'[d].deleted => customer[d].deleted
               /\ \A kind \in ImportKinds : Imported(kind)' = Imported(kind)
               /\ sheet' \in [Sheets -> SheetRow] /\ supplier' \subseteq Suppliers
    <3>1. /\ customer' \in [Customers -> CustomerRow] /\ ImportedExist'
          /\ \A d \in Customers : customer'[d].deleted => customer[d].deleted
          /\ Imported("customers")' = Imported("customers") + IF FALSE THEN 1 ELSE 0
          /\ Imported("rates")' = Imported("rates")
      BY <2>1, InsertCustomerCounts DEF create
    <3>2. sheet' \in [Sheets -> SheetRow] /\ supplier' \subseteq Suppliers
      BY <2>1 DEF create, RecordsInv, RecordsTypeOK
    <3> QED BY <2>0, <3>1, <3>2
  <2>2. ASSUME NEW s \in Suppliers, createSupplier(s)
        PROVE  /\ customer' \in [Customers -> CustomerRow] /\ ImportedExist'
               /\ \A d \in Customers : customer'[d].deleted => customer[d].deleted
               /\ \A kind \in ImportKinds : Imported(kind)' = Imported(kind)
               /\ sheet' \in [Sheets -> SheetRow] /\ supplier' \subseteq Suppliers
    BY <2>2, SameImported DEF createSupplier, RecordsInv, RecordsTypeOK, ImportedExist
  <2>3. ASSUME NEW s \in Suppliers, NEW x \in Sheets, createRateSheet(x, s)
        PROVE  /\ customer' \in [Customers -> CustomerRow] /\ ImportedExist'
               /\ \A d \in Customers : customer'[d].deleted => customer[d].deleted
               /\ \A kind \in ImportKinds : Imported(kind)' = Imported(kind)
               /\ sheet' \in [Sheets -> SheetRow] /\ supplier' \subseteq Suppliers
    <3>1. /\ sheet' \in [Sheets -> SheetRow] /\ ImportedExist'
          /\ Imported("rates")' = Imported("rates") + IF FALSE THEN 1 ELSE 0
          /\ Imported("customers")' = Imported("customers")
      BY <2>3, InsertSheetCounts DEF createRateSheet
    <3>2. /\ customer' \in [Customers -> CustomerRow] /\ supplier' \subseteq Suppliers
          /\ customer' = customer
      BY <2>3 DEF createRateSheet, RecordsInv, RecordsTypeOK
    <3> QED BY <2>0, <3>1, <3>2
  <2> QED BY <2>1, <2>2, <2>3 DEF create, createSupplier, createRateSheet
<1>2. RecordsTypeOK'
  BY <1>1 DEF RecordsInv, RecordsTypeOK
<1>3. ImportsFit' /\ LateWritesCrossed'
  BY <1>1 DEF RecordsInv, ImportsFit, LateWritesCrossed, AtRow, RowOf
<1>4. PendingCrossed'
  <2> SUFFICES ASSUME NEW p \in RecReqs, recreq[p].op = "write",
                      customer'[recreq[p].customer].deleted
               PROVE  recreq[p].customer \in crossed
    BY <1>1 DEF PendingCrossed
  <2>1. recreq[p].customer \in Customers
    BY DEF RecordsInv, RecordsTypeOK, RIdle, Importing, Writing
  <2> QED BY <1>1, <2>1 DEF RecordsInv, PendingCrossed
<1>5. JobsAccount'
  BY <1>1 DEF RecordsInv, JobsAccount, ImportsOf, JobsOf
<1> QED BY <1>1, <1>2, <1>3, <1>4, <1>5 DEF RecordsInv

LEMMA InitRecordsInv == RecordsInit => RecordsInv
<1> SUFFICES ASSUME RecordsInit PROVE RecordsInv
  OBVIOUS
<1> USE DEF RecordsInit
<1>1. RecordsTypeOK
  BY RecordsAssumption DEF RecordsTypeOK, CustomerRow, SheetRow, JobRow, NoJob
<1>2. ImportsFit /\ ImportedExist /\ PendingCrossed /\ LateWritesCrossed /\ JobsTell
  BY DEF ImportsFit, ImportedExist, PendingCrossed, LateWritesCrossed, JobsTell, RIdle, NoJob
<1>3. ASSUME NEW kind \in ImportKinds PROVE Balanced(kind)
  <2>1. Imported(kind) = 0
    <3>1. {c \in Customers : customer[c].imported} = {} /\ {x \in Sheets : sheet[x].imported} = {}
      OBVIOUS
    <3> QED BY <3>1, FS_EmptySet DEF Imported
  <2>2. GotInAll(kind) = 0
    <3> DEFINE f == [r \in RecReqs |-> Got(r, kind)]
    <3>1. \A r \in RecReqs : f[r] = 0
      BY DEF Got, IsImport, RIdle
    <3>2. GotInAll(kind) = SumFunctionOnSet(f, RecReqs)
      BY DEF GotInAll
    <3> HIDE DEF f
    <3> QED BY <3>1, <3>2, RecordsAssumption, SumZero
  <2>3. ToldInAll(kind) = 0
    <3> DEFINE f == [j \in Jobs |-> Told(j, kind)]
    <3>1. \A j \in Jobs : f[j] = 0
      BY DEF Told, NoJob
    <3>2. ToldInAll(kind) = SumFunctionOnSet(f, Jobs)
      BY DEF ToldInAll
    <3> HIDE DEF f
    <3> QED BY <3>1, <3>2, RecordsAssumption, SumZero
  <2> QED BY <2>1, <2>2, <2>3 DEF Balanced
<1>4. JobsAccount
  BY <1>1, <1>2, <1>3, AccountSums DEF AccountsAreSums
<1> QED BY <1>1, <1>2, <1>4 DEF RecordsInv

LEMMA NextKeepsRecords == RecordsInv /\ [RecordsNext]_recVars => RecordsInv'
<1> SUFFICES ASSUME RecordsInv, [RecordsNext]_recVars PROVE RecordsInv'
  OBVIOUS
<1>1. CASE UNCHANGED recVars
  BY <1>1 DEF recVars, RecordsInv, RecordsTypeOK, ImportsFit, ImportedExist, PendingCrossed,
              LateWritesCrossed, JobsAccount, AtRow, RowOf, Imported, ImportsOf, JobsOf
<1>2. CASE RecordsNext
  BY <1>2, CreateKeeps, ImportCustomerKeeps, LookupKeeps, ImportStartKeeps, WriteCustomerKeeps,
     SoftDeleteKeeps, RejectRowKeeps, FindSupplierKeeps, ImportRateKeeps, RecordJobKeeps,
     RecordDieKeeps DEF RecordsNext
<1> QED BY <1>1, <1>2

\* However many imports overlap, and wherever one dies, each job accounts for
\* its rows and the jobs for the rows that were imported (importRows,
\* importRates); and only a request that had found a customer before it was
\* deleted writes to it afterwards (update, addActivity, softDelete).
THEOREM RecordsStayInStep == RecordsSpec => [](RecordsTypeOK /\ RecordsAgree)
<1>1. RecordsInv => RecordsTypeOK /\ RecordsAgree
  BY DEF RecordsInv, RecordsAgree
<1> QED BY <1>1, InitRecordsInv, NextKeepsRecords, PTL DEF RecordsSpec
=============================================================================
