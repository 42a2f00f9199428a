--------------------------- MODULE SessionsProofs ---------------------------
(***************************************************************************)
(* Proofs about Sessions.tla, for any users, memberships, sessions, tokens *)
(* and overlapping requests, any lifetime and any bound on the clock.      *)
(***************************************************************************)
EXTENDS Sessions, TLAPS

\* What a request has read stays true until it writes: rows are not deleted,
\* tokens and sessions are never taken back from revoked, and a token keeps its
\* session and membership.
Grounded(req) ==
    /\ req.op \in {"switch", "touch", "token", "reuse", "logout", "revoke"} =>
        session[req.session].exists
    /\ req.op = "rotate" => TokenExists(req.token)
    /\ req.op = "revoke" => session[req.session].revoked
    /\ req.op \in {"touch", "token"} /\ req.from # NoRow =>
        /\ token[req.from].revoked
        /\ token[req.from].session = req.session
        /\ token[req.from].member = req.member

\* The membership a request carries is its user's.
OwnRequest(req) ==
    /\ req.op = "login" => req.member \in OwnedBy(req.user) \cup {NoRow}
    /\ req.op \in {"switch", "touch", "token"} =>
        req.member \in OwnedBy(UserOf(req.session)) \cup {NoRow}

RequestsGrounded == \A r \in AuthReqs : Grounded(areq[r]) /\ OwnRequest(areq[r])

RowsGrounded ==
    /\ \A t \in Tokens : IF TokenExists(t) THEN session[token[t].session].exists
                                           ELSE token[t].from = NoRow
    /\ \A s \in Sessions : session[s].revoked => session[s].exists

\* The inductive invariant.
SessionsInv ==
    /\ SessionsTypeOK
    /\ RequestsGrounded
    /\ RowsGrounded
    /\ ReplacedIsRevoked
    /\ LiveSessionHasToken
    /\ SessionNamesIssued
    /\ MembershipsAreOwn

LEMMA InitSessionsInv == Init => SessionsInv
  BY SessionsAssumption
  DEF Init, SessionsInv, SessionsTypeOK, RequestsGrounded, Grounded, OwnRequest,
      RowsGrounded, ReplacedIsRevoked, LiveSessionHasToken, SessionNamesIssued,
      MembershipsAreOwn, NoSession, NoToken, SessionRow, TokenRow, AIdle,
      NullableMembership, TokenExists, TokensOf

-----------------------------------------------------------------------------
\* A request's operation determines the fields it carries.
LEMMA AuthRequestFields ==
    ASSUME SessionsTypeOK, NEW r \in AuthReqs
    PROVE  /\ areq[r].op = "login" => areq[r] \in LoggingIn
           /\ areq[r].op = "rotate" => areq[r] \in Rotating
           /\ areq[r].op = "switch" => areq[r] \in Switching
           /\ areq[r].op \in {"touch", "token"} => areq[r] \in Issuing
           /\ areq[r].op \in {"reuse", "logout", "revoke"} => areq[r] \in Ending
  BY DEF SessionsTypeOK, AIdle, LoggingIn, Rotating, Switching, Issuing, Ending

\* The rows may gain; what they told a request they do not take back.
RowsKept ==
    /\ \A o \in Sessions :
        /\ session[o].exists =>
            session'[o].exists /\ session'[o].user = session[o].user
        /\ session[o].revoked => session'[o].revoked
    /\ \A t \in Tokens : TokenExists(t) =>
        /\ token'[t].session = token[t].session
        /\ token'[t].member = token[t].member
        /\ token[t].revoked => token'[t].revoked

\* So a request that does not move stays right about what it has read.
LEMMA OthersStayGrounded ==
    ASSUME SessionsInv, RowsKept, NEW p \in AuthReqs, areq'[p] = areq[p]
    PROVE  Grounded(areq[p])' /\ OwnRequest(areq[p])'
<1>1. Grounded(areq[p]) /\ OwnRequest(areq[p])
  BY DEF SessionsInv, RequestsGrounded
<1>2. /\ areq[p].op \in {"switch", "touch", "token", "reuse", "logout", "revoke"} =>
            areq[p].session \in Sessions /\ areq[p].session # NoRow
      /\ areq[p].op = "rotate" => areq[p].token \in Tokens
      /\ areq[p].op \in {"touch", "token"} /\ areq[p].from # NoRow =>
            areq[p].from \in Tokens
  BY AuthRequestFields, SessionsAssumption
  DEF SessionsInv, Switching, Issuing, Ending, Rotating
<1>3. areq[p].op \in {"switch", "touch", "token", "reuse", "logout", "revoke"} =>
            /\ session[areq[p].session].exists
            /\ session'[areq[p].session].exists
            /\ UserOf(areq[p].session)' = UserOf(areq[p].session)
            /\ session[areq[p].session].revoked => session'[areq[p].session].revoked
  BY <1>1, <1>2 DEF Grounded, RowsKept, UserOf
<1>4. areq[p].op \in {"touch", "token"} /\ areq[p].from # NoRow =>
            TokenExists(areq[p].from)
  BY <1>1, <1>2 DEF Grounded, TokenExists
<1>5. Grounded(areq[p])'
  <2>1. areq[p].op = "rotate" => TokenExists(areq[p].token)'
    BY <1>1, <1>2 DEF Grounded, RowsKept, TokenExists
  <2>2. areq[p].op \in {"touch", "token"} /\ areq[p].from # NoRow =>
            /\ token'[areq[p].from].revoked
            /\ token'[areq[p].from].session = areq[p].session
            /\ token'[areq[p].from].member = areq[p].member
    BY <1>1, <1>2, <1>4 DEF Grounded, RowsKept
  <2>3. areq[p].op = "revoke" => session[areq[p].session].revoked
    BY <1>1 DEF Grounded
  <2> QED BY <1>3, <2>1, <2>2, <2>3 DEF Grounded
<1>6. OwnRequest(areq[p])'
  BY <1>1, <1>3 DEF OwnRequest, OwnedBy
<1> QED BY <1>5, <1>6

\* The check that lets a request through only adds that request: the rows are
\* as they were, and it is idle no more.
LEMMA StartPreserves ==
    ASSUME SessionsInv, NEW r \in AuthReqs, areq[r] = AIdle,
           NEW req \in LoggingIn \cup Rotating \cup Switching \cup Ending,
           Goto(r, req), Grounded(req), OwnRequest(req),
           UNCHANGED <<session, token, now, cutOff>>
    PROVE  SessionsInv'
<1> USE DEF SessionsInv, Goto
<1>1. SessionsTypeOK'
  BY DEF SessionsTypeOK
<1>2. RequestsGrounded' /\ RowsGrounded'
  BY DEF RequestsGrounded, Grounded, OwnRequest, RowsGrounded, SessionsTypeOK,
     TokenExists, UserOf
<1>3. ReplacedIsRevoked' /\ MembershipsAreOwn'
  BY DEF ReplacedIsRevoked, MembershipsAreOwn, TokensOf, UserOf
<1>4. \A s \in Sessions : Issuers(s) \subseteq Issuers(s)'
  BY DEF Issuers, AIdle, SessionsTypeOK
<1>5. LiveSessionHasToken'
  BY <1>4 DEF LiveSessionHasToken, TokensOf
<1>6. SessionNamesIssued'
  <2>1. \A s \in Sessions : \A p \in Issuers(s) : areq'[p] = areq[p]
    BY DEF Issuers, AIdle, SessionsTypeOK
  <2> QED BY <1>4, <2>1 DEF SessionNamesIssued, TokensOf
<1> QED BY <1>1, <1>2, <1>3, <1>5, <1>6

\* Each check finds what StartPreserves asks for.
LEMMA ReqStartsPreserves ==
    ASSUME SessionsInv, NEW r \in AuthReqs, ReqStarts(r)
    PROVE  SessionsInv'
<1>1. ASSUME NEW u \in Users, NEW m \in NullableMembership, LoginRead(r, u, m)
      PROVE  SessionsInv'
  <2> DEFINE req == [op |-> "login", user |-> u, member |-> m]
  <2>1. req \in LoggingIn /\ Grounded(req) /\ OwnRequest(req)
    BY <1>1 DEF LoggingIn, Grounded, OwnRequest, LoginRead
  <2> QED BY <1>1, <2>1, StartPreserves DEF LoginRead
<1>2. ASSUME NEW t \in Tokens, RefreshReuse(r, t) PROVE SessionsInv'
  <2> DEFINE req == [op |-> "reuse", session |-> token[t].session]
  <2>1. req \in Ending /\ Grounded(req) /\ OwnRequest(req)
    BY <1>2 DEF Ending, Grounded, OwnRequest, RefreshReuse, TokenExists,
       SessionsInv, SessionsTypeOK, TokenRow, RowsGrounded
  <2> QED BY <1>2, <2>1, StartPreserves DEF RefreshReuse
<1>3. ASSUME NEW t \in Tokens, RefreshRead(r, t) PROVE SessionsInv'
  <2> DEFINE req == [op |-> "rotate", token |-> t]
  <2>1. req \in Rotating /\ Grounded(req) /\ OwnRequest(req)
    BY <1>3 DEF Rotating, Grounded, OwnRequest, RefreshRead
  <2> QED BY <1>3, <2>1, StartPreserves DEF RefreshRead
<1>4. ASSUME NEW s \in Sessions, LogoutRead(r, s) PROVE SessionsInv'
  <2> DEFINE req == [op |-> "logout", session |-> s]
  <2>1. session[s].exists
    BY <1>4, SessionsAssumption DEF LogoutRead, Authenticated, TokensOf,
       TokenExists, SessionsInv, RowsGrounded
  <2>2. req \in Ending /\ Grounded(req) /\ OwnRequest(req)
    BY <2>1 DEF Ending, Grounded, OwnRequest
  <2> QED BY <1>4, <2>2, StartPreserves DEF LogoutRead
<1>5. ASSUME NEW s \in Sessions, NEW m \in Memberships, SwitchRead(r, s, m)
      PROVE  SessionsInv'
  <2> DEFINE req == [op |-> "switch", session |-> s, member |-> m]
  <2>1. session[s].exists
    BY <1>5, SessionsAssumption DEF SwitchRead, Authenticated, TokensOf,
       TokenExists, SessionsInv, RowsGrounded
  <2>2. req \in Switching /\ Grounded(req) /\ OwnRequest(req)
    BY <1>5, <2>1 DEF Switching, Grounded, OwnRequest, SwitchRead
  <2> QED BY <1>5, <2>2, StartPreserves DEF SwitchRead
<1> QED BY <1>1, <1>2, <1>3, <1>4, <1>5 DEF ReqStarts

-----------------------------------------------------------------------------
LEMMA SessionInsertPreserves ==
    ASSUME SessionsInv, NEW r \in AuthReqs, NEW s \in Sessions, SessionInsert(r, s)
    PROVE  SessionsInv'
<1> USE DEF SessionsInv, SessionInsert, Goto, ThenIssue
<1>0. /\ areq[r] \in LoggingIn
      /\ areq'[r] = [op |-> "token", session |-> s, member |-> areq[r].member,
                     from |-> NoRow]
      /\ \A p \in AuthReqs \ {r} : areq'[p] = areq[p]
  BY AuthRequestFields DEF SessionsTypeOK
<1>1. SessionsTypeOK'
  <2>1. session' \in [Sessions -> SessionRow]
    BY <1>0, SessionsAssumption
    DEF SessionsTypeOK, SessionRow, LoggingIn, NullableMembership
  <2>2. areq'[r] \in Issuing
    BY <1>0 DEF Issuing, LoggingIn
  <2> QED BY <2>1, <2>2 DEF SessionsTypeOK
<1>2. /\ session'[s] = [exists |-> TRUE, user |-> areq[r].user,
                        member |-> areq[r].member, expires |-> now + Lifetime,
                        revoked |-> FALSE]
      /\ \A o \in Sessions \ {s} : session'[o] = session[o]
  BY DEF SessionsTypeOK
<1>3. \A t \in Tokens : token[t].session # s
  BY SessionsAssumption DEF RowsGrounded, TokenExists
<1>4. RowsGrounded'
  BY <1>2 DEF RowsGrounded, TokenExists, SessionsTypeOK, TokenRow
<1>5. RequestsGrounded'
  <2>1. Grounded(areq[r])' /\ OwnRequest(areq[r])'
    BY <1>0, <1>2 DEF Grounded, OwnRequest, RequestsGrounded, UserOf
  <2>2. RowsKept
    <3>1. ~session[s].exists /\ ~session[s].revoked /\ UNCHANGED token
      BY DEF RowsGrounded
    <3> QED BY <1>2, <3>1 DEF RowsKept, TokenExists
  <2>3. \A p \in AuthReqs \ {r} : areq'[p] = areq[p]
    BY <1>0
  <2>4. ASSUME NEW p \in AuthReqs PROVE Grounded(areq[p])' /\ OwnRequest(areq[p])'
    BY <2>1, <2>2, <2>3, OthersStayGrounded
  <2> QED BY <2>4 DEF RequestsGrounded
<1>6. ReplacedIsRevoked'
  BY DEF ReplacedIsRevoked
<1>7. MembershipsAreOwn'
  BY <1>0, <1>2, <1>3
  DEF MembershipsAreOwn, TokensOf, UserOf, RequestsGrounded, OwnRequest
<1>8. r \in Issuers(s)' /\ \A o \in Sessions : Issuers(o) \subseteq Issuers(o)'
  BY <1>0 DEF Issuers
<1>9. LiveSessionHasToken'
  BY <1>2, <1>8 DEF LiveSessionHasToken, TokensOf
<1>10. SessionNamesIssued'
  <2>1. \A o \in Sessions : \A p \in Issuers(o) : areq'[p] = areq[p]
    BY <1>0 DEF Issuers, LoggingIn
  <2> QED BY <1>0, <1>2, <1>8, <2>1 DEF SessionNamesIssued, TokensOf
<1> QED BY <1>1, <1>4, <1>5, <1>6, <1>7, <1>9, <1>10

\* Both updates of a session's tenant write the membership of the token that the
\* same request is about to insert.
LEMMA TenantWritePreserves ==
    ASSUME SessionsInv, NEW r \in AuthReqs, SessionTouch(r) \/ SwitchWrite(r)
    PROVE  SessionsInv'
<1> DEFINE s == areq[r].session
           m == areq[r].member
<1> USE DEF SessionsInv, Goto, ThenIssue
<1>0. /\ s \in Sessions /\ session[s].exists
      /\ m \in OwnedBy(UserOf(s)) \cup {NoRow}
      /\ m \in NullableMembership
      /\ areq[r].op \in {"touch", "switch"}
  BY AuthRequestFields
  DEF SessionTouch, SwitchWrite, Issuing, Switching, RequestsGrounded, Grounded,
      OwnRequest, NullableMembership
<1>1. /\ session' = [session EXCEPT ![s].member = IF m = NoRow THEN @ ELSE m]
      /\ UNCHANGED <<token, now, cutOff>>
  BY <1>0, SessionsAssumption, AuthRequestFields DEF SessionTouch, SwitchWrite, Switching
<1>2. /\ areq' = [areq EXCEPT ![r] = areq'[r]]
      /\ areq'[r] \in Issuing
      /\ areq'[r].session = s
      /\ areq'[r].member = m
      /\ areq'[r].from # NoRow => areq[r].op = "touch" /\ areq'[r].from = areq[r].from
      /\ areq'[r].op \in {"touch", "token"}
  BY <1>0, AuthRequestFields
  DEF SessionTouch, SwitchWrite, SessionsTypeOK, Issuing, NullableMembership
<1>3. /\ session'[s] = [session[s] EXCEPT !.member = IF m = NoRow THEN @ ELSE m]
      /\ \A o \in Sessions \ {s} : session'[o] = session[o]
      /\ \A o \in Sessions : /\ session'[o].exists = session[o].exists
                             /\ session'[o].revoked = session[o].revoked
                             /\ session'[o].user = session[o].user
  BY <1>0, <1>1 DEF SessionsTypeOK, SessionRow
<1>4. SessionsTypeOK'
  <2>1. session[s] \in SessionRow
    BY <1>0 DEF SessionsTypeOK
  <2>2. session'[s] \in SessionRow
    BY <1>0, <1>3, <2>1 DEF SessionRow
  <2>3. session' = [session EXCEPT ![s] = session'[s]]
    BY <1>0, <1>1 DEF SessionsTypeOK
  <2> HIDE DEF SessionTouch, SwitchWrite, Goto, ThenIssue, s, m
  <2> QED BY <1>1, <1>2, <2>2, <2>3 DEF SessionsTypeOK
<1> HIDE DEF SessionTouch, SwitchWrite, Goto, ThenIssue
<1>5. RequestsGrounded'
  <2>1. Grounded(areq[r])' /\ OwnRequest(areq[r])'
    <3>1. areq'[r].from # NoRow => /\ token[areq'[r].from].revoked
                                   /\ token[areq'[r].from].session = s
                                   /\ token[areq'[r].from].member = m
      BY <1>2 DEF RequestsGrounded, Grounded
    <3> HIDE DEF s, m
    <3>2. Grounded(areq[r])'
      BY <1>0, <1>1, <1>2, <1>3, <3>1 DEF Grounded
    <3>3. OwnRequest(areq[r])'
      BY <1>0, <1>2, <1>3 DEF OwnRequest, UserOf
    <3> QED BY <3>2, <3>3
  <2>2. RowsKept
    BY <1>1, <1>3 DEF RowsKept, TokenExists
  <2>3. \A p \in AuthReqs \ {r} : areq'[p] = areq[p]
    BY <1>2 DEF SessionsTypeOK
  <2>4. ASSUME NEW p \in AuthReqs PROVE Grounded(areq[p])' /\ OwnRequest(areq[p])'
    BY <2>1, <2>2, <2>3, OthersStayGrounded
  <2> QED BY <2>4 DEF RequestsGrounded
<1>6. RowsGrounded' /\ ReplacedIsRevoked'
  BY <1>1, <1>3
  DEF RowsGrounded, ReplacedIsRevoked, TokenExists, SessionsTypeOK, TokenRow
<1>7. MembershipsAreOwn'
  <2>1. \A o \in Sessions : /\ TokensOf(o)' = TokensOf(o)
                           /\ OwnedBy(UserOf(o))' = OwnedBy(UserOf(o))
    BY <1>1, <1>3 DEF TokensOf, UserOf, OwnedBy
  <2>2. session'[s].member \in OwnedBy(UserOf(s)) \cup {NoRow}
    <3>1. session'[s].member = IF m = NoRow THEN session[s].member ELSE m
      BY <1>0, <1>3 DEF SessionsTypeOK, SessionRow
    <3> QED BY <1>0, <3>1 DEF MembershipsAreOwn
  <2> QED BY <1>1, <1>3, <2>1, <2>2 DEF MembershipsAreOwn
<1>8. \A o \in Sessions : Issuers(o)' = Issuers(o)
  BY <1>0, <1>1, <1>2 DEF Issuers, SessionsTypeOK
<1>9. LiveSessionHasToken'
  BY <1>1, <1>3, <1>8 DEF LiveSessionHasToken, TokensOf
<1>10. SessionNamesIssued'
  <2>1. \A o \in Sessions : \A p \in Issuers(o) :
            areq[p].op # "rotate" => areq'[p].op # "rotate" /\ areq'[p].member = areq[p].member
    BY <1>2 DEF Issuers, SessionsTypeOK
  <2>2. r \in Issuers(s)' /\ areq'[r].op # "rotate"
    BY <1>0, <1>2, <1>8 DEF Issuers
  <2>3. ASSUME NEW o \in Sessions \ cutOff, session[o].exists,
               session'[o].member = session[o].member
        PROVE  \/ \E t \in TokensOf(o)' : token'[t].member = session'[o].member
               \/ \E p \in Issuers(o)' :
                    areq'[p].op # "rotate" /\ areq'[p].member = session'[o].member
    BY <2>3, <1>1, <1>8, <2>1 DEF SessionNamesIssued, TokensOf
  <2>4. CASE m = NoRow
    <3>1. \A o \in Sessions : session'[o].member = session[o].member
      BY <2>4, <1>0, <1>3 DEF SessionsTypeOK, SessionRow
    <3> QED BY <1>1, <1>3, <2>3, <3>1 DEF SessionNamesIssued
  <2>5. CASE m # NoRow
    <3>1. session'[s].member = m
      BY <2>5, <1>0, <1>3 DEF SessionsTypeOK, SessionRow
    <3>2. ASSUME NEW o \in Sessions \ cutOff, session'[o].exists
          PROVE  \/ \E t \in TokensOf(o)' : token'[t].member = session'[o].member
                 \/ \E p \in Issuers(o)' :
                        areq'[p].op # "rotate" /\ areq'[p].member = session'[o].member
      <4>1. CASE o = s
        BY <1>2, <2>2, <3>1, <4>1
      <4>2. CASE o # s
        BY <1>3, <2>3, <3>2, <4>2
      <4> QED BY <4>1, <4>2
    <3> QED BY <1>1, <3>2 DEF SessionNamesIssued
  <2> QED BY <2>4, <2>5
<1> QED BY <1>4, <1>5, <1>6, <1>7, <1>9, <1>10

\* The new token takes over from the request that inserts it.
LEMMA TokenInsertPreserves ==
    ASSUME SessionsInv, NEW r \in AuthReqs, TokenInsert(r)
    PROVE  SessionsInv'
<1> DEFINE s == areq[r].session
           m == areq[r].member
           n == newId
<1> USE DEF SessionsInv, TokenInsert, Goto
<1>0. areq[r] \in Issuing /\ s \in Sessions /\ s # NoRow /\ m \in NullableMembership
  BY AuthRequestFields, SessionsAssumption DEF Issuing
<1>1. /\ n \in Tokens /\ ~TokenExists(n)
      /\ token'[n] = [session |-> s, member |-> m, from |-> areq[r].from,
                      expires |-> now + Lifetime, revoked |-> FALSE]
      /\ \A t \in Tokens \ {n} : token'[t] = token[t]
      /\ \A t \in Tokens : TokenExists(t) => t # n /\ token'[t] = token[t]
  <2>1. n \in Tokens /\ ~TokenExists(n)
    BY DEF newId
  <2> QED BY <2>1 DEF SessionsTypeOK
<1>2. /\ areq'[r] = AIdle
      /\ \A p \in AuthReqs \ {r} : areq'[p] = areq[p]
      /\ areq[r].op = "token"
      /\ UNCHANGED <<session, cutOff>>
  BY DEF SessionsTypeOK
<1>3. SessionsTypeOK'
  <2>1. token'[n] \in TokenRow
    BY <1>0, <1>1, SessionsAssumption DEF TokenRow, Issuing, SessionsTypeOK
  <2> QED BY <1>1, <2>1 DEF SessionsTypeOK
<1>4. RowsGrounded'
  BY <1>0, <1>1 DEF RowsGrounded, TokenExists, RequestsGrounded, Grounded
<1>5. RequestsGrounded'
  <2>1. Grounded(areq[r])' /\ OwnRequest(areq[r])'
    BY <1>2 DEF Grounded, OwnRequest, AIdle
  <2>2. RowsKept
    BY <1>1, <1>2 DEF RowsKept, TokenExists
  <2>3. \A p \in AuthReqs \ {r} : areq'[p] = areq[p]
    BY <1>2
  <2>4. ASSUME NEW p \in AuthReqs PROVE Grounded(areq[p])' /\ OwnRequest(areq[p])'
    BY <2>1, <2>2, <2>3, OthersStayGrounded
  <2> QED BY <2>4 DEF RequestsGrounded
<1>6. ReplacedIsRevoked'
  <2>1. ASSUME NEW t \in Tokens, token'[t].from # NoRow
        PROVE  /\ token'[token'[t].from].revoked
               /\ token'[token'[t].from].session = token'[t].session
               /\ token'[token'[t].from].member = token'[t].member
    <3>1. CASE t = n
      <4>1. areq[r].from \in Tokens /\ TokenExists(areq[r].from)
        BY <1>0, <1>1, <2>1, <3>1
        DEF RequestsGrounded, Grounded, TokenExists, Issuing
      <4> QED BY <1>1, <2>1, <3>1, <4>1 DEF RequestsGrounded, Grounded
    <3>2. CASE t # n
      <4>1. /\ token'[t] = token[t] /\ token[t].from \in Tokens /\ TokenExists(t)
            /\ TokenExists(token[t].from)
        BY <1>1, <2>1, <3>2
        DEF RowsGrounded, ReplacedIsRevoked, TokenExists, SessionsTypeOK, TokenRow
      <4> QED BY <1>1, <2>1, <4>1 DEF ReplacedIsRevoked
    <3> QED BY <3>1, <3>2
  <2> QED BY <2>1 DEF ReplacedIsRevoked
<1>7. MembershipsAreOwn'
  BY <1>0, <1>1 DEF MembershipsAreOwn, TokensOf, UserOf, RequestsGrounded, OwnRequest
<1> HIDE DEF TokenInsert, Goto
<1>8. \A o \in Sessions : \A p \in Issuers(o) :
        \/ p = r /\ o = s
        \/ p \in Issuers(o)' /\ areq'[p] = areq[p]
  BY <1>0, <1>1, <1>2, AuthRequestFields, SessionsAssumption
  DEF Issuers, TokenExists, Rotating
<1>9. /\ \A o \in Sessions : o = s =>
            \E t \in TokensOf(o)' : ~token'[t].revoked /\ token'[t].member = m
      /\ \A o \in Sessions : \A t \in TokensOf(o) :
            t \in TokensOf(o)' /\ token'[t] = token[t]
  BY <1>1, SessionsAssumption DEF TokensOf, TokenExists
<1>10. LiveSessionHasToken'
  BY <1>0, <1>1, <1>2, <1>8, <1>9 DEF LiveSessionHasToken
<1>11. SessionNamesIssued'
  BY <1>0, <1>1, <1>2, <1>8, <1>9 DEF SessionNamesIssued
<1> QED BY <1>3, <1>4, <1>5, <1>6, <1>7, <1>10, <1>11

\* The request that revokes a token is the one that will replace it.
LEMMA RotateWritePreserves ==
    ASSUME SessionsInv, NEW r \in AuthReqs, RotateWrite(r)
    PROVE  SessionsInv'
<1> DEFINE t == areq[r].token
           s == token[t].session
<1> USE DEF SessionsInv, RotateWrite, Goto, ThenIssue
<1>0. /\ t \in Tokens /\ TokenExists(t)
      /\ s \in Sessions /\ session[s].exists
      /\ token[t].member \in NullableMembership
      /\ token[t].member \in OwnedBy(UserOf(s)) \cup {NoRow}
  <2>1. t \in Tokens /\ TokenExists(t)
    BY AuthRequestFields DEF Rotating, RequestsGrounded, Grounded
  <2>2. token[t] \in TokenRow
    BY <2>1 DEF SessionsTypeOK
  <2>3. s \in Sessions /\ token[t].member \in NullableMembership
    BY <2>1, <2>2 DEF TokenRow, TokenExists
  <2> QED BY <2>1, <2>3 DEF RowsGrounded, MembershipsAreOwn, TokensOf
<1>1. /\ token'[t].revoked
      /\ \A u \in Tokens \ {t} : token'[u] = token[u]
      /\ \A u \in Tokens : /\ token'[u].session = token[u].session
                           /\ token'[u].member = token[u].member
                           /\ token'[u].from = token[u].from
                           /\ token[u].revoked => token'[u].revoked
  BY <1>0 DEF SessionsTypeOK, TokenRow
<1>2. /\ areq'[r] = [op |-> "touch", session |-> s, member |-> token[t].member,
                     from |-> t]
      /\ \A p \in AuthReqs \ {r} : areq'[p] = areq[p]
      /\ areq[r].op = "rotate"
      /\ UNCHANGED <<session, cutOff>>
  BY DEF SessionsTypeOK
<1>3. SessionsTypeOK'
  <2>1. token' \in [Tokens -> TokenRow]
    <3>1. token[t] \in TokenRow /\ token \in [Tokens -> TokenRow]
      BY <1>0 DEF SessionsTypeOK
    <3>2. [token[t] EXCEPT !.revoked = TRUE] \in TokenRow
      BY <3>1 DEF TokenRow
    <3>3. token' = [token EXCEPT ![t] = [token[t] EXCEPT !.revoked = TRUE]]
      BY <3>1
    <3> HIDE DEF t
    <3> QED BY <1>0, <3>1, <3>2, <3>3
  <2>2. areq'[r] \in Issuing
    BY <1>0, <1>2 DEF Issuing
  <2> QED BY <2>1, <2>2 DEF SessionsTypeOK
<1>4. RowsGrounded'
  BY <1>1 DEF RowsGrounded, TokenExists
<1>5. RequestsGrounded'
  <2>1. Grounded(areq[r])' /\ OwnRequest(areq[r])'
    <3> HIDE DEF RotateWrite, Goto, ThenIssue
    <3>1. Grounded(areq[r])'
      BY <1>0, <1>1, <1>2 DEF Grounded
    <3>2. /\ areq'[r].op = "touch" /\ areq'[r].session = s
          /\ areq'[r].member = token[t].member
      BY <1>2
    <3>3. UserOf(areq[r].session)' = UserOf(s)
      BY <1>2, <3>2 DEF UserOf
    <3>4. areq'[r].member \in OwnedBy(UserOf(areq[r].session)') \cup {NoRow}
      BY <1>0, <3>2, <3>3
    <3>5. OwnRequest(areq[r])'
      BY <3>2, <3>4 DEF OwnRequest
    <3> QED BY <3>1, <3>5
  <2>2. RowsKept
    BY <1>1, <1>2 DEF RowsKept, TokenExists
  <2>3. \A p \in AuthReqs \ {r} : areq'[p] = areq[p]
    BY <1>2
  <2>4. ASSUME NEW p \in AuthReqs PROVE Grounded(areq[p])' /\ OwnRequest(areq[p])'
    BY <2>1, <2>2, <2>3, OthersStayGrounded
  <2> QED BY <2>4 DEF RequestsGrounded
<1> HIDE DEF RotateWrite, Goto, ThenIssue
<1>6. ReplacedIsRevoked'
  BY <1>1 DEF ReplacedIsRevoked, SessionsTypeOK, TokenRow
<1>7. MembershipsAreOwn'
  BY <1>1, <1>2 DEF MembershipsAreOwn, TokensOf, UserOf
<1>8. /\ \A o \in Sessions : o = s => r \in Issuers(o)'
      /\ \A o \in Sessions : /\ TokensOf(o)' = TokensOf(o)
                             /\ Issuers(o) \subseteq Issuers(o)'
  <2>1. \A o \in Sessions : o = s => r \in Issuers(o)'
    BY <1>2 DEF Issuers
  <2>2. \A o \in Sessions : r \in Issuers(o) => o = s
    BY <1>2 DEF Issuers
  <2>3. \A p \in AuthReqs \ {r} : areq[p].op = "rotate" => areq[p].token \in Tokens
    BY AuthRequestFields DEF Rotating
  <2>4. \A o \in Sessions : \A p \in Issuers(o) \ {r} : p \in Issuers(o)'
    BY <1>1, <1>2, <2>3 DEF Issuers
  <2>5. \A o \in Sessions : TokensOf(o)' = TokensOf(o)
    BY <1>1 DEF TokensOf
  <2> QED BY <2>1, <2>2, <2>4, <2>5
<1>9. LiveSessionHasToken'
  <2>1. \A o \in Sessions \ {s} : \A u \in TokensOf(o) : token'[u] = token[u]
    BY <1>1 DEF TokensOf
  <2> QED BY <1>2, <1>8, <2>1 DEF LiveSessionHasToken
<1>10. SessionNamesIssued'
  <2>1. \A o \in Sessions : \A p \in Issuers(o) :
            areq[p].op # "rotate" => areq'[p] = areq[p]
    BY <1>2 DEF Issuers
  <2> QED BY <1>1, <1>2, <1>8, <2>1 DEF SessionNamesIssued, TokensOf
<1> QED BY <1>3, <1>4, <1>5, <1>6, <1>7, <1>9, <1>10

-----------------------------------------------------------------------------
LEMMA RevokeSessionPreserves ==
    ASSUME SessionsInv, NEW r \in AuthReqs, RevokeSession(r)
    PROVE  SessionsInv'
<1> DEFINE s == areq[r].session
<1> USE DEF SessionsInv, RevokeSession, Goto
<1>0. s \in Sessions /\ session[s].exists
  BY AuthRequestFields DEF Ending, RequestsGrounded, Grounded
<1>1. /\ session'[s].revoked
      /\ \A o \in Sessions : /\ session'[o].exists = session[o].exists
                             /\ session'[o].user = session[o].user
                             /\ session'[o].member = session[o].member
                             /\ session[o].revoked => session'[o].revoked
                             /\ o # s => session'[o] = session[o]
  BY <1>0 DEF SessionsTypeOK, SessionRow
<1>2. /\ areq'[r] = [op |-> "revoke", session |-> s]
      /\ \A p \in AuthReqs \ {r} : areq'[p] = areq[p]
  BY DEF SessionsTypeOK
<1>3. SessionsTypeOK'
  <2>1. areq'[r] \in Ending
    BY <1>0, <1>2 DEF Ending
  <2>2. session[s] \in SessionRow /\ session \in [Sessions -> SessionRow]
    BY <1>0 DEF SessionsTypeOK
  <2>3. [session[s] EXCEPT !.revoked = TRUE] \in SessionRow
    BY <2>2 DEF SessionRow
  <2>4. session' = [session EXCEPT ![s] = [session[s] EXCEPT !.revoked = TRUE]]
    BY <2>2
  <2>5. session' \in [Sessions -> SessionRow]
    <3> HIDE DEF s
    <3> QED BY <1>0, <2>2, <2>3, <2>4
  <2> QED BY <2>1, <2>5 DEF SessionsTypeOK
<1>4. RowsGrounded' /\ ReplacedIsRevoked'
  BY <1>0, <1>1 DEF RowsGrounded, ReplacedIsRevoked, TokenExists, SessionsTypeOK, TokenRow
<1>5. RequestsGrounded'
  <2>1. Grounded(areq[r])' /\ OwnRequest(areq[r])'
    BY <1>0, <1>1, <1>2 DEF Grounded, OwnRequest
  <2>2. RowsKept
    BY <1>1, <1>2 DEF RowsKept, TokenExists
  <2>3. \A p \in AuthReqs \ {r} : areq'[p] = areq[p]
    BY <1>2
  <2>4. ASSUME NEW p \in AuthReqs PROVE Grounded(areq[p])' /\ OwnRequest(areq[p])'
    BY <2>1, <2>2, <2>3, OthersStayGrounded
  <2> QED BY <2>4 DEF RequestsGrounded
<1>6. MembershipsAreOwn'
  BY <1>1 DEF MembershipsAreOwn, TokensOf, UserOf
<1>7. \A o \in Sessions : Issuers(o) \subseteq Issuers(o)'
                          /\ \A p \in Issuers(o) : areq'[p] = areq[p]
  BY <1>2 DEF Issuers
<1>8. LiveSessionHasToken' /\ SessionNamesIssued'
  BY <1>1, <1>7 DEF LiveSessionHasToken, SessionNamesIssued, TokensOf
<1> QED BY <1>3, <1>4, <1>5, <1>6, <1>8

LEMMA RevokeTokensPreserves ==
    ASSUME SessionsInv, NEW r \in AuthReqs, RevokeTokens(r)
    PROVE  SessionsInv'
<1> DEFINE s == areq[r].session
<1> USE DEF SessionsInv, RevokeTokens, Goto
<1>0. s \in Sessions /\ session[s].revoked
  BY AuthRequestFields DEF Ending, RequestsGrounded, Grounded
<1>1. \A u \in Tokens : /\ token'[u].session = token[u].session
                        /\ token'[u].member = token[u].member
                        /\ token'[u].from = token[u].from
                        /\ token[u].revoked => token'[u].revoked
                        /\ u \notin TokensOf(s) => token'[u] = token[u]
  BY DEF SessionsTypeOK, TokenRow
<1>2. /\ areq'[r] = AIdle
      /\ \A p \in AuthReqs \ {r} : areq'[p] = areq[p]
      /\ areq[r].op = "revoke"
      /\ UNCHANGED <<session, cutOff>>
  BY DEF SessionsTypeOK
<1>3. SessionsTypeOK'
  BY DEF SessionsTypeOK, TokenRow
<1>4. RowsGrounded' /\ ReplacedIsRevoked'
  BY <1>1 DEF RowsGrounded, ReplacedIsRevoked, TokenExists, SessionsTypeOK, TokenRow
<1>5. RequestsGrounded'
  <2>1. Grounded(areq[r])' /\ OwnRequest(areq[r])'
    BY <1>2 DEF Grounded, OwnRequest, AIdle
  <2>2. RowsKept
    BY <1>1, <1>2 DEF RowsKept, TokenExists
  <2>3. \A p \in AuthReqs \ {r} : areq'[p] = areq[p]
    BY <1>2
  <2>4. ASSUME NEW p \in AuthReqs PROVE Grounded(areq[p])' /\ OwnRequest(areq[p])'
    BY <2>1, <2>2, <2>3, OthersStayGrounded
  <2> QED BY <2>4 DEF RequestsGrounded
<1>6. MembershipsAreOwn'
  BY <1>1 DEF MembershipsAreOwn, TokensOf, UserOf
<1> HIDE DEF RevokeTokens, Goto
<1>7. \A o \in Sessions : /\ TokensOf(o)' = TokensOf(o)
                          /\ Issuers(o) \subseteq Issuers(o)'
                          /\ \A p \in Issuers(o) : areq'[p] = areq[p]
  BY <1>1, <1>2, AuthRequestFields DEF Issuers, TokensOf, Rotating
<1>8. LiveSessionHasToken'
  <2>1. \A o \in Sessions \ {s} : \A u \in TokensOf(o) : token'[u] = token[u]
    BY <1>1 DEF TokensOf
  <2> QED BY <1>0, <1>2, <1>7, <2>1 DEF LiveSessionHasToken
<1>9. SessionNamesIssued'
  BY <1>1, <1>2, <1>7 DEF SessionNamesIssued, TokensOf
<1> QED BY <1>3, <1>4, <1>5, <1>6, <1>8, <1>9

\* A request that dies leaves the rows alone, and its session is remembered.
LEMMA AuthReqFailsPreserves ==
    ASSUME SessionsInv, NEW r \in AuthReqs, AuthReqFails(r)
    PROVE  SessionsInv'
<1> USE DEF SessionsInv, AuthReqFails, Goto
<1>1. areq'[r] = AIdle /\ \A p \in AuthReqs \ {r} : areq'[p] = areq[p]
  BY DEF SessionsTypeOK
<1>2. SessionsTypeOK'
  BY DEF SessionsTypeOK
<1>3. RequestsGrounded'
  BY <1>1 DEF RequestsGrounded, Grounded, OwnRequest, AIdle, TokenExists, UserOf
<1>4. RowsGrounded' /\ ReplacedIsRevoked' /\ MembershipsAreOwn'
  BY DEF RowsGrounded, ReplacedIsRevoked, MembershipsAreOwn, TokenExists,
     TokensOf, UserOf
<1>5. \A s \in Sessions \ cutOff' :
        Issuers(s) \subseteq Issuers(s)' /\ \A p \in Issuers(s) : areq'[p] = areq[p]
  BY <1>1 DEF Issuers
<1>6. LiveSessionHasToken' /\ SessionNamesIssued'
  BY <1>5 DEF LiveSessionHasToken, SessionNamesIssued, TokensOf
<1> QED BY <1>2, <1>3, <1>4, <1>6

\* The clock decides what is accepted, not what the rows say of each other.
LEMMA TickPreserves ==
    ASSUME SessionsInv, Tick
    PROVE  SessionsInv'
<1> USE DEF SessionsInv, Tick
<1>1. SessionsTypeOK'
  BY SessionsAssumption DEF SessionsTypeOK
<1>2. RequestsGrounded' /\ RowsGrounded' /\ ReplacedIsRevoked' /\ MembershipsAreOwn'
  BY DEF RequestsGrounded, Grounded, OwnRequest, RowsGrounded, ReplacedIsRevoked,
     MembershipsAreOwn, TokenExists, TokensOf, UserOf
<1>3. LiveSessionHasToken' /\ SessionNamesIssued'
  BY DEF LiveSessionHasToken, SessionNamesIssued, TokensOf, Issuers
<1> QED BY <1>1, <1>2, <1>3

LEMMA NextPreserves ==
    ASSUME SessionsInv, [Next]_authVars
    PROVE  SessionsInv'
<1>1. CASE Tick
  BY <1>1, TickPreserves
<1>2. ASSUME NEW r \in AuthReqs, ReqStarts(r) PROVE SessionsInv'
  BY <1>2, ReqStartsPreserves
<1>3. ASSUME NEW r \in AuthReqs, ReqContinues(r) PROVE SessionsInv'
  BY <1>3, SessionInsertPreserves, TenantWritePreserves, TokenInsertPreserves,
     RotateWritePreserves, RevokeSessionPreserves, RevokeTokensPreserves
  DEF ReqContinues
<1>4. ASSUME NEW r \in AuthReqs, AuthReqFails(r) PROVE SessionsInv'
  BY <1>4, AuthReqFailsPreserves
<1>5. CASE UNCHANGED authVars
  BY <1>5 DEF authVars, SessionsInv, SessionsTypeOK, RequestsGrounded, Grounded,
     OwnRequest, RowsGrounded, ReplacedIsRevoked, LiveSessionHasToken,
     SessionNamesIssued, MembershipsAreOwn, TokenExists, TokensOf, UserOf, Issuers
<1> QED BY <1>1, <1>2, <1>3, <1>4, <1>5 DEF Next

-----------------------------------------------------------------------------
\* What one step may do to a session that has been revoked.
Over(s) ==
    /\ session'[s].revoked
    /\ Issuers(s)' \subseteq Issuers(s)
    /\ TokensOf(s)' # TokensOf(s) => Issuers(s)' # Issuers(s)

\* No check lets a request on a revoked session through to issueSession.
LEMMA StartsLeaveRevoked ==
    ASSUME SessionsInv, NEW s \in Sessions, session[s].revoked,
           NEW r \in AuthReqs, ReqStarts(r)
    PROVE  Over(s)
<1>1. /\ UNCHANGED <<session, token>>
      /\ areq' = [areq EXCEPT ![r] = areq'[r]]
      /\ areq'[r].op \in {"login", "reuse", "logout", "rotate", "switch"}
      /\ areq'[r].op = "rotate" => ~session[token[areq'[r].token].session].revoked
      /\ areq'[r].op = "switch" => ~session[areq'[r].session].revoked
  BY DEF SessionsInv, SessionsTypeOK, ReqStarts, LoginRead, RefreshReuse, RefreshRead,
     LogoutRead, SwitchRead, Authenticated, Goto
<1>2. Issuers(s)' \subseteq Issuers(s)
  BY <1>1 DEF Issuers, SessionsInv, SessionsTypeOK
<1>3. TokensOf(s)' = TokensOf(s)
  BY <1>1 DEF TokensOf
<1> QED BY <1>1, <1>2, <1>3 DEF Over

\* A request that got through before inserts its token and is done.
LEMMA ContinuesLeaveRevoked ==
    ASSUME SessionsInv, NEW s \in Sessions, session[s].revoked,
           NEW r \in AuthReqs, ReqContinues(r)
    PROVE  Over(s)
<1> USE DEF SessionsInv, Goto, ThenIssue
<1>1. ASSUME NEW o \in Sessions, SessionInsert(r, o) PROVE Over(s)
  <2>1. s # o
    BY <1>1 DEF SessionInsert, RowsGrounded
  <2>2. session'[s] = session[s] /\ UNCHANGED token
    BY <1>1, <2>1 DEF SessionInsert, SessionsTypeOK
  <2>3. Issuers(s)' \subseteq Issuers(s)
    BY <1>1, <2>1, <2>2 DEF SessionInsert, Issuers, SessionsTypeOK
  <2> QED BY <2>2, <2>3 DEF Over, TokensOf
<1>2. CASE SessionTouch(r) \/ SwitchWrite(r)
  <2>1. session'[s].revoked /\ UNCHANGED token
    BY <1>2 DEF SessionTouch, SwitchWrite, SessionsTypeOK, SessionRow
  <2>2. Issuers(s)' \subseteq Issuers(s)
    BY <1>2, <2>1 DEF SessionTouch, SwitchWrite, Issuers, SessionsTypeOK
  <2> QED BY <2>1, <2>2 DEF Over, TokensOf
<1>3. CASE TokenInsert(r)
  <2>1. /\ newId \in Tokens /\ ~TokenExists(newId)
        /\ token' = [token EXCEPT ![newId] = token'[newId]]
        /\ token'[newId].session = areq[r].session
        /\ session' = session
    BY <1>3 DEF TokenInsert, newId, SessionsTypeOK
  <2>2. /\ areq[r].op = "token"
        /\ areq'[r] = AIdle
        /\ \A p \in AuthReqs \ {r} : areq'[p] = areq[p]
    BY <1>3 DEF TokenInsert, SessionsTypeOK
  <2>3. \A p \in AuthReqs : areq[p].op = "rotate" =>
            token'[areq[p].token] = token[areq[p].token]
    BY <2>1, AuthRequestFields
    DEF Rotating, RequestsGrounded, Grounded, SessionsTypeOK
  <2>4. r \notin Issuers(s)' /\ Issuers(s)' \subseteq Issuers(s)
    BY <2>2, <2>3 DEF Issuers, AIdle
  <2>5. CASE areq[r].session = s
    BY <2>1, <2>2, <2>4, <2>5 DEF Over, Issuers
  <2>6. CASE areq[r].session # s
    <3>1. TokensOf(s)' = TokensOf(s)
      BY <2>1, <2>6, SessionsAssumption DEF TokensOf, TokenExists, SessionsTypeOK
    <3> QED BY <2>1, <2>4, <3>1 DEF Over
  <2> QED BY <2>5, <2>6
<1>4. CASE RotateWrite(r)
  <2>1. /\ UNCHANGED session
        /\ \A t \in Tokens : token'[t].session = token[t].session
    BY <1>4 DEF RotateWrite, SessionsTypeOK, TokenRow
  <2>2. /\ areq'[r].op = "touch" /\ areq'[r].session = token[areq[r].token].session
        /\ areq[r].op = "rotate"
        /\ \A p \in AuthReqs \ {r} : areq'[p] = areq[p]
    BY <1>4 DEF RotateWrite, SessionsTypeOK
  <2>3. \A p \in AuthReqs : areq[p].op = "rotate" => areq[p].token \in Tokens
    BY AuthRequestFields DEF Rotating
  <2>4. Issuers(s)' \subseteq Issuers(s)
    BY <2>1, <2>2, <2>3 DEF Issuers
  <2> QED BY <2>1, <2>4 DEF Over, TokensOf
<1>5. CASE RevokeSession(r) \/ RevokeTokens(r)
  <2>1. /\ session'[s].revoked
        /\ \A t \in Tokens : token'[t].session = token[t].session
    BY <1>5 DEF RevokeSession, RevokeTokens, SessionsTypeOK, SessionRow, TokenRow
  <2>2. /\ areq'[r].op \in {"revoke", "idle"}
        /\ \A p \in AuthReqs \ {r} : areq'[p] = areq[p]
    BY <1>5 DEF RevokeSession, RevokeTokens, SessionsTypeOK, AIdle
  <2>3. \A p \in AuthReqs : areq[p].op = "rotate" => areq[p].token \in Tokens
    BY AuthRequestFields DEF Rotating
  <2>4. Issuers(s)' \subseteq Issuers(s)
    BY <2>1, <2>2, <2>3 DEF Issuers
  <2> QED BY <2>1, <2>4 DEF Over, TokensOf
<1> QED BY <1>1, <1>2, <1>3, <1>4, <1>5 DEF ReqContinues

LEMMA RevokedStep ==
    ASSUME SessionsInv, NEW s \in Sessions, session[s].revoked, [Next]_authVars
    PROVE  Over(s)
<1>1. CASE Tick \/ UNCHANGED authVars
  BY <1>1 DEF Tick, authVars, Over, Issuers, TokensOf
<1>2. ASSUME NEW r \in AuthReqs, AuthReqFails(r) PROVE Over(s)
  <2>1. Issuers(s)' \subseteq Issuers(s)
    BY <1>2 DEF AuthReqFails, Goto, Issuers, AIdle, SessionsInv, SessionsTypeOK
  <2> QED BY <1>2, <2>1 DEF AuthReqFails, Over, TokensOf
<1> QED BY <1>1, <1>2, StartsLeaveRevoked, ContinuesLeaveRevoked DEF Next

-----------------------------------------------------------------------------
\* The invariant of the session store: with rows that are only ever revoked,
\* what a request has read holds until it writes.
THEOREM SessionsInvariant == Spec => []SessionsInv
<1>1. Init => SessionsInv
  BY InitSessionsInv
<1>2. SessionsInv /\ [Next]_authVars => SessionsInv'
  BY NextPreserves
<1> QED BY <1>1, <1>2, PTL DEF Spec

\* Sessions, tokens and requests keep their shape, so every step finds the
\* fields it reads.
THEOREM SessionsTypeCorrect == Spec => []SessionsTypeOK
  BY SessionsInvariant, PTL DEF SessionsInv

\* Rotation revokes what it replaces, for any number of overlapping refreshes.
THEOREM ReplacedTokensAreRevoked == Spec => []ReplacedIsRevoked
  BY SessionsInvariant, PTL DEF SessionsInv

\* A session that nobody ended and on which nothing failed can be continued.
THEOREM LiveSessionsHaveTokens == Spec => []LiveSessionHasToken
  BY SessionsInvariant, PTL DEF SessionsInv

\* A session names a membership that one of its tokens has or is about to have.
THEOREM SessionsNameIssued == Spec => []SessionNamesIssued
  BY SessionsInvariant, PTL DEF SessionsInv

\* No refresh or switch gives a user somebody else's membership.
THEOREM MembershipsStayOwn == Spec => []MembershipsAreOwn
  BY SessionsInvariant, PTL DEF SessionsInv

\* Once a session is revoked no request passes its checks, and each one that had
\* passed them inserts one token at most.
THEOREM RevokedSessionsIssueNothing == Spec => RevokedSessionIssuesNothing
<1>1. SessionsInv /\ [Next]_authVars =>
        [\A s \in Sessions : session[s].revoked => Over(s)]_authVars
  BY RevokedStep
<1>2. SessionsInv /\ [Next]_authVars =>
        [\A s \in Sessions : session[s].revoked =>
            /\ session'[s].revoked
            /\ Issuers(s)' \subseteq Issuers(s)
            /\ TokensOf(s)' # TokensOf(s) => Issuers(s)' # Issuers(s)]_authVars
  BY <1>1 DEF Over
<1> QED BY <1>2, SessionsInvariant, PTL DEF Spec, RevokedSessionIssuesNothing
=============================================================================
