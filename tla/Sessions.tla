------------------------------ MODULE Sessions ------------------------------
(***************************************************************************)
(* Sessions and their refresh tokens: auth/auth.service.ts, and what the   *)
(* guards of common/guards/auth.guards.ts ask of an access token.          *)
(*                                                                         *)
(* A slot of AuthReqs is an HTTP request and a Prisma call is one step.    *)
(* Passwords, tenants, roles and membership status decide whether a        *)
(* request goes on or is refused; rows that record them are changed        *)
(* elsewhere, so here either may happen.  An access token is a signed copy *)
(* of its refresh token's row that lives far less than a tick of the clock.*)
(***************************************************************************)
EXTENDS Integers

CONSTANTS
    Users,
    Memberships,    \* memberships of companies
    Owner,          \* Owner[m]: the user of membership m
    Sessions,       \* ids of sessions
    Tokens,         \* ids of refresh tokens
    AuthReqs,       \* concurrent HTTP requests
    NoRow,          \* a null reference
    Lifetime,       \* SESSION_DAYS and REFRESH_DAYS, in ticks
    MaxTime         \* bound on the clock

ASSUME SessionsAssumption ==
    /\ Owner \in [Memberships -> Users]
    /\ NoRow \notin Memberships \cup Sessions \cup Tokens
    /\ Lifetime \in Nat \ {0}
    /\ MaxTime \in Nat

VARIABLES
    session,    \* session[s]: row of session s
    token,      \* token[t]: row of refresh token t
    now,        \* the time
    cutOff,     \* history: the sessions on which a request died half-way
    areq        \* areq[r]: what request r has read and is about to write

authVars == <<session, token, now, cutOff, areq>>

-----------------------------------------------------------------------------
\* The membership is null on the platform and portal surfaces.
NullableMembership == Memberships \cup {NoRow}

SessionRow == [exists : BOOLEAN, user : Users \cup {NoRow},
               member : NullableMembership, expires : Nat, revoked : BOOLEAN]
NoSession == [exists |-> FALSE, user |-> NoRow, member |-> NoRow, expires |-> 0,
              revoked |-> FALSE]

TokenRow == [session : Sessions \cup {NoRow}, member : NullableMembership,
             from : Tokens \cup {NoRow}, expires : Nat, revoked : BOOLEAN]
NoToken == [session |-> NoRow, member |-> NoRow, from |-> NoRow, expires |-> 0,
            revoked |-> FALSE]

TokenExists(t) == token[t].session # NoRow
newId == CHOOSE t \in Tokens : ~TokenExists(t)
TokensOf(s) == {t \in Tokens : token[t].session = s}
UserOf(s) == session[s].user
OwnedBy(u) == {m \in Memberships : Owner[m] = u}

AIdle == [op |-> "idle"]
LoggingIn == [op : {"login"}, user : Users, member : NullableMembership]
Rotating == [op : {"rotate"}, token : Tokens]
Switching == [op : {"switch"}, session : Sessions, member : Memberships]
Issuing == [op : {"touch", "token"}, session : Sessions,
            member : NullableMembership, from : Tokens \cup {NoRow}]
Ending == [op : {"reuse", "logout", "revoke"}, session : Sessions]

SessionsTypeOK ==
    /\ session \in [Sessions -> SessionRow]
    /\ token \in [Tokens -> TokenRow]
    /\ now \in 0 .. MaxTime
    /\ cutOff \subseteq Sessions
    /\ areq \in [AuthReqs -> {AIdle} \cup LoggingIn \cup Rotating \cup Switching
                    \cup Issuing \cup Ending]

Init ==
    /\ session = [s \in Sessions |-> NoSession]
    /\ token = [t \in Tokens |-> NoToken]
    /\ now = 0
    /\ cutOff = {}
    /\ areq = [r \in AuthReqs |-> AIdle]

-----------------------------------------------------------------------------
Goto(r, next) == areq' = [areq EXCEPT ![r] = next]

ThenIssue(r, op, s, m, t) ==
    Goto(r, [op |-> op, session |-> s, member |-> m, from |-> t])

\* Mutant: the membership is looked up by tenant, not by tenant and user.
LoginReadAny(r, u, m) ==
    /\ areq[r] = AIdle
    /\ Goto(r, [op |-> "login", user |-> u, member |-> m])
    /\ UNCHANGED <<session, token, now, cutOff>>

\* loginCompany finds an active membership of the user in the tenant;
\* loginPlatform and loginPortal have none.
LoginRead(r, u, m) ==
    /\ areq[r] = AIdle
    /\ m \in OwnedBy(u) \cup {NoRow}
    /\ Goto(r, [op |-> "login", user |-> u, member |-> m])
    /\ UNCHANGED <<session, token, now, cutOff>>

\* Mutant: the lifetime is subtracted.
SessionInsertPast(r, s) ==
    /\ areq[r].op = "login"
    /\ ~session[s].exists
    /\ session' = [session EXCEPT ![s] =
            [exists |-> TRUE, user |-> areq[r].user, member |-> areq[r].member,
             expires |-> now - Lifetime, revoked |-> FALSE]]
    /\ ThenIssue(r, "token", s, areq[r].member, NoRow)
    /\ UNCHANGED <<token, now, cutOff>>

\* issueSession without reuseSessionId: insert the session, then its token.
SessionInsert(r, s) ==
    /\ areq[r].op = "login"
    /\ ~session[s].exists
    /\ session' = [session EXCEPT ![s] =
            [exists |-> TRUE, user |-> areq[r].user, member |-> areq[r].member,
             expires |-> now + Lifetime, revoked |-> FALSE]]
    /\ ThenIssue(r, "token", s, areq[r].member, NoRow)
    /\ UNCHANGED <<token, now, cutOff>>

\* issueSession with reuseSessionId: update the session, then insert a token.
\* An update without a membership leaves the session's as it is.
SessionTouch(r) == LET s == areq[r].session IN
    /\ areq[r].op = "touch"
    /\ session' = [session EXCEPT ![s].member =
            IF areq[r].member = NoRow THEN @ ELSE areq[r].member]
    /\ ThenIssue(r, "token", s, areq[r].member, areq[r].from)
    /\ UNCHANGED <<token, now, cutOff>>

TokenInsert(r) ==
    /\ areq[r].op = "token"
    /\ \E t \in Tokens : ~TokenExists(t)
    /\ token' = [token EXCEPT ![newId] =
            [session |-> areq[r].session, member |-> areq[r].member,
             from |-> areq[r].from, expires |-> now + Lifetime, revoked |-> FALSE]]
    /\ Goto(r, AIdle)
    /\ UNCHANGED <<session, now, cutOff>>

-----------------------------------------------------------------------------
\* refresh reads the token and its session together.  A revoked token ends the
\* session; one that has expired, or whose session was revoked, is refused.
RefreshReuse(r, t) ==
    /\ areq[r] = AIdle
    /\ TokenExists(t)
    /\ token[t].revoked
    /\ Goto(r, [op |-> "reuse", session |-> token[t].session])
    /\ UNCHANGED <<session, token, now, cutOff>>

\* Mutant: only the token is looked at.
RefreshReadTokenOnly(r, t) ==
    /\ areq[r] = AIdle
    /\ TokenExists(t)
    /\ ~token[t].revoked
    /\ token[t].expires >= now
    /\ Goto(r, [op |-> "rotate", token |-> t])
    /\ UNCHANGED <<session, token, now, cutOff>>

RefreshRead(r, t) ==
    /\ areq[r] = AIdle
    /\ TokenExists(t)
    /\ ~token[t].revoked
    /\ token[t].expires >= now
    /\ ~session[token[t].session].revoked
    /\ Goto(r, [op |-> "rotate", token |-> t])
    /\ UNCHANGED <<session, token, now, cutOff>>

\* Mutant: the old token stays valid.
RotateWriteKeeps(r) == LET t == areq[r].token IN
    /\ areq[r].op = "rotate"
    /\ ThenIssue(r, "touch", token[t].session, token[t].member, t)
    /\ UNCHANGED <<session, token, now, cutOff>>

RotateWrite(r) == LET t == areq[r].token IN
    /\ areq[r].op = "rotate"
    /\ token' = [token EXCEPT ![t].revoked = TRUE]
    /\ ThenIssue(r, "touch", token[t].session, token[t].member, t)
    /\ UNCHANGED <<session, now, cutOff>>

-----------------------------------------------------------------------------
\* The guard: an access token of s was issued a moment ago, and s is alive.
Authenticated(s) ==
    /\ \E t \in TokensOf(s) : token[t].expires >= now + Lifetime - 1
    /\ ~session[s].revoked
    /\ session[s].expires > now

\* switchTenant, behind CompanyAuthGuard, checks that the membership is an
\* active one of the user; it leaves the session's other tokens alone.
SwitchRead(r, s, m) ==
    /\ areq[r] = AIdle
    /\ Authenticated(s)
    /\ session[s].member # NoRow
    /\ m \in OwnedBy(UserOf(s))
    /\ Goto(r, [op |-> "switch", session |-> s, member |-> m])
    /\ UNCHANGED <<session, token, now, cutOff>>

\* Mutant: the token is issued for the membership the session had.
SwitchWriteOld(r) == LET s == areq[r].session IN
    /\ areq[r].op = "switch"
    /\ session' = [session EXCEPT ![s].member = areq[r].member]
    /\ ThenIssue(r, "touch", s, session[s].member, NoRow)
    /\ UNCHANGED <<token, now, cutOff>>

SwitchWrite(r) == LET s == areq[r].session IN
    /\ areq[r].op = "switch"
    /\ session' = [session EXCEPT ![s].member = areq[r].member]
    /\ ThenIssue(r, "touch", s, areq[r].member, NoRow)
    /\ UNCHANGED <<token, now, cutOff>>

LogoutRead(r, s) ==
    /\ areq[r] = AIdle
    /\ Authenticated(s)
    /\ Goto(r, [op |-> "logout", session |-> s])
    /\ UNCHANGED <<session, token, now, cutOff>>

\* Mutant: only the tokens are revoked.
RevokeSessionForgotten(r) ==
    /\ areq[r].op \in {"reuse", "logout"}
    /\ Goto(r, [op |-> "revoke", session |-> areq[r].session])
    /\ UNCHANGED <<session, token, now, cutOff>>

\* logout and the reuse branch of refresh: first the session, then its tokens.
RevokeSession(r) == LET s == areq[r].session IN
    /\ areq[r].op \in {"reuse", "logout"}
    /\ session' = [session EXCEPT ![s].revoked = TRUE]
    /\ Goto(r, [op |-> "revoke", session |-> s])
    /\ UNCHANGED <<token, now, cutOff>>

RevokeTokens(r) == LET s == areq[r].session IN
    /\ areq[r].op = "revoke"
    /\ token' = [t \in Tokens |-> IF t \in TokensOf(s)
                                  THEN [token[t] EXCEPT !.revoked = TRUE]
                                  ELSE token[t]]
    /\ Goto(r, AIdle)
    /\ UNCHANGED <<session, now, cutOff>>

-----------------------------------------------------------------------------
\* A request takes far less than a tick: the clock advances between requests.
Tick ==
    /\ now < MaxTime
    /\ \A r \in AuthReqs : areq[r] = AIdle
    /\ now' = now + 1
    /\ UNCHANGED <<session, token, cutOff, areq>>

\* Requests that have passed their checks and will insert a token of s.
Issuers(s) ==
    {r \in AuthReqs :
        \/ areq[r].op \in {"switch", "touch", "token"} /\ areq[r].session = s
        \/ areq[r].op = "rotate" /\ token[areq[r].token].session = s}

Enders(s) ==
    {r \in AuthReqs : areq[r].op \in {"reuse", "logout", "revoke"} /\ areq[r].session = s}

\* The process dies, or a statement fails: nothing already written is undone.
AuthReqFails(r) ==
    /\ areq[r] # AIdle
    /\ cutOff' = cutOff \cup {s \in Sessions : r \in Issuers(s) \cup Enders(s)}
    /\ Goto(r, AIdle)
    /\ UNCHANGED <<session, token, now>>

ReqContinues(r) ==
    \/ \E s \in Sessions : SessionInsert(r, s)
    \/ SessionTouch(r)
    \/ TokenInsert(r)
    \/ RotateWrite(r)
    \/ SwitchWrite(r)
    \/ RevokeSession(r)
    \/ RevokeTokens(r)

ReqStarts(r) ==
    \/ \E u \in Users, m \in NullableMembership : LoginRead(r, u, m)
    \/ \E t \in Tokens : RefreshReuse(r, t) \/ RefreshRead(r, t)
    \/ \E s \in Sessions : LogoutRead(r, s)
    \/ \E s \in Sessions, m \in Memberships : SwitchRead(r, s, m)

Next ==
    \/ Tick
    \/ \E r \in AuthReqs : ReqStarts(r) \/ ReqContinues(r) \/ AuthReqFails(r)

Spec == Init /\ [][Next]_authVars

\* The event loop resumes every handler whose database call has returned.
Fairness == \A r \in AuthReqs : WF_authVars(ReqContinues(r))

FairSpec == Spec /\ Fairness

-----------------------------------------------------------------------------
\* A token that replaced another belongs to the same session and membership, and
\* the one it replaced is revoked, in whatever order refreshes of it overlap
\* (refresh revokes the old token before issueSession inserts the new one).
ReplacedIsRevoked ==
    \A t \in Tokens : token[t].from # NoRow =>
        /\ token[token[t].from].revoked
        /\ token[token[t].from].session = token[t].session
        /\ token[token[t].from].member = token[t].member

\* Nobody is locked out of a session that was not ended: it has a token that is
\* not revoked, or a request is about to insert one.  Only a request that dies
\* half-way can break this (refresh and logout order their statements so).
LiveSessionHasToken ==
    \A s \in Sessions \ cutOff : session[s].exists /\ ~session[s].revoked =>
        Issuers(s) # {} \/ \E t \in TokensOf(s) : ~token[t].revoked

\* A session names, as its tenant, the membership of a token that was issued for
\* it or is about to be, although refreshes and switches overwrite each other.
SessionNamesIssued ==
    \A s \in Sessions \ cutOff : session[s].exists =>
        \/ \E t \in TokensOf(s) : token[t].member = session[s].member
        \/ \E r \in Issuers(s) :
            areq[r].op # "rotate" /\ areq[r].member = session[s].member

\* Sessions, tokens and requests in flight only ever name memberships of the
\* user who logged in: switchTenant checks the owner before it writes.
MembershipsAreOwn ==
    /\ \A s \in Sessions : session[s].member \in OwnedBy(UserOf(s)) \cup {NoRow}
    /\ \A s \in Sessions : \A t \in TokensOf(s) :
        token[t].member \in OwnedBy(UserOf(s)) \cup {NoRow}

\* Ending a session is final: once it is revoked no request passes its checks,
\* and those that already had insert at most one token each, so that none is
\* inserted when they are done, even if one of theirs is left unrevoked.
RevokedSessionIssuesNothing ==
    [][\A s \in Sessions : session[s].revoked =>
        /\ session'[s].revoked
        /\ Issuers(s)' \subseteq Issuers(s)
        /\ TokensOf(s)' # TokensOf(s) => Issuers(s)' # Issuers(s)]_authVars

\* "Reuse of a revoked refresh token revokes the whole session family": once
\* refresh has seen a revoked token, the session is eventually over for good,
\* unless a request on it died half-way.
ReuseEndsSession ==
    \A s \in Sessions :
        (\E r \in Enders(s) : areq[r].op = "reuse")
            ~> (s \in cutOff \/ [](session[s].revoked))

\* Refresh tokens live "30 days sliding": while they are rotated in time the
\* session goes on, so refresh never extends a session that has expired.
SlidingSession ==
    [][\A t \in Tokens : ~TokenExists(t) /\ token'[t].from # NoRow =>
        session[token'[t].session].expires >= now]_authVars
=============================================================================
