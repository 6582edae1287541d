------------------------------ MODULE Sessions ------------------------------
(***************************************************************************)
(* AuthService over "refresh_tokens": every sign-in starts a family of     *)
(* tokens, refresh replaces a token by a successor in its family, and      *)
(* logout, logout-all and a password reset revoke.                         *)
(***************************************************************************)
EXTENDS Accounts

CONSTANT MaxSessions    \* bound on the refresh token rows of this instance

\* A scenario also has: sessions, a bound on its refresh token rows.

ASSUME SessionBoundAssumption == MaxSessions \in Nat

VARIABLE session        \* refresh token rows

sessionVars == <<handlerVars, accountVars, session>>

SessionId == 1 .. MaxSessions

\* A family is named after its first token.
Session == [user : UserId, family : SessionId, revoked : BOOLEAN, expired : BOOLEAN]

Live(s) == Exists(session, s) /\ ~ session[s].revoked

Family(f) == {s \in SessionId : Exists(session, s) /\ session[s].family = f}

SessionsOf(u) == {s \in SessionId : Exists(session, s) /\ session[s].user = u}

\* UPDATE refresh_tokens SET revoked WHERE ...
Revoke(which) ==
    session' = [s \in SessionId |->
        IF s \in which THEN [session[s] EXCEPT !.revoked = TRUE] ELSE session[s]]

NewSession(s, u, f) ==
    session' = [session EXCEPT ![s] = [user |-> u, family |-> f, revoked |-> FALSE, expired |-> FALSE]]

-----------------------------------------------------------------------------
\* POST /auth/login: found and verified; issueTokenPair and the rest follow.
BeginLogin(r, u) ==
    /\ Exists(user, u)
    /\ Begin(r, "login", [at |-> "signIn", user |-> u])
    /\ UNCHANGED <<accountVars, session>>

\* issueTokenPair without a family.
SignIn(r, s) ==
    /\ At(r, "signIn")
    /\ IsFresh(session, s) /\ s <= scenario.sessions
    /\ NewSession(s, call[r].user, s)
    /\ Go(r, Audit("USER_LOGIN", call[r].user))
    /\ UNCHANGED accountVars

(***************************************************************************)
(* POST /auth/refresh: the token is read; if it is revoked or expired its  *)
(* whole family is revoked, otherwise the user is read, a successor        *)
(* inserted, and only then the token itself revoked.                       *)
(***************************************************************************)
\* Slip: a revoked token is refreshed like any other.
BeginRefreshAnyToken(r, s) ==
    /\ Exists(session, s)
    /\ Begin(r, "refresh", [at |-> "insertSuccessor", token |-> s])
    /\ UNCHANGED <<accountVars, session>>

BeginRefresh(r, s) ==
    /\ Exists(session, s)
    /\ Begin(r, "refresh", [at |-> IF session[s].revoked \/ session[s].expired
                                     THEN "revokeFamily" ELSE "insertSuccessor",
                            token |-> s])
    /\ UNCHANGED <<accountVars, session>>

RevokeFamily(r) ==
    /\ At(r, "revokeFamily")
    /\ Revoke(Family(session[call[r].token].family))
    /\ Go(r, Idle)
    /\ UNCHANGED accountVars

InsertSuccessor(r, s) ==
    /\ At(r, "insertSuccessor")
    /\ IsFresh(session, s) /\ s <= scenario.sessions
    /\ NewSession(s, session[call[r].token].user, session[call[r].token].family)
    /\ Go(r, [call[r] EXCEPT !.at = "revokeOld"])
    /\ UNCHANGED accountVars

RevokeOld(r) ==
    /\ At(r, "revokeOld")
    /\ session' = [session EXCEPT ![call[r].token].revoked = TRUE]
    /\ Go(r, Idle)
    /\ UNCHANGED accountVars

\* POST /auth/logout
Logout(r, s) ==
    /\ Exists(session, s)
    /\ Begin(r, "logout", Audit("USER_LOGOUT", session[s].user))
    /\ session' = [session EXCEPT ![s].revoked = TRUE]
    /\ UNCHANGED accountVars

\* logoutAllDevices, an operation of the service that no endpoint calls yet.
LogoutAll(r, u) ==
    /\ Exists(user, u)
    /\ Begin(r, "logoutAll", Audit("USER_LOGOUT_ALL", u))
    /\ Revoke(SessionsOf(u))
    /\ UNCHANGED accountVars

\* Slip: the sessions are left alone.
CommitResetOnly(r) == CommitReset(r) /\ UNCHANGED session

\* The transaction of resetPassword also revokes every session of the user.
CommitResetAndRevoke(r) ==
    /\ CommitReset(r)
    /\ Revoke(SessionsOf(token[call[r].token].user))

ExpireSession(s) ==
    /\ Exists(session, s) /\ ~ session[s].expired
    /\ session' = [session EXCEPT ![s].expired = TRUE]
    /\ UNCHANGED <<handlerVars, accountVars>>

-----------------------------------------------------------------------------
SessionInit == AccountInit /\ session = [s \in SessionId |-> NoRecord]

SessionArrive(r) ==
    \/ AccountArrive(r) /\ UNCHANGED session
    \/ \E u \in UserId : BeginLogin(r, u) \/ LogoutAll(r, u)
    \/ \E s \in SessionId : BeginRefresh(r, s) \/ Logout(r, s)

SessionProceed(r) ==
    \/ AccountProceedButReset(r) /\ UNCHANGED session
    \/ CommitResetAndRevoke(r)
    \/ \E s \in SessionId : SignIn(r, s) \/ InsertSuccessor(r, s)
    \/ RevokeFamily(r)
    \/ RevokeOld(r)

SessionNext ==
    \/ \E r \in Request :
           \/ SessionArrive(r)
           \/ SessionProceed(r)
           \/ Fail(r) /\ UNCHANGED <<accountVars, session>>
    \/ \E t \in TokenId : Expire(t) /\ UNCHANGED session
    \/ \E s \in SessionId : ExpireSession(s)

SessionSpec == SessionInit /\ [][SessionNext]_sessionVars

\* The event loop serves every handler; nothing makes a client call.
FairSessionSpec == SessionSpec /\ \A r \in Request : WF_sessionVars(SessionProceed(r))

-----------------------------------------------------------------------------
SessionHandler ==
    [at : {"insertUser"}, email : Email, google : BOOLEAN]
    \cup [at : {"insertVerification", "insertReset", "link", "signIn"}, user : UserId]
    \cup [at : {"mail", "verify", "reset"}, token : TokenId]
    \cup [at : {"audit"}, action : AuditAction, user : UserId]
    \cup [at : {"revokeFamily", "insertSuccessor", "revokeOld"}, token : SessionId]

\* Types of the rows and of the handlers in flight; and an e-mail has one account, however
\* many calls, register and Google in any mix, found it free.
SessionTypeOK ==
    /\ AccountRowsOK
    /\ OneAccountPerEmail
    /\ session \in [SessionId -> Session \cup {NoRecord}]
    /\ call \in [Request -> {Idle} \cup SessionHandler]
    /\ scenario \in Scenario

\* A family with no live member and no refresh about to insert one.
Dead(f) ==
    /\ Family(f) # {}
    /\ \A s \in Family(f) : ~ Live(s)
    /\ ~ \E r \in Request : At(r, "insertSuccessor") /\ call[r].token \in Family(f)

\* A session that is over stays over: once a family is dead, by rotation, logout,
\* expiry or reset, no sequence of calls revives it.
DeadFamilyStays == [][\A f \in SessionId : Dead(f) => Dead(f)']_sessionVars

\* After logout-all or a password reset nobody is signed in any more, except
\* through a refresh or a sign-in that was already on its way.
SignedOutEverywhere ==
    [][\A u \in UserId :
           (\E r \in Request : LogoutAll(r, u) \/ (CommitReset(r) /\ token[call[r].token].user = u)) =>
               \A s \in SessionId : Exists(session, s)' /\ session'[s].user = u =>
                   \/ Dead(session[s].family)'
                   \/ \E r \in Request : At(r, "insertSuccessor") /\ call[r].token \in Family(session[s].family)
      ]_sessionVars

=============================================================================
