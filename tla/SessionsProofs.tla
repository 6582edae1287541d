--------------------------- MODULE SessionsProofs ---------------------------
(***************************************************************************)
(* Proofs about accounts and sessions, for any number of e-mail addresses, *)
(* rows and handlers: rows and handlers stay well typed and an e-mail has  *)
(* one account, who is ACTIVE was verified, spent tokens stay spent, dead  *)
(* sessions dead, and who signs out everywhere is signed out.              *)
(***************************************************************************)
EXTENDS Sessions, HandlersProofs, FiniteSetTheorems

-----------------------------------------------------------------------------
(* The inductive invariant. *)

\* Users and one-time tokens are well typed, a token is one of a user that is there, no
\* two users share an e-mail, and who is ACTIVE was verified.
AccountsInv ==
    /\ AccountRowsOK
    /\ scenario \in Scenario
    /\ \A t \in TokenId : Exists(token, t) => Exists(user, token[t].user)
    /\ \A u, v \in UserId :
           Exists(user, u) /\ Exists(user, v) /\ user[u].email = user[v].email => u = v
    /\ ActiveWasVerified

\* The first token of a family is there, and belongs to the user of all of them.
FamiliesInv ==
    /\ session \in [SessionId -> Session \cup {NoRecord}]
    /\ \A s \in SessionId : Exists(session, s) =>
           LET f == session[s].family IN
           Exists(session, f) /\ session[f].family = f /\ session[f].user = session[s].user

\* A handler is well typed, and the rows it remembers are there.
HandlerLinked(h) ==
    /\ h \in {Idle} \cup SessionHandler
    /\ h.at \in {"insertVerification", "insertReset", "link"} => Exists(user, h.user)
    /\ h.at \in {"mail", "verify", "reset"} => Exists(token, h.token)
    /\ h.at = "verify" => token[h.token].kind = "verify"
    /\ h.at \in {"revokeFamily", "insertSuccessor", "revokeOld"} => Exists(session, h.token)

SessionInv ==
    /\ SlotsOK
    /\ AccountsInv
    /\ FamiliesInv
    /\ \A r \in Request : HandlerLinked(call[r])

\* A new server has no rows and no handlers.
LEMMA SessionInvInit == ASSUME SessionInit PROVE SessionInv
  BY DEF SessionInit, AccountInit, HandlerInit, SessionInv, SlotsOK, AccountsInv, FamiliesInv,
         AccountRowsOK, HandlerLinked, Idle, ActiveWasVerified, Exists

-----------------------------------------------------------------------------
(* What steps keep. *)

\* A row of the three tables is not NoRecord, and has the fields of its table.
LEMMA Records ==
    ASSUME AccountsInv, FamiliesInv
    PROVE  /\ \A u \in UserId : Exists(user, u) <=> user[u] \in User
           /\ \A t \in TokenId : Exists(token, t) <=> token[t] \in Token
           /\ \A s \in SessionId : Exists(session, s) <=> session[s] \in Session
           /\ NoRecord \notin User /\ NoRecord \notin Token /\ NoRecord \notin Session
  <1>1. NoRecord \notin User /\ NoRecord \notin Token /\ NoRecord \notin Session
    BY DEF NoRecord, User, Token, Session
  <1> QED
    BY <1>1 DEF AccountsInv, FamiliesInv, AccountRowsOK, Exists

\* The fields of a handler, by its step.
LEMMA HandlerFields ==
    ASSUME NEW h \in {Idle} \cup SessionHandler
    PROVE  /\ "at" \in DOMAIN h
           /\ h.at = "insertUser" => h \in [at : {"insertUser"}, email : Email, google : BOOLEAN]
           /\ h.at \in {"insertVerification", "insertReset", "link", "signIn"} =>
                  h \in [at : {"insertVerification", "insertReset", "link", "signIn"}, user : UserId]
           /\ h.at \in {"mail", "verify", "reset"} => h \in [at : {"mail", "verify", "reset"}, token : TokenId]
           /\ h.at = "audit" => h \in [at : {"audit"}, action : AuditAction, user : UserId]
           /\ h.at \in {"revokeFamily", "insertSuccessor", "revokeOld"} =>
                  h \in [at : {"revokeFamily", "insertSuccessor", "revokeOld"}, token : SessionId]
  BY DEF Idle, SessionHandler

\* Users are not deleted, keep their e-mail, and stay linked to Google.
UsersKept ==
    \A u \in UserId : Exists(user, u) =>
        /\ Exists(user, u)' /\ user'[u].email = user[u].email
        /\ user[u].google => user'[u].google

\* One-time tokens are not deleted, keep their user and kind, and stay used.
TokensKept ==
    \A t \in TokenId : Exists(token, t) =>
        /\ Exists(token, t)' /\ token'[t].user = token[t].user /\ token'[t].kind = token[t].kind
        /\ token[t].used => token'[t].used

\* Refresh tokens are not deleted, keep their user and family, and stay revoked.
SessionsKept ==
    \A s \in SessionId : Exists(session, s) =>
        /\ Exists(session, s)' /\ session'[s].user = session[s].user
        /\ session'[s].family = session[s].family
        /\ session[s].revoked => session'[s].revoked

RowsKept == UsersKept /\ TokensKept /\ SessionsKept

\* A handler that does nothing stays linked.
LEMMA LinksKept ==
    ASSUME RowsKept, NEW h, HandlerLinked(h)
    PROVE  /\ h \in {Idle} \cup SessionHandler
           /\ h.at \in {"insertVerification", "insertReset", "link"} => Exists(user', h.user)
           /\ h.at \in {"mail", "verify", "reset"} => Exists(token', h.token)
           /\ h.at = "verify" => token'[h.token].kind = "verify"
           /\ h.at \in {"revokeFamily", "insertSuccessor", "revokeOld"} => Exists(session', h.token)
  <1>1. h \in {Idle} \cup SessionHandler
    BY DEF HandlerLinked
  <1>2. h.at \in {"insertVerification", "insertReset", "link"} => h.user \in UserId
    BY <1>1, HandlerFields
  <1>3. h.at \in {"mail", "verify", "reset"} => h.token \in TokenId
    BY <1>1, HandlerFields
  <1>4. h.at \in {"revokeFamily", "insertSuccessor", "revokeOld"} => h.token \in SessionId
    BY <1>1, HandlerFields
  <1> QED
    BY <1>1, <1>2, <1>3, <1>4 DEF HandlerLinked, RowsKept, UsersKept, TokensKept, SessionsKept, Exists

\* A step of one handler keeps the invariant if it keeps the rows and leaves the handler linked.
LEMMA StepKeeps ==
    ASSUME SessionInv, NEW r \in Request, SlotsOK',
           \A q \in Request : q # r => call'[q] = call[q],
           AccountsInv', FamiliesInv', RowsKept, HandlerLinked(call[r])'
    PROVE  SessionInv' /\ RowsKept
  <1>1. ASSUME NEW q \in Request, q # r
        PROVE  HandlerLinked(call[q])'
    <2>1. call'[q] = call[q] /\ HandlerLinked(call[q])
      BY <1>1 DEF SessionInv
    <2> QED
      BY <2>1, LinksKept DEF HandlerLinked, Exists
  <1> QED
    BY <1>1 DEF SessionInv

-----------------------------------------------------------------------------
(* Steps that change no row. *)

Unwritten == UNCHANGED <<accountVars, session>>

\* Nothing happens to the rows that are not written.
LEMMA UnwrittenKeeps ==
    ASSUME SessionInv, Unwritten, scenario' = scenario
    PROVE  AccountsInv' /\ FamiliesInv' /\ RowsKept
  <1>1. UNCHANGED <<user, token, mailed, audited, session>>
    BY DEF Unwritten, accountVars
  <1>2. AccountsInv' /\ FamiliesInv'
    BY <1>1 DEF SessionInv, AccountsInv, AccountRowsOK, FamiliesInv, ActiveWasVerified, Exists
  <1>3. RowsKept
    BY <1>1 DEF RowsKept, UsersKept, TokensKept, SessionsKept, Exists
  <1> QED
    BY <1>2, <1>3

\* A handler that goes on to h, without a write.
LEMMA QuietStep ==
    ASSUME SessionInv, NEW r \in Request, NEW h, Go(r, h), Unwritten, HandlerLinked(h)
    PROVE  SessionInv' /\ RowsKept
  <1>1. "at" \in DOMAIN h
    BY HandlerFields DEF HandlerLinked
  <1>2. /\ SlotsOK' /\ call'[r] = h /\ scenario' = scenario
        /\ \A q \in Request : q # r => call'[q] = call[q]
    BY <1>1, GoMoves DEF SessionInv
  <1>3. HandlerLinked(call[r])'
    BY <1>2 DEF HandlerLinked, Unwritten, accountVars, Exists
  <1> QED
    BY <1>2, <1>3, UnwrittenKeeps, StepKeeps

\* A handler that is gone remembers nothing.
LEMMA IdleLinked == HandlerLinked(Idle)
  BY DEF HandlerLinked, Idle

\* The calls that only read.
LEMMA ArriveKeeps ==
    ASSUME SessionInv, NEW r \in Request,
           \/ \E e \in scenario.emails : BeginRegister(r, e) \/ BeginGoogleSignUp(r, e)
           \/ \E u \in UserId : BeginGoogleLogin(r, u) \/ BeginForgot(r, u) \/ BeginLogin(r, u)
           \/ \E t \in TokenId : BeginVerify(r, t) \/ BeginReset(r, t)
           \/ \E s \in SessionId : BeginRefresh(r, s),
           Unwritten
    PROVE  SessionInv' /\ RowsKept
  <1>1. ASSUME NEW e \in scenario.emails, BeginRegister(r, e) \/ BeginGoogleSignUp(r, e)
        PROVE  SessionInv' /\ RowsKept
    <2>1. e \in Email
      BY AccountBoundAssumption DEF SessionInv, AccountsInv
    <2>2. \A g \in BOOLEAN : HandlerLinked([at |-> "insertUser", email |-> e, google |-> g])
      BY <2>1 DEF HandlerLinked, SessionHandler
    <2> QED
      BY <1>1, <2>2, QuietStep DEF BeginRegister, BeginGoogleSignUp, Begin
  <1>2. ASSUME NEW u \in UserId, BeginGoogleLogin(r, u) \/ BeginForgot(r, u) \/ BeginLogin(r, u)
        PROVE  SessionInv' /\ RowsKept
    <2>1. Exists(user, u)
      BY <1>2 DEF BeginGoogleLogin, BeginForgot, BeginLogin
    <2>2. \A step \in {"insertReset", "link", "signIn"} : HandlerLinked([at |-> step, user |-> u])
      BY <2>1 DEF HandlerLinked, SessionHandler
    <2> QED
      BY <1>2, <2>2, QuietStep DEF BeginGoogleLogin, BeginForgot, BeginLogin, Begin
  <1>3. ASSUME NEW t \in TokenId, BeginVerify(r, t) \/ BeginReset(r, t)
        PROVE  SessionInv' /\ RowsKept
    <2>1. Exists(token, t)
      BY <1>3 DEF BeginVerify, BeginReset, Valid
    <2>2. HandlerLinked([at |-> "reset", token |-> t])
      BY <2>1 DEF HandlerLinked, SessionHandler
    <2>3. BeginVerify(r, t) => HandlerLinked([at |-> "verify", token |-> t])
      BY <2>1 DEF HandlerLinked, SessionHandler, BeginVerify, Valid
    <2> QED
      BY <1>3, <2>2, <2>3, QuietStep DEF BeginVerify, BeginReset, Begin
  <1>4. ASSUME NEW s \in SessionId, BeginRefresh(r, s)
        PROVE  SessionInv' /\ RowsKept
    <2>1. \A step \in {"revokeFamily", "insertSuccessor"} : HandlerLinked([at |-> step, token |-> s])
      BY <1>4 DEF HandlerLinked, SessionHandler, BeginRefresh
    <2> QED
      BY <1>4, <2>1, QuietStep DEF BeginRefresh, Begin
  <1> QED
    BY <1>1, <1>2, <1>3, <1>4

-----------------------------------------------------------------------------
(* Steps that write users and one-time tokens. *)

\* Who is ACTIVE still was verified, if the newly ACTIVE are.
LEMMA ActiveKept ==
    ASSUME SessionInv, UsersKept, TokensKept,
           \A u \in UserId : Exists(user, u)' /\ user'[u].status = "ACTIVE" =>
               \/ Exists(user, u) /\ user[u].status = "ACTIVE"
               \/ user'[u].google
               \/ \E t \in TokenId : /\ Exists(token, t)' /\ token'[t].user = u
                                      /\ token'[t].kind = "verify" /\ token'[t].used
    PROVE  ActiveWasVerified'
  BY DEF SessionInv, AccountsInv, ActiveWasVerified, UsersKept, TokensKept

\* A new user: the e-mail is taken by nobody else.
LEMMA InsertUserKeeps ==
    ASSUME SessionInv, NEW r \in Request, NEW u \in UserId, InsertUser(r, u), UNCHANGED session
    PROVE  SessionInv' /\ RowsKept
  <1> DEFINE h == call[r]
             row == [email |-> h.email, google |-> h.google,
                     status |-> IF h.google THEN "ACTIVE" ELSE "PENDING_VERIFICATION"]
  <1>1. h \in [at : {"insertUser"}, email : Email, google : BOOLEAN]
    BY HandlerFields DEF InsertUser, At, SessionInv, HandlerLinked
  <1>2. /\ ~ Exists(user, u)
        /\ user' = [user EXCEPT ![u] = row]
        /\ UNCHANGED <<token, mailed, audited, session>>
        /\ \A v \in UserId : Exists(user, v) => user[v].email # h.email
    BY DEF InsertUser, IsFresh, UsersOf
  <1>3. row \in User /\ row.email = h.email /\ row # NoRecord
    <2>1. row \in User
      BY <1>1 DEF User
    <2> QED
      BY <2>1, Records DEF SessionInv
  <1>4. /\ \A v \in UserId : v # u => user'[v] = user[v]
        /\ user'[u] = row /\ user' \in [UserId -> User \cup {NoRecord}]
    BY <1>2, <1>3 DEF SessionInv, AccountsInv, AccountRowsOK
  <1>5. /\ \A v \in UserId : Exists(user, v)' <=> Exists(user, v) \/ v = u
        /\ RowsKept
    BY <1>2, <1>3, <1>4 DEF RowsKept, UsersKept, TokensKept, SessionsKept, Exists
  <1> DEFINE next == IF h.google THEN Audit("USER_REGISTERED_GOOGLE", u)
                                 ELSE [at |-> "insertVerification", user |-> u]
  <1>6. /\ SlotsOK' /\ call'[r] = next /\ scenario' = scenario
        /\ \A q \in Request : q # r => call'[q] = call[q]
    BY GoMoves DEF InsertUser, SessionInv, Audit
  <1>7. next \in SessionHandler /\ next.at \in {"audit", "insertVerification"} /\ next.user = u
    <2>1. CASE h.google
      BY <2>1 DEF Audit, AuditAction, SessionHandler
    <2>2. CASE ~ h.google
      BY <2>2 DEF SessionHandler
    <2> QED
      BY <2>1, <2>2
  <1> HIDE DEF row, next
  <1>8. HandlerLinked(call[r])'
    BY <1>5, <1>6, <1>7 DEF HandlerLinked
  <1>9. FamiliesInv'
    BY <1>2 DEF SessionInv, FamiliesInv, Exists
  <1>10. ActiveWasVerified'
    <2>1. row.status = "ACTIVE" => row.google
      BY <1>1 DEF row
    <2> QED
      BY <1>4, <1>5, <2>1, ActiveKept DEF RowsKept
  <1>11. \A t \in TokenId : Exists(token, t)' => Exists(user, token[t].user)'
    <2>1. \A t \in TokenId : Exists(token, t) => token[t].user \in UserId
      BY Records DEF SessionInv, Token
    <2> QED
      BY <1>2, <1>5, <2>1 DEF SessionInv, AccountsInv, Exists
  <1>12. \A v, w \in UserId :
            Exists(user, v)' /\ Exists(user, w)' /\ user'[v].email = user'[w].email => v = w
    BY <1>2, <1>3, <1>4, <1>5 DEF SessionInv, AccountsInv
  <1>13. AccountsInv'
    BY <1>2, <1>4, <1>6, <1>10, <1>11, <1>12 DEF SessionInv, AccountsInv, AccountRowsOK
  <1> QED
    BY <1>5, <1>6, <1>8, <1>9, <1>13, StepKeeps

\* A new one-time token, of a user that is there.
LEMMA InsertTokenKeeps ==
    ASSUME SessionInv, NEW r \in Request, NEW t \in TokenId,
           InsertVerification(r, t) \/ InsertReset(r, t), UNCHANGED session
    PROVE  SessionInv' /\ RowsKept
  <1>1. PICK kind \in {"verify", "reset"} :
            /\ call[r].at \in {"insertVerification", "insertReset"}
            /\ IsFresh(token, t)
            /\ token' = [token EXCEPT ![t] = NewToken(kind, call[r].user)]
            /\ Go(r, [at |-> "mail", token |-> t])
            /\ UNCHANGED <<user, mailed, audited>>
    BY DEF InsertVerification, InsertReset, At
  <1> DEFINE row == NewToken(kind, call[r].user)
  <1>2. call[r].user \in UserId /\ Exists(user, call[r].user)
    BY <1>1, HandlerFields DEF SessionInv, HandlerLinked
  <1>3. row \in Token /\ row # NoRecord /\ row.user = call[r].user
    <2>1. row \in Token /\ row.user = call[r].user
      BY <1>2 DEF NewToken, Token
    <2> QED
      BY <2>1, Records DEF SessionInv
  <1> HIDE DEF row
  <1>4. /\ \A q \in TokenId : q # t => token'[q] = token[q]
        /\ token'[t] = row /\ token' \in [TokenId -> Token \cup {NoRecord}]
    BY <1>1, <1>3 DEF row, SessionInv, AccountsInv, AccountRowsOK
  <1>5. /\ \A q \in TokenId : Exists(token, q)' <=> Exists(token, q) \/ q = t
        /\ RowsKept
    BY <1>1, <1>3, <1>4 DEF IsFresh, RowsKept, UsersKept, TokensKept, SessionsKept, Exists
  <1>6. /\ SlotsOK' /\ call'[r] = [at |-> "mail", token |-> t] /\ scenario' = scenario
        /\ \A q \in Request : q # r => call'[q] = call[q]
    BY <1>1, GoMoves DEF SessionInv
  <1>7. HandlerLinked(call[r])'
    BY <1>5, <1>6 DEF HandlerLinked, SessionHandler
  <1>8. FamiliesInv'
    BY DEF SessionInv, FamiliesInv, Exists
  <1>9. ActiveWasVerified'
    BY <1>1, <1>5, ActiveKept DEF RowsKept, Exists
  <1>10. \A q \in TokenId : Exists(token, q)' => Exists(user, token[q].user)'
    BY <1>1, <1>2, <1>3, <1>4, <1>5 DEF SessionInv, AccountsInv, Exists
  <1>11. AccountsInv'
    BY <1>1, <1>4, <1>6, <1>9, <1>10 DEF SessionInv, AccountsInv, AccountRowsOK, Exists
  <1> QED
    BY <1>5, <1>6, <1>7, <1>8, <1>11, StepKeeps

\* Linking a user to Google, or verifying it, changes neither its e-mail nor whether it is there.
LEMMA UserWritten ==
    ASSUME SessionInv, NEW u \in UserId, NEW row \in User, Exists(user, u),
           row.email = user[u].email, user[u].google => row.google,
           user' = [user EXCEPT ![u] = row]
    PROVE  /\ user' \in [UserId -> User \cup {NoRecord}]
           /\ user'[u] = row
           /\ \A v \in UserId : v # u => user'[v] = user[v]
           /\ \A v \in UserId : Exists(user, v)' <=> Exists(user, v)
           /\ \A v \in UserId : Exists(user, v) => user'[v].email = user[v].email
           /\ UsersKept
  <1>1. /\ user \in [UserId -> User \cup {NoRecord}]
        /\ row # NoRecord
    BY Records DEF SessionInv, AccountsInv, AccountRowsOK
  <1> QED
    BY <1>1 DEF UsersKept, Exists

\* What of the users matters to the tokens and to each other.
LEMMA UserLinksKept ==
    ASSUME SessionInv, TokensKept,
           \A v \in UserId : Exists(user, v)' <=> Exists(user, v),
           \A v \in UserId : Exists(user, v) => user'[v].email = user[v].email,
           \A q \in TokenId : Exists(token, q)' => Exists(token, q)
    PROVE  /\ \A q \in TokenId : Exists(token, q)' => Exists(user, token[q].user)'
           /\ \A v, w \in UserId :
                  Exists(user, v)' /\ Exists(user, w)' /\ user'[v].email = user'[w].email => v = w
  <1>1. \A q \in TokenId : Exists(token, q) => token[q].user \in UserId
    BY Records DEF SessionInv, Token
  <1>2. ASSUME NEW q \in TokenId, Exists(token, q)'
        PROVE  Exists(user, token[q].user)'
    <2>1. Exists(token, q) /\ token'[q].user = token[q].user /\ token[q].user \in UserId
      BY <1>1, <1>2 DEF TokensKept
    <2>2. Exists(user, token[q].user)
      BY <2>1 DEF SessionInv, AccountsInv
    <2> QED
      BY <2>1, <2>2 DEF Exists
  <1> QED
    BY <1>2 DEF SessionInv, AccountsInv

\* The account of an e-mail is linked to Google.
LEMMA LinkKeeps ==
    ASSUME SessionInv, NEW r \in Request, Link(r), UNCHANGED session
    PROVE  SessionInv' /\ RowsKept
  <1> DEFINE u   == call[r].user
             row == [user[u] EXCEPT !.google = TRUE]
  <1>1. /\ u \in UserId /\ Exists(user, u)
        /\ call[r] \in [at : {"insertVerification", "insertReset", "link", "signIn"}, user : UserId]
    BY HandlerFields DEF Link, At, SessionInv, HandlerLinked
  <1>2. /\ row \in User /\ row.email = user[u].email /\ row.google /\ row.status = user[u].status
    <2>1. user[u] \in User
      BY <1>1, Records DEF SessionInv
    <2> QED
      BY <2>1 DEF User
  <1>3. user' = [user EXCEPT ![u] = row] /\ UNCHANGED <<token, mailed, audited>>
    BY DEF Link
  <1> HIDE DEF row
  <1>4. /\ user' \in [UserId -> User \cup {NoRecord}]
        /\ user'[u] = row
        /\ \A v \in UserId : v # u => user'[v] = user[v]
        /\ \A v \in UserId : Exists(user, v)' <=> Exists(user, v)
        /\ \A v \in UserId : Exists(user, v) => user'[v].email = user[v].email
        /\ UsersKept
    BY <1>1, <1>2, <1>3, UserWritten
  <1>5. RowsKept
    BY <1>3, <1>4 DEF RowsKept, TokensKept, SessionsKept, Exists
  <1>6. /\ SlotsOK' /\ call'[r] = [call[r] EXCEPT !.at = "signIn"] /\ scenario' = scenario
        /\ \A q \in Request : q # r => call'[q] = call[q]
    BY AtMoves, GoMoves DEF Link, SessionInv
  <1>7. HandlerLinked(call[r])'
    <2>1. call'[r] \in SessionHandler /\ call'[r].at = "signIn" /\ call'[r].user = u
      BY <1>1, <1>6 DEF SessionHandler
    <2> QED
      BY <1>1, <1>4, <2>1 DEF HandlerLinked
  <1>8. FamiliesInv'
    BY DEF SessionInv, FamiliesInv, Exists
  <1>9. ActiveWasVerified'
    BY <1>2, <1>4, <1>5, ActiveKept DEF RowsKept
  <1>10. AccountsInv'
    BY <1>3, <1>4, <1>5, <1>6, <1>9, UserLinksKept DEF SessionInv, AccountsInv, AccountRowsOK, RowsKept, Exists
  <1> QED
    BY <1>5, <1>6, <1>7, <1>8, <1>10, StepKeeps

\* A token that is used, or expires, stays the token it is.
LEMMA TokenWritten ==
    ASSUME SessionInv, NEW t \in TokenId, NEW row \in Token, Exists(token, t),
           row.user = token[t].user, row.kind = token[t].kind, token[t].used => row.used,
           token' = [token EXCEPT ![t] = row]
    PROVE  /\ token' \in [TokenId -> Token \cup {NoRecord}]
           /\ token'[t] = row
           /\ \A q \in TokenId : Exists(token, q)' <=> Exists(token, q)
           /\ TokensKept
  <1>1. /\ token \in [TokenId -> Token \cup {NoRecord}]
        /\ row # NoRecord
    BY Records DEF SessionInv, AccountsInv, AccountRowsOK
  <1> QED
    BY <1>1 DEF TokensKept, Exists

\* A handler goes on to the audit row.
LEMMA AuditLinked ==
    ASSUME NEW action \in AuditAction, NEW u \in UserId
    PROVE  HandlerLinked(Audit(action, u))
  BY DEF HandlerLinked, Audit, SessionHandler

\* A verification token is used, and its user ACTIVE, in one transaction.
LEMMA CommitVerifyKeeps ==
    ASSUME SessionInv, NEW r \in Request, CommitVerify(r), UNCHANGED session
    PROVE  SessionInv' /\ RowsKept
  <1> DEFINE t       == call[r].token
             u       == token[t].user
             usedRow == [token[t] EXCEPT !.used = TRUE]
             userRow == [user[u] EXCEPT !.status = "ACTIVE"]
  <1>1. t \in TokenId /\ Exists(token, t) /\ token[t].kind = "verify"
    BY HandlerFields DEF CommitVerify, At, SessionInv, HandlerLinked
  <1>2. token[t] \in Token /\ u \in UserId /\ Exists(user, u) /\ user[u] \in User
    <2>1. token[t] \in Token /\ Exists(user, u)
      BY <1>1, Records DEF SessionInv, AccountsInv
    <2>2. u \in UserId
      BY <2>1 DEF Token
    <2> QED
      BY <2>1, <2>2, Records DEF SessionInv
  <1>3. /\ usedRow \in Token /\ usedRow.user = u /\ usedRow.kind = "verify" /\ usedRow.used
        /\ userRow \in User /\ userRow.email = user[u].email /\ userRow.google = user[u].google
    BY <1>1, <1>2 DEF Token, User
  <1>4. /\ token' = [token EXCEPT ![t] = usedRow]
        /\ user' = [user EXCEPT ![u] = userRow]
        /\ UNCHANGED <<mailed, audited>>
        /\ Go(r, Audit("EMAIL_VERIFIED", u))
    BY DEF CommitVerify
  <1> HIDE DEF usedRow, userRow
  <1>5. /\ token' \in [TokenId -> Token \cup {NoRecord}] /\ token'[t] = usedRow
        /\ \A q \in TokenId : Exists(token, q)' <=> Exists(token, q)
        /\ TokensKept
    BY <1>1, <1>3, <1>4, TokenWritten
  <1>6. /\ user' \in [UserId -> User \cup {NoRecord}]
        /\ user'[u] = userRow
        /\ \A v \in UserId : v # u => user'[v] = user[v]
        /\ \A v \in UserId : Exists(user, v)' <=> Exists(user, v)
        /\ \A v \in UserId : Exists(user, v) => user'[v].email = user[v].email
        /\ UsersKept
    BY <1>2, <1>3, <1>4, UserWritten
  <1>7. RowsKept
    BY <1>5, <1>6 DEF RowsKept, SessionsKept, Exists
  <1>8. /\ SlotsOK' /\ call'[r] = Audit("EMAIL_VERIFIED", u) /\ scenario' = scenario
        /\ \A q \in Request : q # r => call'[q] = call[q]
    BY <1>4, GoMoves DEF SessionInv, Audit
  <1>9. HandlerLinked(call[r])'
    BY <1>2, <1>6, <1>8 DEF HandlerLinked, Audit, AuditAction, SessionHandler
  <1>10. FamiliesInv'
    BY DEF SessionInv, FamiliesInv, Exists
  <1>11. ActiveWasVerified'
    <2>1. ASSUME NEW v \in UserId, Exists(user, v)', user'[v].status = "ACTIVE"
          PROVE  \/ Exists(user, v) /\ user[v].status = "ACTIVE"
                 \/ \E q \in TokenId : /\ Exists(token, q)' /\ token'[q].user = v
                                       /\ token'[q].kind = "verify" /\ token'[q].used
      BY <1>1, <1>3, <1>5, <1>6, <2>1
    <2> QED
      BY <1>7, <2>1, ActiveKept DEF RowsKept
  <1>12. AccountsInv'
    BY <1>4, <1>5, <1>6, <1>8, <1>11, UserLinksKept DEF SessionInv, AccountsInv, AccountRowsOK
  <1> QED
    BY <1>7, <1>8, <1>9, <1>10, <1>12, StepKeeps

\* A token that is written, with no user: what it keeps.
LEMMA OnlyTokenWritten ==
    ASSUME SessionInv, NEW t \in TokenId, NEW row \in Token, Exists(token, t),
           row.user = token[t].user, row.kind = token[t].kind, token[t].used => row.used,
           token' = [token EXCEPT ![t] = row], UNCHANGED <<user, mailed, audited, scenario>>
    PROVE  AccountsInv' /\ UsersKept /\ TokensKept
  <1>1. /\ token' \in [TokenId -> Token \cup {NoRecord}] /\ token'[t] = row
        /\ \A q \in TokenId : Exists(token, q)' <=> Exists(token, q)
        /\ TokensKept
    BY TokenWritten
  <1>2. UsersKept
    BY DEF UsersKept, Exists
  <1>3. ActiveWasVerified'
    BY <1>1, <1>2, ActiveKept DEF Exists
  <1> QED
    BY <1>1, <1>2, <1>3, UserLinksKept DEF SessionInv, AccountsInv, AccountRowsOK, Exists

\* A token expires.
LEMMA ExpireKeeps ==
    ASSUME SessionInv, NEW t \in TokenId, Expire(t), UNCHANGED session
    PROVE  SessionInv' /\ RowsKept
  <1> DEFINE row == [token[t] EXCEPT !.expired = TRUE]
  <1>1. token[t] \in Token /\ Exists(token, t)
    BY Records DEF Expire, SessionInv
  <1>2. row \in Token /\ row.user = token[t].user /\ row.kind = token[t].kind /\ row.used = token[t].used
    BY <1>1 DEF Token
  <1>3. /\ token' = [token EXCEPT ![t] = row]
        /\ UNCHANGED <<user, mailed, audited, scenario, call>>
    BY DEF Expire, handlerVars
  <1> HIDE DEF row
  <1>4. AccountsInv' /\ UsersKept /\ TokensKept
    BY <1>1, <1>2, <1>3, OnlyTokenWritten
  <1>5. RowsKept /\ FamiliesInv'
    BY <1>4 DEF RowsKept, SessionsKept, SessionInv, FamiliesInv, Exists
  <1>6. ASSUME NEW q \in Request
        PROVE  HandlerLinked(call[q])'
    BY <1>3, <1>5, LinksKept DEF SessionInv, HandlerLinked, Exists
  <1> QED
    BY <1>3, <1>4, <1>5, <1>6 DEF SessionInv, SlotsOK

\* The mail and the audit row are all these write.
LEMMA FollowUpKeeps ==
    ASSUME SessionInv, NEW r \in Request, SendMail(r) \/ WriteAudit(r), UNCHANGED session
    PROVE  SessionInv' /\ RowsKept
  <1>1. UNCHANGED <<user, token, session>>
    BY DEF SendMail, WriteAudit
  <1>2. RowsKept /\ FamiliesInv' /\ ActiveWasVerified'
    BY <1>1 DEF RowsKept, UsersKept, TokensKept, SessionsKept, SessionInv, AccountsInv, FamiliesInv,
                ActiveWasVerified, Exists
  <1>3. CASE SendMail(r)
    <2> DEFINE t    == call[r].token
               next == IF token[t].kind = "verify" THEN Audit("USER_REGISTERED", token[t].user) ELSE Idle
    <2>1. t \in TokenId /\ Exists(token, t)
      BY <1>3, HandlerFields DEF SendMail, At, SessionInv, HandlerLinked
    <2>2. token[t].user \in UserId /\ Exists(user, token[t].user)
      BY <2>1, Records DEF SessionInv, AccountsInv, Token
    <2>3. HandlerLinked(next)
      BY <2>2, AuditLinked, IdleLinked DEF AuditAction
    <2>4. Go(r, next) /\ mailed' \subseteq TokenId /\ audited' = audited
      BY <1>3, <2>1 DEF SendMail, SessionInv, AccountsInv, AccountRowsOK
    <2>5. "at" \in DOMAIN next
      BY <2>3, HandlerFields DEF HandlerLinked
    <2> HIDE DEF next
    <2>6. /\ SlotsOK' /\ call'[r] = next /\ scenario' = scenario
          /\ \A q \in Request : q # r => call'[q] = call[q]
      BY <2>4, <2>5, GoMoves DEF SessionInv
    <2>7. HandlerLinked(call[r])'
      BY <1>1, <2>3, <2>6 DEF HandlerLinked, Exists
    <2>8. AccountsInv'
      BY <1>1, <1>2, <2>4, <2>6 DEF SessionInv, AccountsInv, AccountRowsOK, Exists
    <2> QED
      BY <1>2, <2>6, <2>7, <2>8, StepKeeps
  <1>4. CASE WriteAudit(r)
    <2> DEFINE u    == call[r].user
               next == IF call[r].action = "USER_REGISTERED_GOOGLE" THEN [at |-> "signIn", user |-> u] ELSE Idle
    <2>1. u \in UserId /\ call[r].action \in AuditAction
      BY <1>4, HandlerFields DEF WriteAudit, At, SessionInv, HandlerLinked
    <2>2. HandlerLinked(next)
      <3>1. HandlerLinked([at |-> "signIn", user |-> u])
        BY <2>1 DEF HandlerLinked, SessionHandler
      <3> QED
        BY <3>1, IdleLinked
    <2>3. Go(r, next) /\ mailed' = mailed /\ audited' \subseteq (AuditAction \X UserId)
      BY <1>4, <2>1 DEF WriteAudit, SessionInv, AccountsInv, AccountRowsOK
    <2>4. "at" \in DOMAIN next
      BY <2>2, HandlerFields DEF HandlerLinked
    <2> HIDE DEF next
    <2>5. /\ SlotsOK' /\ call'[r] = next /\ scenario' = scenario
          /\ \A q \in Request : q # r => call'[q] = call[q]
      BY <2>3, <2>4, GoMoves DEF SessionInv
    <2>6. HandlerLinked(call[r])'
      BY <1>1, <2>2, <2>5 DEF HandlerLinked, Exists
    <2>7. AccountsInv'
      BY <1>1, <1>2, <2>3, <2>5 DEF SessionInv, AccountsInv, AccountRowsOK, Exists
    <2> QED
      BY <1>2, <2>5, <2>6, <2>7, StepKeeps
  <1> QED
    BY <1>3, <1>4

-----------------------------------------------------------------------------
(* Steps that write refresh tokens. *)

\* An UPDATE of refresh tokens changes neither who is there nor whose and of which family.
SessionsUpdated ==
    /\ session' \in [SessionId -> Session \cup {NoRecord}]
    /\ \A s \in SessionId :
           /\ Exists(session, s)' <=> Exists(session, s)
           /\ Exists(session, s) =>
                  /\ session'[s].user = session[s].user /\ session'[s].family = session[s].family
                  /\ session[s].revoked => session'[s].revoked

\* Such an update keeps families as they are.
LEMMA UpdateKeeps ==
    ASSUME FamiliesInv, SessionsUpdated
    PROVE  /\ FamiliesInv' /\ SessionsKept
           /\ \A f \in SessionId : Family(f)' = Family(f)
  <1>1. \A s \in SessionId : Exists(session, s) => session[s].family \in SessionId
    BY DEF FamiliesInv, Exists, Session
  <1> QED
    BY <1>1 DEF FamiliesInv, SessionsUpdated, SessionsKept, Family

\* What Revoke does.
LEMMA RevokeUpdates ==
    ASSUME AccountsInv, FamiliesInv, NEW which, Revoke(which),
           \A s \in which : s \in SessionId => Exists(session, s)
    PROVE  /\ SessionsUpdated
           /\ \A s \in SessionId : s \in which => session'[s].revoked
  <1>1. ASSUME NEW s \in SessionId
        PROVE  /\ session'[s] \in Session \cup {NoRecord}
               /\ Exists(session, s)' <=> Exists(session, s)
               /\ Exists(session, s) =>
                      /\ session'[s].user = session[s].user /\ session'[s].family = session[s].family
                      /\ session[s].revoked => session'[s].revoked
               /\ s \in which => session'[s].revoked
    <2>1. CASE s \in which
      <3>1. session[s] \in Session /\ session'[s] = [session[s] EXCEPT !.revoked = TRUE]
        BY <2>1, Records DEF Revoke
      <3>2. /\ session'[s] \in Session /\ session'[s].user = session[s].user
            /\ session'[s].family = session[s].family /\ session'[s].revoked
        BY <3>1 DEF Session
      <3> QED
        BY <2>1, <3>1, <3>2, Records DEF Exists
    <2>2. CASE s \notin which
      BY <2>2 DEF Revoke, Exists, FamiliesInv
    <2> QED
      BY <2>1, <2>2
  <1> QED
    BY <1>1 DEF SessionsUpdated, Revoke

\* The row of one refresh token is written.
LEMMA OneUpdates ==
    ASSUME AccountsInv, FamiliesInv, NEW s \in SessionId, Exists(session, s),
           \/ session' = [session EXCEPT ![s].revoked = TRUE]
           \/ session' = [session EXCEPT ![s].expired = TRUE]
    PROVE  SessionsUpdated
  <1>1. session[s] \in Session /\ session \in [SessionId -> Session \cup {NoRecord}]
    BY Records DEF FamiliesInv
  <1>2. /\ session'[s] \in Session /\ session'[s].user = session[s].user
        /\ session'[s].family = session[s].family
        /\ session[s].revoked => session'[s].revoked
    BY <1>1 DEF Session
  <1>3. \A q \in SessionId : q # s => session'[q] = session[q]
    BY <1>1
  <1>4. session' \in [SessionId -> Session \cup {NoRecord}]
    <2>1. session' = [q \in SessionId |-> session'[q]]
      BY <1>1
    <2>2. \A q \in SessionId : session'[q] \in Session \cup {NoRecord}
      BY <1>1, <1>2, <1>3
    <2> QED
      BY <2>1, <2>2
  <1> QED
    BY <1>1, <1>2, <1>3, <1>4, Records DEF SessionsUpdated, Exists

\* A handler whose step writes refresh tokens only.
LEMMA SessionStepKeeps ==
    ASSUME SessionInv, NEW r \in Request, NEW h, Go(r, h), UNCHANGED accountVars,
           SessionsKept, FamiliesInv', HandlerLinked(h)
    PROVE  SessionInv' /\ RowsKept
  <1>1. "at" \in DOMAIN h
    BY HandlerFields DEF HandlerLinked
  <1>2. /\ SlotsOK' /\ call'[r] = h /\ scenario' = scenario
        /\ \A q \in Request : q # r => call'[q] = call[q]
    BY <1>1, GoMoves DEF SessionInv
  <1>3. AccountsInv' /\ RowsKept
    BY <1>2 DEF accountVars, SessionInv, AccountsInv, AccountRowsOK, ActiveWasVerified, RowsKept,
                UsersKept, TokensKept, Exists
  <1>4. HandlerLinked(call[r])'
    BY <1>2, <1>3, LinksKept DEF HandlerLinked, Exists
  <1> QED
    BY <1>2, <1>3, <1>4, StepKeeps

\* A refresh token is inserted: into a family of its own, or into that of another.
LEMMA NewSessionKeeps ==
    ASSUME AccountsInv, FamiliesInv, NEW s \in SessionId, NEW u \in UserId, NEW f \in SessionId,
           ~ Exists(session, s), NewSession(s, u, f),
           f = s \/ (Exists(session, f) /\ session[f].family = f /\ session[f].user = u)
    PROVE  /\ FamiliesInv' /\ SessionsKept
           /\ \A q \in SessionId : Exists(session, q)' <=> Exists(session, q) \/ q = s
           /\ \A q \in SessionId : q # s => session'[q] = session[q]
           /\ session'[s].user = u /\ session'[s].family = f
  <1> DEFINE row == [user |-> u, family |-> f, revoked |-> FALSE, expired |-> FALSE]
  <1>1. row \in Session /\ row.user = u /\ row.family = f
    BY DEF Session
  <1>2. row # NoRecord
    BY <1>1, Records
  <1>3. session' = [session EXCEPT ![s] = row]
    BY DEF NewSession
  <1> HIDE DEF row
  <1>4. /\ session' \in [SessionId -> Session \cup {NoRecord}] /\ session'[s] = row
        /\ \A q \in SessionId : q # s => session'[q] = session[q]
    BY <1>1, <1>3 DEF FamiliesInv
  <1>5. \A q \in SessionId : Exists(session, q)' <=> Exists(session, q) \/ q = s
    BY <1>2, <1>4 DEF Exists
  <1>6. ASSUME NEW q \in SessionId, Exists(session, q)'
        PROVE  /\ Exists(session, session[q].family)'
               /\ session'[session'[q].family].family = session'[q].family
               /\ session'[session'[q].family].user = session'[q].user
    <2>1. CASE q = s
      <3>1. session'[q] = row
        BY <1>4, <2>1
      <3>2. CASE f = s
        BY <1>1, <1>4, <1>5, <3>1, <3>2 DEF Exists
      <3>3. CASE f # s
        BY <1>1, <1>4, <1>5, <3>1, <3>3 DEF Exists
      <3> QED
        BY <3>2, <3>3
    <2>2. CASE q # s
      <3>1. /\ session'[q] = session[q] /\ Exists(session, q)
            /\ session[q].family \in SessionId
        BY <1>4, <1>5, <1>6, <2>2, Records DEF Session
      <3>2. /\ Exists(session, session[q].family)
            /\ session[session[q].family].family = session[q].family
            /\ session[session[q].family].user = session[q].user
        BY <3>1 DEF FamiliesInv
      <3>3. session[q].family # s
        BY <3>2
      <3> QED
        BY <1>4, <1>5, <3>1, <3>2, <3>3 DEF Exists
    <2> QED
      BY <2>1, <2>2
  <1>7. SessionsKept
    BY <1>4, <1>5 DEF SessionsKept
  <1> QED
    BY <1>1, <1>4, <1>5, <1>6, <1>7 DEF FamiliesInv

\* A sign-in: the first token of a new family.
LEMMA SignInKeeps ==
    ASSUME SessionInv, NEW r \in Request, NEW s \in SessionId, SignIn(r, s)
    PROVE  SessionInv' /\ RowsKept
  <1>1. call[r].user \in UserId
    BY HandlerFields DEF SignIn, At, SessionInv, HandlerLinked
  <1>2. ~ Exists(session, s) /\ NewSession(s, call[r].user, s) /\ UNCHANGED accountVars
    BY DEF SignIn, IsFresh
  <1>3. FamiliesInv' /\ SessionsKept
    <2>1. PICK u : u = call[r].user
      OBVIOUS
    <2> QED
      BY <1>1, <1>2, <2>1, NewSessionKeeps DEF SessionInv
  <1>4. HandlerLinked(Audit("USER_LOGIN", call[r].user))
    BY <1>1, AuditLinked DEF AuditAction
  <1> QED
    BY <1>2, <1>3, <1>4, SessionStepKeeps DEF SignIn

\* A successor joins the family of the token it replaces.
LEMMA InsertSuccessorKeeps ==
    ASSUME SessionInv, NEW r \in Request, NEW s \in SessionId, InsertSuccessor(r, s)
    PROVE  SessionInv' /\ RowsKept
  <1> DEFINE old == call[r].token
  <1>1. /\ old \in SessionId /\ Exists(session, old)
        /\ call[r] \in [at : {"revokeFamily", "insertSuccessor", "revokeOld"}, token : SessionId]
    BY HandlerFields DEF InsertSuccessor, At, SessionInv, HandlerLinked
  <1>2. session[old].user \in UserId /\ session[old].family \in SessionId
    BY <1>1, Records DEF SessionInv, Session
  <1>3. /\ ~ Exists(session, s) /\ NewSession(s, session[old].user, session[old].family)
        /\ UNCHANGED accountVars
    BY DEF InsertSuccessor, IsFresh
  <1>4. FamiliesInv' /\ SessionsKept
    <2>1. /\ Exists(session, session[old].family)
          /\ session[session[old].family].family = session[old].family
          /\ session[session[old].family].user = session[old].user
      BY <1>1 DEF SessionInv, FamiliesInv
    <2>2. PICK u, f : u = session[old].user /\ f = session[old].family
      OBVIOUS
    <2>3. u \in UserId /\ f \in SessionId /\ NewSession(s, u, f)
      BY <1>2, <1>3, <2>2
    <2> QED
      BY <1>3, <2>1, <2>2, <2>3, NewSessionKeeps DEF SessionInv
  <1>5. HandlerLinked([call[r] EXCEPT !.at = "revokeOld"])
    BY <1>1 DEF HandlerLinked, SessionHandler
  <1> QED
    BY <1>3, <1>4, <1>5, SessionStepKeeps DEF InsertSuccessor

\* Nobody is in a family, or has a session, that is not there.
LEMMA MembersAreThere ==
    /\ \A f : \A s \in Family(f) : s \in SessionId /\ Exists(session, s)
    /\ \A u : \A s \in SessionsOf(u) : s \in SessionId /\ Exists(session, s)
  BY DEF Family, SessionsOf

\* The revocations: of a family by a reuse, of the old token, at logout and everywhere.
LEMMA RevocationKeeps ==
    ASSUME SessionInv, NEW r \in Request,
           \/ RevokeFamily(r) \/ RevokeOld(r)
           \/ \E s \in SessionId : Logout(r, s)
           \/ \E u \in UserId : LogoutAll(r, u)
    PROVE  SessionInv' /\ RowsKept /\ SessionsUpdated
  <1> USE DEF SessionInv
  <1>1. CASE RevokeFamily(r)
    <2>1. SessionsUpdated
      BY <1>1, RevokeUpdates, MembersAreThere DEF RevokeFamily
    <2> QED
      BY <1>1, <2>1, UpdateKeeps, IdleLinked, SessionStepKeeps DEF RevokeFamily
  <1>2. CASE RevokeOld(r)
    <2>1. call[r].token \in SessionId /\ Exists(session, call[r].token)
      BY <1>2, HandlerFields DEF RevokeOld, At, HandlerLinked
    <2>2. SessionsUpdated
      BY <1>2, <2>1, OneUpdates DEF RevokeOld
    <2> QED
      BY <1>2, <2>2, UpdateKeeps, IdleLinked, SessionStepKeeps DEF RevokeOld
  <1>3. ASSUME NEW s \in SessionId, Logout(r, s)
        PROVE  SessionInv' /\ RowsKept /\ SessionsUpdated
    <2>1. SessionsUpdated
      BY <1>3, OneUpdates DEF Logout
    <2>2. session[s].user \in UserId
      BY <1>3, Records DEF Logout, Session
    <2>3. HandlerLinked(Audit("USER_LOGOUT", session[s].user))
      BY <2>2, AuditLinked DEF AuditAction
    <2> QED
      BY <1>3, <2>1, <2>3, UpdateKeeps, SessionStepKeeps DEF Logout, Begin
  <1>4. ASSUME NEW u \in UserId, LogoutAll(r, u)
        PROVE  SessionInv' /\ RowsKept /\ SessionsUpdated
    <2>1. SessionsUpdated
      BY <1>4, RevokeUpdates, MembersAreThere DEF LogoutAll
    <2>2. HandlerLinked(Audit("USER_LOGOUT_ALL", u))
      BY AuditLinked DEF AuditAction
    <2> QED
      BY <1>4, <2>1, <2>2, UpdateKeeps, SessionStepKeeps DEF LogoutAll, Begin
  <1> QED
    BY <1>1, <1>2, <1>3, <1>4

\* A reset: its token is used and the sessions of its user are revoked in one transaction.
LEMMA CommitResetKeeps ==
    ASSUME SessionInv, NEW r \in Request, CommitResetAndRevoke(r)
    PROVE  SessionInv' /\ RowsKept /\ SessionsUpdated
  <1> DEFINE t   == call[r].token
             row == [token[t] EXCEPT !.used = TRUE]
  <1>1. t \in TokenId /\ Exists(token, t)
    BY HandlerFields DEF CommitResetAndRevoke, CommitReset, At, SessionInv, HandlerLinked
  <1>2. token[t] \in Token /\ token[t].user \in UserId
    BY <1>1, Records DEF SessionInv, Token
  <1>3. row \in Token /\ row.user = token[t].user /\ row.kind = token[t].kind /\ row.used
    BY <1>2 DEF Token
  <1>4. /\ token' = [token EXCEPT ![t] = row]
        /\ UNCHANGED <<user, mailed, audited, scenario>>
        /\ Go(r, Audit("PASSWORD_RESET", token[t].user))
        /\ Revoke(SessionsOf(token[t].user))
    BY DEF CommitResetAndRevoke, CommitReset, Go
  <1> HIDE DEF row
  <1>5. AccountsInv' /\ UsersKept /\ TokensKept
    BY <1>1, <1>3, <1>4, OnlyTokenWritten
  <1>6. SessionsUpdated
    BY <1>4, RevokeUpdates, MembersAreThere DEF SessionInv
  <1>7. RowsKept /\ FamiliesInv'
    BY <1>5, <1>6, UpdateKeeps DEF RowsKept, SessionInv
  <1>8. /\ SlotsOK' /\ call'[r] = Audit("PASSWORD_RESET", token[t].user) /\ scenario' = scenario
        /\ \A q \in Request : q # r => call'[q] = call[q]
    BY <1>4, GoMoves DEF SessionInv, Audit
  <1>9. HandlerLinked(call[r])'
    BY <1>2, <1>8 DEF HandlerLinked, Audit, AuditAction, SessionHandler
  <1> QED
    BY <1>5, <1>6, <1>7, <1>8, <1>9, StepKeeps

\* A refresh token expires.
LEMMA ExpireSessionKeeps ==
    ASSUME SessionInv, NEW s \in SessionId, ExpireSession(s)
    PROVE  SessionInv' /\ RowsKept /\ SessionsUpdated
  <1>1. UNCHANGED <<user, token, mailed, audited, scenario, call>>
    BY DEF ExpireSession, accountVars, handlerVars
  <1>2. SessionsUpdated
    BY OneUpdates DEF ExpireSession, SessionInv
  <1>3. AccountsInv' /\ RowsKept /\ FamiliesInv'
    BY <1>1, <1>2, UpdateKeeps DEF SessionInv, AccountsInv, AccountRowsOK, ActiveWasVerified,
                                   RowsKept, UsersKept, TokensKept, Exists
  <1>4. ASSUME NEW q \in Request
        PROVE  HandlerLinked(call[q])'
    BY <1>1, <1>3, LinksKept DEF SessionInv, HandlerLinked, Exists
  <1> QED
    BY <1>1, <1>2, <1>3, <1>4 DEF SessionInv, SlotsOK

-----------------------------------------------------------------------------
(* The invariant holds. *)

\* Every step of the service keeps the invariant, and the rows.
LEMMA SessionInvNext ==
    ASSUME SessionInv, [SessionNext]_sessionVars
    PROVE  SessionInv' /\ RowsKept
  <1>1. ASSUME NEW r \in Request, SessionArrive(r)
        PROVE  SessionInv' /\ RowsKept
    <2>1. CASE AccountArrive(r) /\ UNCHANGED session
      <3>1. Unwritten
        BY <2>1 DEF AccountArrive, Unwritten, BeginRegister, BeginGoogleSignUp, BeginGoogleLogin,
                    BeginForgot, BeginVerify, BeginReset
      <3> QED
        BY <2>1, <3>1, ArriveKeeps DEF AccountArrive
    <2>2. ASSUME NEW u \in UserId, BeginLogin(r, u)
          PROVE  SessionInv' /\ RowsKept
      BY <2>2, ArriveKeeps DEF BeginLogin, Unwritten
    <2>3. ASSUME NEW s \in SessionId, BeginRefresh(r, s)
          PROVE  SessionInv' /\ RowsKept
      BY <2>3, ArriveKeeps DEF BeginRefresh, Unwritten
    <2>4. CASE (\E u \in UserId : LogoutAll(r, u)) \/ (\E s \in SessionId : Logout(r, s))
      BY <2>4, RevocationKeeps
    <2> QED
      BY <1>1, <2>1, <2>2, <2>3, <2>4 DEF SessionArrive
  <1>2. ASSUME NEW r \in Request, SessionProceed(r)
        PROVE  SessionInv' /\ RowsKept
    <2>1. CASE AccountProceedButReset(r) /\ UNCHANGED session
      <3>1. CASE EmailTaken(r)
        BY <2>1, <3>1, QuietStep, IdleLinked DEF EmailTaken, Unwritten
      <3> QED
        BY <2>1, <3>1, InsertUserKeeps, InsertTokenKeeps, FollowUpKeeps, LinkKeeps, CommitVerifyKeeps
           DEF AccountProceedButReset
    <2>2. CASE CommitResetAndRevoke(r)
      BY <2>2, CommitResetKeeps
    <2>3. CASE \E s \in SessionId : SignIn(r, s) \/ InsertSuccessor(r, s)
      BY <2>3, SignInKeeps, InsertSuccessorKeeps
    <2>4. CASE RevokeFamily(r) \/ RevokeOld(r)
      BY <2>4, RevocationKeeps
    <2> QED
      BY <1>2, <2>1, <2>2, <2>3, <2>4 DEF SessionProceed
  <1>3. ASSUME NEW r \in Request, Fail(r), UNCHANGED <<accountVars, session>>
        PROVE  SessionInv' /\ RowsKept
    BY <1>3, QuietStep, IdleLinked DEF Fail, Unwritten
  <1>4. CASE \E t \in TokenId : Expire(t) /\ UNCHANGED session
    BY <1>4, ExpireKeeps
  <1>5. CASE \E s \in SessionId : ExpireSession(s)
    BY <1>5, ExpireSessionKeeps
  <1>6. CASE UNCHANGED sessionVars
    <2>1. UNCHANGED <<call, scenario>> /\ Unwritten
      BY <1>6 DEF sessionVars, handlerVars, Unwritten
    <2>2. AccountsInv' /\ FamiliesInv' /\ RowsKept
      BY <2>1, UnwrittenKeeps
    <2>3. ASSUME NEW q \in Request
          PROVE  HandlerLinked(call[q])'
      BY <2>1, <2>2, LinksKept DEF SessionInv, HandlerLinked, Exists
    <2> QED
      BY <2>1, <2>2, <2>3 DEF SessionInv, SlotsOK
  <1> QED
    BY <1>1, <1>2, <1>3, <1>4, <1>5, <1>6 DEF SessionNext

\* The inductive invariant of accounts and sessions holds.
THEOREM SessionInvHolds == SessionSpec => []SessionInv
  <1>1. SessionInit => SessionInv
    BY SessionInvInit
  <1>2. SessionInv /\ [SessionNext]_sessionVars => SessionInv'
    BY SessionInvNext
  <1> QED
    BY <1>1, <1>2, PTL DEF SessionSpec

-----------------------------------------------------------------------------
(* What the runs check. *)

\* Rows and handlers are well typed and an e-mail address has one account, whichever
\* calls of register and of Google sign-in found it free.
THEOREM SessionTypesHold == SessionSpec => []SessionTypeOK
  <1>1. ASSUME SessionInv
        PROVE  OneAccountPerEmail
    <2> SUFFICES ASSUME NEW e \in Email
                 PROVE  Cardinality(UsersOf(e)) <= 1
      BY DEF OneAccountPerEmail
    <2>1. CASE UsersOf(e) = {}
      BY <2>1, FS_EmptySet
    <2>2. ASSUME NEW u \in UsersOf(e)
          PROVE  Cardinality(UsersOf(e)) <= 1
      <3>1. UsersOf(e) = {u}
        BY <1>1, <2>2 DEF UsersOf, SessionInv, AccountsInv
      <3>2. Cardinality({u}) = 1
        BY FS_Singleton
      <3> QED
        BY <3>1, <3>2
    <2> QED
      BY <2>1, <2>2
  <1>2. SessionInv => SessionTypeOK
    BY <1>1 DEF SessionInv, SessionTypeOK, AccountsInv, FamiliesInv, HandlerLinked, SlotsOK
  <1> QED
    BY <1>2, SessionInvHolds, PTL

\* Nobody's account is ACTIVE without Google or a verification token that was used.
THEOREM ActiveUsersWereVerified == SessionSpec => []ActiveWasVerified
  <1>1. SessionInv => ActiveWasVerified
    BY DEF SessionInv, AccountsInv
  <1> QED
    BY <1>1, SessionInvHolds, PTL

-----------------------------------------------------------------------------
(* Who comes to hold a token, and where refresh tokens come from. *)

\* The steps that act on a token that was checked earlier.
Acting == {"verify", "reset", "insertSuccessor"}

\* A handler that goes on to another step.
LEMMA GoUntouched ==
    ASSUME SlotsOK, NEW r \in Request, NEW h, "at" \in DOMAIN h, h.at \notin Acting, Go(r, h)
    PROVE  Untouched(Acting)
  BY GoMoves DEF Untouched

\* A handler comes to act on a token only by a call that has just checked it.
LEMMA HoldersChecked ==
    ASSUME SessionInv, [SessionNext]_sessionVars
    PROVE  \/ Untouched(Acting)
           \/ \E r \in Request, t \in TokenId : BeginVerify(r, t) \/ BeginReset(r, t)
           \/ \E r \in Request, s \in SessionId : BeginRefresh(r, s)
  <1> SUFFICES ASSUME ~ \E r \in Request, t \in TokenId : BeginVerify(r, t) \/ BeginReset(r, t),
                      ~ \E r \in Request, s \in SessionId : BeginRefresh(r, s)
               PROVE  Untouched(Acting)
    OBVIOUS
  <1> SlotsOK
    BY DEF SessionInv
  <1>1. ASSUME NEW r \in Request, NEW action, NEW u, Go(r, Audit(action, u))
        PROVE  Untouched(Acting)
    BY <1>1, GoUntouched DEF Acting, Audit
  <1>2. ASSUME NEW r \in Request, Go(r, Idle)
        PROVE  Untouched(Acting)
    BY <1>2, GoUntouched DEF Acting, Idle
  <1>3. ASSUME NEW r \in Request, NEW step, NEW u, step \notin Acting, Go(r, [at |-> step, user |-> u])
        PROVE  Untouched(Acting)
    BY <1>3, GoUntouched
  <1>4. ASSUME NEW r \in Request, NEW step, step \notin Acting, Go(r, [call[r] EXCEPT !.at = step])
        PROVE  Untouched(Acting)
    BY <1>4, AtMoves, GoUntouched
  <1>5. ASSUME NEW r \in Request, SessionArrive(r)
        PROVE  Untouched(Acting)
    <2>1. ASSUME NEW e, BeginRegister(r, e) \/ BeginGoogleSignUp(r, e)
          PROVE  Untouched(Acting)
      BY <2>1, GoUntouched DEF BeginRegister, BeginGoogleSignUp, Begin, Acting
    <2>2. ASSUME NEW u, BeginGoogleLogin(r, u) \/ BeginForgot(r, u) \/ BeginLogin(r, u)
          PROVE  Untouched(Acting)
      BY <1>3, <2>2 DEF BeginGoogleLogin, BeginForgot, BeginLogin, Begin, Acting
    <2>3. ASSUME NEW s, LogoutAll(r, s) \/ Logout(r, s)
          PROVE  Untouched(Acting)
      BY <1>1, <2>3 DEF LogoutAll, Logout, Begin
    <2> QED
      BY <1>5, <2>1, <2>2, <2>3 DEF SessionArrive, AccountArrive
  <1>6. ASSUME NEW r \in Request, SessionProceed(r)
        PROVE  Untouched(Acting)
    <2>1. ASSUME NEW u, InsertUser(r, u)
          PROVE  Untouched(Acting)
      BY <1>1, <1>3, <2>1 DEF InsertUser, Acting
    <2>2. ASSUME NEW t, InsertVerification(r, t) \/ InsertReset(r, t)
          PROVE  Untouched(Acting)
      BY <2>2, GoUntouched DEF InsertVerification, InsertReset, Acting
    <2>3. CASE SendMail(r) \/ WriteAudit(r)
      BY <1>1, <1>2, <1>3, <2>3 DEF SendMail, WriteAudit, Acting
    <2>4. CASE Link(r)
      BY <1>4, <2>4 DEF Link, Acting
    <2>5. CASE EmailTaken(r) \/ RevokeFamily(r) \/ RevokeOld(r)
      BY <1>2, <2>5 DEF EmailTaken, RevokeFamily, RevokeOld
    <2>6. CASE CommitVerify(r) \/ CommitResetAndRevoke(r)
      BY <1>1, <2>6 DEF CommitVerify, CommitResetAndRevoke, CommitReset
    <2>7. ASSUME NEW s, SignIn(r, s)
          PROVE  Untouched(Acting)
      BY <1>1, <2>7 DEF SignIn
    <2>8. ASSUME NEW s, InsertSuccessor(r, s)
          PROVE  Untouched(Acting)
      BY <1>4, <2>8 DEF InsertSuccessor, Acting
    <2> QED
      BY <1>6, <2>1, <2>2, <2>3, <2>4, <2>5, <2>6, <2>7, <2>8
         DEF SessionProceed, AccountProceedButReset
  <1>7. ASSUME NEW r \in Request, Fail(r)
        PROVE  Untouched(Acting)
    BY <1>2, <1>7 DEF Fail
  <1>8. CASE \/ UNCHANGED sessionVars
             \/ \E t \in TokenId : Expire(t)
             \/ \E s \in SessionId : ExpireSession(s)
    BY <1>8 DEF sessionVars, handlerVars, Expire, ExpireSession, Untouched, SlotsOK
  <1> QED
    BY <1>5, <1>6, <1>7, <1>8 DEF SessionNext

\* A one-time token that is used, and that no handler holds, is spent for good.
THEOREM SpentTokensStaySpent == SessionSpec => SpentStays
  <1>1. ASSUME SessionInv, [SessionNext]_sessionVars, NEW t \in TokenId, Spent(t)
        PROVE  Spent(t)'
    <2>1. RowsKept
      BY <1>1, SessionInvNext
    <2>2. Exists(token, t)' /\ token'[t].used
      BY <1>1, <2>1 DEF RowsKept, TokensKept, Spent
    <2>3. ~ Valid(t, "verify") /\ ~ Valid(t, "reset")
      BY <1>1 DEF Spent, Valid
    <2>4. ASSUME NEW q \in Request, call'[q].at \in {"verify", "reset"}, call'[q].token = t
          PROVE  FALSE
      <3>1. CASE Untouched(Acting)
        BY <1>1, <2>4, <3>1 DEF Untouched, Acting, Spent, At
      <3>2. ASSUME NEW r \in Request, NEW d \in TokenId, BeginVerify(r, d) \/ BeginReset(r, d)
            PROVE  FALSE
        <4>1. PICK step \in {"verify", "reset"} :
                  Valid(d, step) /\ Go(r, [at |-> step, token |-> d])
          BY <3>2 DEF BeginVerify, BeginReset, Begin
        <4>2. call'[r].token = d /\ \A p \in Request : p # r => call'[p] = call[p]
          BY <1>1, <4>1, GoMoves DEF SessionInv
        <4> QED
          BY <1>1, <2>3, <2>4, <4>1, <4>2 DEF Spent, At
      <3>3. ASSUME NEW r \in Request, NEW s \in SessionId, BeginRefresh(r, s)
            PROVE  FALSE
        <4>1. PICK step \in {"revokeFamily", "insertSuccessor"} : Go(r, [at |-> step, token |-> s])
          BY <3>3 DEF BeginRefresh, Begin
        <4>2. call'[r].at = step /\ \A p \in Request : p # r => call'[p] = call[p]
          BY <1>1, <4>1, GoMoves DEF SessionInv
        <4> QED
          BY <1>1, <2>4, <4>1, <4>2 DEF Spent, At
      <3> QED
        BY <1>1, <3>1, <3>2, <3>3, HoldersChecked
    <2> QED
      BY <2>2, <2>4 DEF Spent, At
  <1>2. SessionInv /\ [SessionNext]_sessionVars
            => [\A t \in TokenId : Spent(t) => Spent(t)']_<<handlerVars, accountVars>>
    BY <1>1
  <1> QED
    BY <1>2, SessionInvHolds, PTL DEF SessionSpec, SpentStays

\* Every refresh token that a step brings starts a family, or is the successor of the
\* token that a handler holds.
LEMMA NewSessionsSucceed ==
    ASSUME SessionInv, [SessionNext]_sessionVars, NEW s \in SessionId,
           Exists(session, s)', ~ Exists(session, s)
    PROVE  \/ session'[s].family = s
           \/ \E r \in Request : /\ At(r, "insertSuccessor") /\ call[r].token \in SessionId
                                 /\ Exists(session, call[r].token)
                                 /\ session'[s].family = session[call[r].token].family
  <1> ~ SessionsUpdated /\ session' # session
    BY DEF SessionsUpdated, Exists
  <1>1. session \in [SessionId -> Session \cup {NoRecord}]
    BY DEF SessionInv, FamiliesInv
  <1>2. ASSUME NEW q \in SessionId, NEW u, NEW f, NewSession(q, u, f)
        PROVE  q = s /\ session'[s].family = f
    BY <1>1, <1>2 DEF NewSession, Exists
  <1>3. ASSUME NEW r \in Request, NEW q \in SessionId, SignIn(r, q)
        PROVE  session'[s].family = s
    BY <1>2, <1>3 DEF SignIn
  <1>4. ASSUME NEW r \in Request, NEW q \in SessionId, InsertSuccessor(r, q)
        PROVE  /\ At(r, "insertSuccessor") /\ call[r].token \in SessionId
               /\ Exists(session, call[r].token)
               /\ session'[s].family = session[call[r].token].family
    <2>1. At(r, "insertSuccessor") /\ session'[s].family = session[call[r].token].family
      BY <1>2, <1>4 DEF InsertSuccessor
    <2>2. call[r].token \in SessionId /\ Exists(session, call[r].token)
      BY <2>1, HandlerFields DEF At, SessionInv, HandlerLinked
    <2> QED
      BY <2>1, <2>2
  <1>5. ASSUME NEW r \in Request, SessionArrive(r)
        PROVE  FALSE
    BY <1>5, RevocationKeeps DEF SessionArrive, BeginLogin, BeginRefresh
  <1>6. ASSUME NEW r \in Request, SessionProceed(r)
        PROVE  \E q \in SessionId : SignIn(r, q) \/ InsertSuccessor(r, q)
    BY <1>6, RevocationKeeps, CommitResetKeeps DEF SessionProceed
  <1>7. ~ (UNCHANGED sessionVars) /\ ~ \E q \in SessionId : ExpireSession(q)
    BY ExpireSessionKeeps DEF sessionVars
  <1> QED
    BY <1>3, <1>4, <1>5, <1>6, <1>7 DEF SessionNext

\* The families after a step: members stay, and none joins a dead one.
LEMMA DeadFamilyKeeps ==
    ASSUME SessionInv, [SessionNext]_sessionVars, NEW f \in SessionId, Dead(f)
    PROVE  Family(f)' = Family(f) /\ \A s \in Family(f) : session'[s].revoked
  <1>1. SessionsKept
    BY SessionInvNext DEF RowsKept
  <1>2. Exists(session, f)
    BY DEF Dead, Family, SessionInv, FamiliesInv
  <1>3. ASSUME NEW s \in SessionId, Exists(session, s)', session'[s].family = f
        PROVE  Exists(session, s)
    BY <1>2, <1>3, NewSessionsSucceed DEF Dead, Family
  <1>4. \A s \in SessionId : s \in Family(f)' <=> s \in Family(f)
    BY <1>1, <1>3 DEF Family, SessionsKept
  <1>5. Family(f)' = Family(f)
    BY <1>4 DEF Family
  <1> QED
    BY <1>1, <1>5 DEF Dead, Live, Family, SessionsKept

\* Whatever killed a family of sessions, by rotation, logout, expiry or reset: no
\* sequence of calls revives it.
THEOREM DeadFamiliesStayDead == SessionSpec => DeadFamilyStays
  <1>1. ASSUME SessionInv, [SessionNext]_sessionVars, NEW f \in SessionId, Dead(f)
        PROVE  Dead(f)'
    <2>1. Family(f)' = Family(f) /\ \A s \in Family(f) : session'[s].revoked
      BY <1>1, DeadFamilyKeeps
    <2>2. ASSUME NEW q \in Request, call'[q].at = "insertSuccessor", call'[q].token \in Family(f)
          PROVE  FALSE
      <3>1. CASE Untouched(Acting)
        BY <1>1, <2>2, <3>1 DEF Untouched, Acting, Dead, At
      <3>2. ASSUME NEW r \in Request, NEW t \in TokenId, BeginVerify(r, t) \/ BeginReset(r, t)
            PROVE  FALSE
        <4>1. PICK step \in {"verify", "reset"} : Go(r, [at |-> step, token |-> t])
          BY <3>2 DEF BeginVerify, BeginReset, Begin
        <4>2. call'[r].at = step /\ \A p \in Request : p # r => call'[p] = call[p]
          BY <1>1, <4>1, GoMoves DEF SessionInv
        <4> QED
          BY <1>1, <2>2, <4>1, <4>2 DEF Dead, At
      <3>3. ASSUME NEW r \in Request, NEW s \in SessionId, BeginRefresh(r, s)
            PROVE  FALSE
        <4>1. PICK step : /\ Go(r, [at |-> step, token |-> s])
                          /\ Exists(session, s)
                          /\ step = "insertSuccessor" => ~ session[s].revoked
          BY <3>3 DEF BeginRefresh, Begin
        <4>2. /\ call'[r].at = step /\ call'[r].token = s
              /\ \A p \in Request : p # r => call'[p] = call[p]
          BY <1>1, <4>1, GoMoves DEF SessionInv
        <4> QED
          BY <1>1, <2>2, <4>1, <4>2 DEF Dead, At, Live
      <3> QED
        BY <1>1, <3>1, <3>2, <3>3, HoldersChecked
    <2> QED
      BY <1>1, <2>1, <2>2 DEF Dead, At, Live
  <1>2. SessionInv /\ [SessionNext]_sessionVars
            => [\A f \in SessionId : Dead(f) => Dead(f)']_sessionVars
    BY <1>1
  <1> QED
    BY <1>2, SessionInvHolds, PTL DEF SessionSpec, DeadFamilyStays

\* Only the handler of a reset makes its last step, and revokes the sessions.
LEMMA ResetRevokes ==
    ASSUME SessionInv, [SessionNext]_sessionVars, NEW r \in Request, CommitReset(r)
    PROVE  CommitResetAndRevoke(r)
  <1> DEFINE done == Audit("PASSWORD_RESET", token[call[r].token].user)
  <1>1. /\ call[r].at = "reset" /\ call'[r] = done /\ done.at = "audit"
        /\ \A q \in Request : q # r => call'[q] = call[q]
    BY GoMoves DEF CommitReset, At, SessionInv, Audit
  <1> HIDE DEF done
  <1>2. call' # call
    BY <1>1
  <1>3. ASSUME NEW q \in Request, SessionArrive(q)
        PROVE  FALSE
    <2>1. PICK h : call[q] = Idle /\ Go(q, h)
      BY <1>3 DEF SessionArrive, AccountArrive, BeginRegister, BeginGoogleSignUp, BeginGoogleLogin,
                  BeginForgot, BeginVerify, BeginReset, BeginLogin, BeginRefresh, LogoutAll, Logout, Begin
    <2>2. q # r
      BY <1>1, <2>1 DEF Idle
    <2> QED
      BY <1>1, <2>1, <2>2 DEF Go, SessionInv, SlotsOK
  <1>4. ASSUME NEW q \in Request, Fail(q)
        PROVE  FALSE
    <2>1. q # r
      BY <1>1, <1>4 DEF Fail, Go, Idle, SessionInv, SlotsOK
    <2> QED
      BY <1>1, <1>4, <2>1 DEF Fail, Go, SessionInv, SlotsOK
  <1>5. ASSUME NEW q \in Request, SessionProceed(q)
        PROVE  CommitResetAndRevoke(r)
    <2>1. PICK h : Go(q, h)
      BY <1>5 DEF SessionProceed, AccountProceedButReset, InsertUser, EmailTaken, InsertVerification,
                  InsertReset, SendMail, Link, CommitVerify, WriteAudit, CommitResetAndRevoke, CommitReset,
                  SignIn, InsertSuccessor, RevokeFamily, RevokeOld
    <2>2. CASE q = r
      BY <1>1, <1>5, <2>2 DEF SessionProceed, AccountProceedButReset, InsertUser, EmailTaken,
                  InsertVerification, InsertReset, SendMail, Link, CommitVerify, WriteAudit, SignIn,
                  InsertSuccessor, RevokeFamily, RevokeOld, At
    <2>3. CASE q # r
      BY <1>1, <2>1, <2>3 DEF Go, SessionInv, SlotsOK
    <2> QED
      BY <2>2, <2>3
  <1>6. /\ ~ UNCHANGED sessionVars
        /\ ~ \E t \in TokenId : Expire(t)
        /\ ~ \E s \in SessionId : ExpireSession(s)
    BY <1>2 DEF sessionVars, handlerVars, Expire, ExpireSession
  <1> QED
    BY <1>3, <1>4, <1>5, <1>6 DEF SessionNext

\* Revoking the sessions of a user kills their families, but for refreshes on their way.
LEMMA RevokedEverywhere ==
    ASSUME SessionInv, NEW u, Revoke(SessionsOf(u)), NEW r \in Request,
           call'[r].at = "audit", \A q \in Request : q # r => call'[q] = call[q],
           NEW s \in SessionId, Exists(session, s)', session'[s].user = u
    PROVE  \/ Dead(session[s].family)'
           \/ \E q \in Request : At(q, "insertSuccessor") /\ call[q].token \in Family(session[s].family)
  <1>1. PICK f : f = session[s].family
    OBVIOUS
  <1>2. SessionsUpdated /\ \A m \in SessionId : m \in SessionsOf(u) => session'[m].revoked
    BY RevokeUpdates, MembersAreThere DEF SessionInv
  <1>3. Exists(session, s) /\ session'[s].family = f /\ session[s].user = u
    BY <1>1, <1>2 DEF SessionsUpdated
  <1>4. session[f].user = u /\ f \in SessionId
    BY <1>1, <1>3, Records DEF SessionInv, FamiliesInv, Session
  <1>5. Family(f)' = Family(f) /\ s \in Family(f)
    BY <1>1, <1>2, <1>3, <1>4, UpdateKeeps DEF SessionInv, Family
  <1>6. ASSUME NEW m \in Family(f)
        PROVE  session'[m].revoked
    <2>1. m \in SessionId /\ Exists(session, m) /\ session[m].family = f
      BY <1>6 DEF Family
    <2>2. session[m].user = u
      BY <1>4, <2>1 DEF SessionInv, FamiliesInv
    <2> QED
      BY <1>2, <2>1, <2>2 DEF SessionsOf
  <1>7. ASSUME NEW q \in Request, call'[q].at = "insertSuccessor", call'[q].token \in Family(f)
        PROVE  At(q, "insertSuccessor") /\ call[q].token \in Family(f)
    BY <1>7 DEF At
  <1>8. \/ Dead(f)'
        \/ \E q \in Request : At(q, "insertSuccessor") /\ call[q].token \in Family(f)
    BY <1>5, <1>6, <1>7 DEF Dead, Live, At
  <1>9. Dead(f)' = Dead(session[s].family)'
    BY <1>3
  <1> QED
    BY <1>1, <1>8, <1>9

\* Logout-all and a password reset leave a user with no session but those of a refresh
\* or a sign-in that was already on its way.
THEOREM EverySessionIsRevoked == SessionSpec => SignedOutEverywhere
  <1>1. ASSUME SessionInv, [SessionNext]_sessionVars, NEW u \in UserId, NEW r \in Request,
               LogoutAll(r, u) \/ (CommitReset(r) /\ token[call[r].token].user = u),
               NEW s \in SessionId, Exists(session, s)', session'[s].user = u
        PROVE  \/ Dead(session[s].family)'
               \/ \E q \in Request : At(q, "insertSuccessor") /\ call[q].token \in Family(session[s].family)
    <2>1. Revoke(SessionsOf(u))
      BY <1>1, ResetRevokes DEF LogoutAll, CommitResetAndRevoke
    <2>2. PICK action : Go(r, Audit(action, u))
      BY <1>1 DEF LogoutAll, CommitReset, Begin
    <2>3. call'[r].at = "audit" /\ \A q \in Request : q # r => call'[q] = call[q]
      BY <1>1, <2>2, GoMoves DEF SessionInv, Audit
    <2> QED
      BY <1>1, <2>1, <2>3, RevokedEverywhere
  <1>2. SessionInv /\ [SessionNext]_sessionVars =>
          [\A u \in UserId :
               (\E r \in Request : LogoutAll(r, u) \/ (CommitReset(r) /\ token[call[r].token].user = u)) =>
                   \A s \in SessionId : Exists(session, s)' /\ session'[s].user = u =>
                       \/ Dead(session[s].family)'
                       \/ \E r \in Request : At(r, "insertSuccessor") /\ call[r].token \in Family(session[s].family)
          ]_sessionVars
    BY <1>1
  <1> QED
    BY <1>2, SessionInvHolds, PTL DEF SessionSpec, SignedOutEverywhere

=============================================================================
