------------------------------ MODULE Accounts ------------------------------
(***************************************************************************)
(* AuthService over "users", "email_verification_tokens" and               *)
(* "password_reset_tokens": registering, signing in with Google, verifying *)
(* the e-mail and resetting the password.  Sessions adds the tokens of     *)
(* those who are signed in.                                                *)
(*                                                                         *)
(* A Google identity stands for its verified e-mail (Google does not issue *)
(* one e-mail to two subjects).  No operation suspends, deactivates or     *)
(* deletes a user, so the checks against that always pass.                 *)
(***************************************************************************)
EXTENDS Handlers, Naturals, FiniteSets

CONSTANTS
    Email,      \* e-mail addresses
    MaxUsers,   \* bound on the user rows of this instance
    MaxTokens   \* bound on its rows of one-time tokens

\* A scenario also has: emails, the e-mails its clients use; tokens, a bound on its
\* rows of one-time tokens; watched, the audit actions it keeps.

ASSUME AccountBoundAssumption ==
    /\ MaxUsers \in Nat /\ MaxTokens \in Nat
    /\ \A s \in Scenario : s.emails \subseteq Email

VARIABLES
    user,       \* user rows
    token,      \* one-time token rows of both kinds
    mailed,     \* the one-time tokens that were sent by e-mail
    audited     \* audit rows, as <<action, user>>

accountVars == <<user, token, mailed, audited>>

UserId  == 1 .. MaxUsers
TokenId == 1 .. MaxTokens

User  == [email : Email, status : {"PENDING_VERIFICATION", "ACTIVE"}, google : BOOLEAN]
Token == [kind : {"verify", "reset"}, user : UserId, used : BOOLEAN, expired : BOOLEAN]

NoRecord == [status |-> "ABSENT"]

Exists(rows, id) == rows[id] # NoRecord

\* Rows are inserted under the lowest id that is free.
IsFresh(rows, id) ==
    ~ Exists(rows, id) /\ \A i \in DOMAIN rows : i < id => Exists(rows, i)

UsersOf(e) == {u \in UserId : Exists(user, u) /\ user[u].email = e}

\* What an unused token of this kind is good for.
Valid(t, kind) ==
    Exists(token, t) /\ token[t].kind = kind /\ ~ token[t].used /\ ~ token[t].expired

\* The actions the service records; USER_LOGIN stands for those of three ways to sign in.
AuditAction == {"USER_REGISTERED", "USER_REGISTERED_GOOGLE", "EMAIL_VERIFIED", "PASSWORD_RESET",
                "USER_LOGIN", "USER_LOGOUT", "USER_LOGOUT_ALL"}

Audit(action, u) == [at |-> "audit", action |-> action, user |-> u]

-----------------------------------------------------------------------------
(***************************************************************************)
(* POST /auth/register: the e-mail is looked up, the password hashed, and  *)
(* the row inserted under the unique e-mail; then the verification token,  *)
(* its mail and the audit row.                                             *)
(***************************************************************************)
BeginRegister(r, e) ==
    /\ UsersOf(e) = {}
    /\ Begin(r, "register", [at |-> "insertUser", email |-> e, google |-> FALSE])
    /\ UNCHANGED accountVars

\* POST /auth/google with a role: nobody has the identity or the e-mail.
BeginGoogleSignUp(r, e) ==
    /\ UsersOf(e) = {}
    /\ Begin(r, "google", [at |-> "insertUser", email |-> e, google |-> TRUE])
    /\ UNCHANGED accountVars

\* Slip: the lookup is all that keeps e-mails apart.
InsertUserAnyway(r, u) ==
    /\ At(r, "insertUser")
    /\ IsFresh(user, u)
    /\ user' = [user EXCEPT ![u] =
           [email |-> call[r].email, google |-> call[r].google,
            status |-> IF call[r].google THEN "ACTIVE" ELSE "PENDING_VERIFICATION"]]
    /\ Go(r, IF call[r].google THEN Audit("USER_REGISTERED_GOOGLE", u)
                               ELSE [at |-> "insertVerification", user |-> u])
    /\ UNCHANGED <<token, mailed, audited>>

InsertUser(r, u) ==
    /\ At(r, "insertUser")
    /\ UsersOf(call[r].email) = {}
    /\ IsFresh(user, u)
    /\ user' = [user EXCEPT ![u] =
           [email |-> call[r].email, google |-> call[r].google,
            status |-> IF call[r].google THEN "ACTIVE" ELSE "PENDING_VERIFICATION"]]
    /\ Go(r, IF call[r].google THEN Audit("USER_REGISTERED_GOOGLE", u)
                               ELSE [at |-> "insertVerification", user |-> u])
    /\ UNCHANGED <<token, mailed, audited>>

EmailTaken(r) ==
    /\ At(r, "insertUser")
    /\ UsersOf(call[r].email) # {}
    /\ Go(r, Idle)
    /\ UNCHANGED accountVars

NewToken(kind, u) == [kind |-> kind, user |-> u, used |-> FALSE, expired |-> FALSE]

\* Slip: the mail is not sent.
InsertVerificationUnsent(r, t) ==
    /\ At(r, "insertVerification")
    /\ IsFresh(token, t) /\ t <= scenario.tokens
    /\ token' = [token EXCEPT ![t] = NewToken("verify", call[r].user)]
    /\ Go(r, Audit("USER_REGISTERED", call[r].user))
    /\ UNCHANGED <<user, mailed, audited>>

InsertVerification(r, t) ==
    /\ At(r, "insertVerification")
    /\ IsFresh(token, t) /\ t <= scenario.tokens
    /\ token' = [token EXCEPT ![t] = NewToken("verify", call[r].user)]
    /\ Go(r, [at |-> "mail", token |-> t])
    /\ UNCHANGED <<user, mailed, audited>>

\* sendVerificationEmail goes on to the audit row, sendPasswordResetEmail is last.
SendMail(r) ==
    /\ At(r, "mail")
    /\ mailed' = mailed \cup {call[r].token}
    /\ Go(r, IF token[call[r].token].kind = "verify"
               THEN Audit("USER_REGISTERED", token[call[r].token].user) ELSE Idle)
    /\ UNCHANGED <<user, token, audited>>

(***************************************************************************)
(* POST /auth/google for an e-mail that has an account: a password account *)
(* is linked, whatever its status, and the status stays what it is.        *)
(***************************************************************************)
BeginGoogleLogin(r, u) ==
    /\ Exists(user, u)
    /\ Begin(r, "google", [at |-> IF user[u].google THEN "signIn" ELSE "link", user |-> u])
    /\ UNCHANGED accountVars

Link(r) ==
    /\ At(r, "link")
    /\ user' = [user EXCEPT ![call[r].user].google = TRUE]
    /\ Go(r, [call[r] EXCEPT !.at = "signIn"])
    /\ UNCHANGED <<token, mailed, audited>>

(***************************************************************************)
(* POST /auth/verify-email: the token is checked on the row that was read  *)
(* and marked used together with the user, by their ids.                   *)
(***************************************************************************)
\* Slip: usedAt is not looked at.
BeginVerifyAgain(r, t) ==
    /\ Exists(token, t) /\ token[t].kind = "verify" /\ ~ token[t].expired
    /\ Begin(r, "verify", [at |-> "verify", token |-> t])
    /\ UNCHANGED accountVars

BeginVerify(r, t) ==
    /\ Valid(t, "verify")
    /\ Begin(r, "verify", [at |-> "verify", token |-> t])
    /\ UNCHANGED accountVars

\* Slip: the token is left as it is.
CommitVerifyKeepsToken(r) ==
    /\ At(r, "verify")
    /\ user' = [user EXCEPT ![token[call[r].token].user].status = "ACTIVE"]
    /\ Go(r, Audit("EMAIL_VERIFIED", token[call[r].token].user))
    /\ UNCHANGED <<token, mailed, audited>>

CommitVerify(r) ==
    /\ At(r, "verify")
    /\ LET t == call[r].token IN
       /\ token' = [token EXCEPT ![t].used = TRUE]
       /\ user' = [user EXCEPT ![token[t].user].status = "ACTIVE"]
       /\ Go(r, Audit("EMAIL_VERIFIED", token[t].user))
    /\ UNCHANGED <<mailed, audited>>

\* POST /auth/forgot-password
BeginForgot(r, u) ==
    /\ Exists(user, u)
    /\ Begin(r, "forgot", [at |-> "insertReset", user |-> u])
    /\ UNCHANGED accountVars

InsertReset(r, t) ==
    /\ At(r, "insertReset")
    /\ IsFresh(token, t) /\ t <= scenario.tokens
    /\ token' = [token EXCEPT ![t] = NewToken("reset", call[r].user)]
    /\ Go(r, [at |-> "mail", token |-> t])
    /\ UNCHANGED <<user, mailed, audited>>

(***************************************************************************)
(* POST /auth/reset-password: checked, then a slow hash, then one          *)
(* transaction by ids.  The sessions it revokes are in Sessions.           *)
(***************************************************************************)
BeginReset(r, t) ==
    /\ Valid(t, "reset")
    /\ Begin(r, "reset", [at |-> "reset", token |-> t])
    /\ UNCHANGED accountVars

CommitReset(r) ==
    /\ At(r, "reset")
    /\ token' = [token EXCEPT ![call[r].token].used = TRUE]
    /\ Go(r, Audit("PASSWORD_RESET", token[call[r].token].user))
    /\ UNCHANGED <<user, mailed, audited>>

\* AuditService.record; the new Google account is then signed in.
WriteAudit(r) ==
    /\ At(r, "audit")
    /\ audited' = audited \cup (({call[r].action} \cap scenario.watched) \X {call[r].user})
    /\ Go(r, IF call[r].action = "USER_REGISTERED_GOOGLE"
               THEN [at |-> "signIn", user |-> call[r].user] ELSE Idle)
    /\ UNCHANGED <<user, token, mailed>>

\* Twenty-four hours, or one, have passed.
Expire(t) ==
    /\ Exists(token, t) /\ ~ token[t].expired
    /\ token' = [token EXCEPT ![t].expired = TRUE]
    /\ UNCHANGED <<handlerVars, user, mailed, audited>>

-----------------------------------------------------------------------------
AccountInit ==
    /\ HandlerInit
    /\ user = [u \in UserId |-> NoRecord]
    /\ token = [t \in TokenId |-> NoRecord]
    /\ mailed = {}
    /\ audited = {}

AccountArrive(r) ==
    \/ \E e \in scenario.emails : BeginRegister(r, e) \/ BeginGoogleSignUp(r, e)
    \/ \E u \in UserId : BeginGoogleLogin(r, u) \/ BeginForgot(r, u)
    \/ \E t \in TokenId : BeginVerify(r, t) \/ BeginReset(r, t)

AccountProceedButReset(r) ==
    \/ \E u \in UserId : InsertUser(r, u)
    \/ EmailTaken(r)
    \/ \E t \in TokenId : InsertVerification(r, t) \/ InsertReset(r, t)
    \/ SendMail(r)
    \/ Link(r)
    \/ CommitVerify(r)
    \/ WriteAudit(r)

-----------------------------------------------------------------------------
AccountRowsOK ==
    /\ user \in [UserId -> User \cup {NoRecord}]
    /\ token \in [TokenId -> Token \cup {NoRecord}]
    /\ mailed \subseteq TokenId
    /\ audited \subseteq (AuditAction \X UserId)

\* Two calls that both found an e-mail free, by register or by Google in any mix,
\* do not both get an account.
OneAccountPerEmail == \A e \in Email : Cardinality(UsersOf(e)) <= 1

\* An account is ACTIVE only because Google vouched for it when it was created,
\* or because one of its own verification tokens was used.
ActiveWasVerified ==
    \A u \in UserId :
        Exists(user, u) /\ user[u].status = "ACTIVE" =>
            \/ user[u].google
            \/ \E t \in TokenId : /\ Exists(token, t) /\ token[t].user = u
                                  /\ token[t].kind = "verify" /\ token[t].used

\* A one-time token that is used and that no call still holds from before is spent
\* for good: no later call acts on it.
Spent(t) ==
    /\ Exists(token, t) /\ token[t].used
    /\ ~ \E r \in Request : (At(r, "verify") \/ At(r, "reset")) /\ call[r].token = t

SpentStays == [][\A t \in TokenId : Spent(t) => Spent(t)']_<<handlerVars, accountVars>>

\* Without failures whoever registered is sent a verification token and audited,
\* and is not stranded with an account that can never be verified.
RegisteredAreMailed ==
    \A u \in UserId :
        ~ scenario.fails /\ Exists(user, u) /\ user[u].status = "PENDING_VERIFICATION" ~>
            /\ \E t \in mailed : token[t].kind = "verify" /\ token[t].user = u
            /\ <<"USER_REGISTERED", u>> \in audited

=============================================================================
