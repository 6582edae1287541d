----------------------------- MODULE MCSessions -----------------------------
(* Small instances of Sessions: what one or two e-mail addresses can do. *)
EXTENDS Sessions, TLC

CONSTANTS ann, bob, r1, r2

\* Accounts and one-time tokens of one address.
Joining == [calls |-> {"register", "google", "verify", "forgot", "reset"}, fails |-> TRUE,
            emails |-> {ann}, tokens |-> 2, sessions |-> 1, watched |-> {}]

\* Two addresses, nothing fails.
Mailing == [Joining EXCEPT !.calls = {"register", "google", "verify"}, !.fails = FALSE,
                           !.emails = Email, !.watched = {"USER_REGISTERED"}]

\* The sessions of one account, and one whose password is reset.
SigningIn == [Joining EXCEPT !.calls = {"google", "refresh", "logout", "logoutAll"},
                             !.tokens = 0, !.sessions = 3]

Resetting == [Joining EXCEPT !.calls = {"google", "login", "refresh", "forgot", "reset"},
                             !.tokens = 1, !.sessions = 2]

All == {Joining, Mailing, SigningIn, Resetting}

=============================================================================
