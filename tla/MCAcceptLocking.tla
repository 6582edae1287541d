-------------------------- MODULE MCAcceptLocking --------------------------
(* Two negotiations about one business, and transactions that overlap. *)
EXTENDS AcceptLocking

CONSTANTS o1, o2, o3, n1, n2, t1, t2

First == (n1 :> o1) @@ (n2 :> o2)

=============================================================================
