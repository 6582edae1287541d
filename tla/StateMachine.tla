---------------------------- MODULE StateMachine ----------------------------
(***************************************************************************)
(* The guard shared by the lifecycles of the back end: a state machine is  *)
(* a function from a state to the set of states it may move to.            *)
(***************************************************************************)

\* StateMachine.canTransition: an unknown state has no way out.
CanTransition(machine, from, to) ==
    from \in DOMAIN machine /\ to \in machine[from]

=============================================================================
