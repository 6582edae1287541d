--------------------------- MODULE HandlersProofs ---------------------------
(***************************************************************************)
(* What the steps of handlers do to the slots, whatever the service: for   *)
(* the proofs about the modules that extend Handlers.                      *)
(***************************************************************************)
EXTENDS Handlers, TLAPS

-----------------------------------------------------------------------------
(* Slots. *)

\* Every slot holds a handler, and every handler knows its step.
SlotsOK ==
    /\ call = [r \in Request |-> call[r]]
    /\ \A r \in Request : "at" \in DOMAIN call[r]

\* A step of the handler in slot r, which is about to make one of these steps after it.
Moves(r, steps) ==
    /\ SlotsOK'
    /\ scenario' = scenario
    /\ call'[r].at \in steps
    /\ \A q \in Request : q # r => call'[q] = call[q]

\* No handler starts or goes on with one of these steps.
Untouched(steps) ==
    /\ SlotsOK'
    /\ scenario' = scenario
    /\ \A q \in Request : call'[q] = call[q] \/ call'[q].at \notin steps

\* What Go does to the slots.
LEMMA GoMoves ==
    ASSUME SlotsOK, NEW r \in Request, NEW h, "at" \in DOMAIN h, Go(r, h)
    PROVE  /\ SlotsOK'
           /\ call'[r] = h
           /\ \A q \in Request : q # r => call'[q] = call[q]
           /\ scenario' = scenario
  BY DEF SlotsOK, Go

\* Begin takes an idle slot.
LEMMA BeginMoves ==
    ASSUME SlotsOK, NEW r \in Request, NEW endpoint, NEW h, "at" \in DOMAIN h, Begin(r, endpoint, h)
    PROVE  /\ SlotsOK'
           /\ call'[r] = h
           /\ \A q \in Request : q # r => call'[q] = call[q]
           /\ scenario' = scenario
  BY GoMoves DEF Begin

\* A handler that changes its step only, to one that is named.
LEMMA AtMoves ==
    ASSUME SlotsOK, NEW r \in Request, NEW step
    PROVE  /\ "at" \in DOMAIN [call[r] EXCEPT !.at = step]
           /\ [call[r] EXCEPT !.at = step].at = step
  BY DEF SlotsOK

=============================================================================
