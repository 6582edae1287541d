------------------------------ MODULE Handlers ------------------------------
(***************************************************************************)
(* The server process as every service sees it.  A handler (of an HTTP     *)
(* call, or a queue worker on a job) is a sequence of awaited calls; any   *)
(* number of them run at once, and another one may run at every await.  A  *)
(* handler in flight occupies a slot of Request and remembers the step it  *)
(* takes next, at, with what it has read so far.  Nothing else of it       *)
(* survives an await.  The modules of the services add the handlers.       *)
(*                                                                         *)
(* A scenario says which part of the service an execution uses: the        *)
(* endpoints its clients call, whether awaits may reject, and the bounds   *)
(* the modules name.  It is chosen at the start and never changes.         *)
(***************************************************************************)
CONSTANTS
    Request,    \* slots for handlers in flight
    Scenario    \* the scenarios: records with .calls, .fails and bounds

ASSUME ScenarioAssumption == \A s \in Scenario : s.fails \in BOOLEAN

VARIABLES
    call,       \* the handler in each slot
    scenario    \* of this execution

handlerVars == <<call, scenario>>

Idle == [at |-> "idle"]

HandlerInit ==
    /\ scenario \in Scenario
    /\ call = [r \in Request |-> Idle]

At(r, step) == call[r].at = step

\* Some handler is about to make this step.
InFlight(step) == \E r \in Request : At(r, step)

Go(r, handler) ==
    /\ call' = [call EXCEPT ![r] = handler]
    /\ UNCHANGED scenario

\* A free slot takes a call of the endpoint.
Begin(r, endpoint, handler) ==
    /\ endpoint \in scenario.calls
    /\ call[r] = Idle
    /\ Go(r, handler)

\* An await rejects or the process dies: the rest of the handler never runs.
Fail(r) ==
    /\ scenario.fails
    /\ call[r] # Idle
    /\ Go(r, Idle)

=============================================================================
