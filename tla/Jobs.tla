-------------------------------- MODULE Jobs --------------------------------
(***************************************************************************)
(* The queues of BullMQ, as src/jobs uses them: a job added with            *)
(* DEFAULT_JOB_OPTIONS is taken by a worker, and given back when the        *)
(* processor rejects, as long as it has attempts left.  A job whose worker *)
(* dies stalls; BullMQ gives it to another worker, which is not an attempt *)
(* but happens at most MaxStalls times.  The worker runs in a slot of      *)
(* Request like every other handler.                                       *)
(*                                                                         *)
(* A scenario also has: jobs, the number of jobs there may be; and workers *)
(* run if "worker" is among its calls.                                     *)
(***************************************************************************)
EXTENDS Handlers, Naturals, FiniteSets

CONSTANTS
    Job,        \* job ids
    Attempts,   \* DEFAULT_JOB_OPTIONS.attempts
    MaxStalls   \* BullMQ's maxStalledCount

ASSUME JobAssumption == Job \subseteq Nat

\* The server has finitely many handlers in flight.
ASSUME SlotsAssumption == IsFiniteSet(Request)

ASSUME AttemptsAssumption == Attempts \in Nat \ {0} /\ MaxStalls \in Nat

VARIABLE
    queue       \* the state of each job, the attempts and the stalls it has left

NoJob == [state |-> "absent", left |-> 0, stalls |-> 0]

QueueInit == queue = [j \in Job |-> NoJob]

JobState == {"absent", "waiting", "active", "completed", "failed"}

\* The next of these ids to be used, when the scenario has room for another.
IsNext(j, ids, used) ==
    /\ Cardinality(used) < scenario.jobs
    /\ j \notin used
    /\ \A k \in ids \ used : j <= k

Enqueue(j) ==
    /\ queue[j] = NoJob
    /\ queue' = [queue EXCEPT ![j] = [state |-> "waiting", left |-> Attempts, stalls |-> MaxStalls]]

\* A worker starts the processor of job j.
Take(r, j, step) ==
    /\ "worker" \in scenario.calls
    /\ call[r] = Idle
    /\ queue[j].state = "waiting"
    /\ queue' = [queue EXCEPT ![j].state = "active"]
    /\ Go(r, [at |-> step, job |-> j])

IsWorker(r) == "job" \in DOMAIN call[r]

\* The processor returns.
Complete(r) ==
    /\ queue' = [queue EXCEPT ![call[r].job].state = "completed"]
    /\ Go(r, Idle)

\* Slip: the attempts are never used up.
RejectForever(r) ==
    /\ queue' = [queue EXCEPT ![call[r].job].state = "waiting", ![call[r].job].left = @ - 1]
    /\ Go(r, Idle)

\* The processor throws.
Reject(r) ==
    LET j    == call[r].job
        left == queue[j].left - 1
    IN  /\ queue' = [queue EXCEPT ![j].left = left,
                                  ![j].state = IF left = 0 THEN "failed" ELSE "waiting"]
        /\ Go(r, Idle)

\* The process dies under the worker.  (A worker that is only slow, and loses its lock
\* while it goes on, is left out: the job would be in two hands.)
Stall(r) ==
    /\ scenario.fails
    /\ IsWorker(r)
    /\ LET j == call[r].job IN
       queue' = IF queue[j].stalls = 0
                THEN [queue EXCEPT ![j].state = "failed"]
                ELSE [queue EXCEPT ![j].state = "waiting", ![j].stalls = @ - 1]
    /\ Go(r, Idle)

\* What every execution of job j costs one of.
RunsMade(j) == (Attempts - queue[j].left) + (MaxStalls - queue[j].stalls)

-----------------------------------------------------------------------------
\* A job in the hands of a worker is active, and no other worker has it.
QueueOK ==
    /\ queue \in [Job -> [state : JobState, left : 0 .. Attempts, stalls : 0 .. MaxStalls]]
    /\ \A j \in Job : queue[j].state = "waiting" => queue[j].left > 0
    /\ \A j \in Job : queue[j].state = "active" =>
           \E r \in Request : IsWorker(r) /\ call[r].job = j
    /\ \A r \in Request : IsWorker(r) => queue[call[r].job].state = "active"
    /\ \A q, r \in Request :
           IsWorker(q) /\ IsWorker(r) /\ call[q].job = call[r].job => q = r

=============================================================================
