----------------------------- MODULE Background -----------------------------
(***************************************************************************)
(* The work the server does after it has answered: both kinds of jobs with *)
(* a processor that changes the database, over the queues they share.      *)
(***************************************************************************)
EXTENDS Alerts, AiJobs

\* Each kind has a queue of its own, so an id is of one job.
ASSUME QueuesAssumption == AlertJob \cap AiJob = {}

backgroundVars == <<handlerVars, queue, alertVars, aiVars>>

BackgroundInit == HandlerInit /\ QueueInit /\ AlertInit /\ AiInit

\* A process dies: a call it was serving is gone, a job it was running stalls.
Crash(r) ==
    /\ \/ ~ IsWorker(r) /\ Fail(r) /\ UNCHANGED queue
       \/ Stall(r)
    /\ UNCHANGED <<alertVars, aiVars>>

BackgroundNext ==
    \/ AlertNext /\ UNCHANGED aiVars
    \/ AiNext /\ UNCHANGED alertVars
    \/ \E r \in Request : Crash(r)

BackgroundSpec == BackgroundInit /\ [][BackgroundNext]_backgroundVars

-----------------------------------------------------------------------------
HttpHandler ==
    [at : {"idle", "queueAlerts", "findSubscription", "insertAiJob"}]
        \cup [at : {"writeSearch"}, search : Search, state : SearchState]
        \cup [at : {"countToday"}, limit : {FreeLimit, ProLimit}]
        \cup [at : {"queueAiJob"}, row : AiJob]

Worker ==
    [at : {"readListing", "findSearches"}, job : AlertJob]
        \cup [at : {"insertNotice"}, job : AlertJob, left : SUBSET Search]
        \cup [at : {"queueMail", "stampSearch"}, job : AlertJob, left : SUBSET Search, search : Search]
        \cup [at : {"readAiJob", "setRunning", "analyze", "setFailed", "notifyFailed", "mailFailed"}
                       \cup Caught, job : AiJob]

\* Types of all variables; every job is with one worker at most.
BackgroundTypeOK ==
    /\ scenario \in Scenario
    /\ call \in [Request -> HttpHandler \cup Worker]
    /\ QueueOK
    /\ AlertRowsOK
    /\ AiRowsOK

\* An alert reaches every search it is due to, and none more often than its job is run
\* (ARCHITECTURE.md:102-104).
AlertsDelivered == AlertsArrive /\ AlertsBounded

=============================================================================
