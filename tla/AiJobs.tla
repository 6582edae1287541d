------------------------------- MODULE AiJobs -------------------------------
(***************************************************************************)
(* AI analyses of one user: AiService.requestAnalysis with its daily limit *)
(* over the table "ai_jobs", BillingService.subscribe, which raises the    *)
(* limit, and AiProcessor over "ai_jobs" and "ai_analyses".  Users share   *)
(* nothing here, so one stands for all.  The queue job has the id of the   *)
(* row it is about.                                                        *)
(***************************************************************************)
EXTENDS Jobs

CONSTANTS
    AiJob,      \* AIJob ids, and jobs of the queue "ai"
    FreeLimit,  \* ai.maxRequestsPerDayFree
    ProLimit    \* ai.maxRequestsPerDayPro

ASSUME AiJobAssumption == AiJob \subseteq Job

ASSUME LimitAssumption == FreeLimit \in Nat \ {0} /\ ProLimit \in Nat /\ FreeLimit <= ProLimit

VARIABLES
    aiJob,      \* the status of each AIJob row
    today,      \* the rows created since midnight
    analysis,   \* the rows that have an AIAnalysis
    answer,     \* the notifications about each row
    subscribed  \* has the user an ACTIVE subscription?

aiVars == <<aiJob, today, analysis, answer, subscribed>>

AIJobStatus == {"PENDING", "RUNNING", "COMPLETED", "FAILED"}

Answers == {"ready", "unavailable"}

AiInit ==
    /\ aiJob = [j \in AiJob |-> "absent"]
    /\ today = {}
    /\ analysis = {}
    /\ answer = [j \in AiJob |-> {}]
    /\ subscribed = FALSE

Limit(pro) == IF pro THEN ProLimit ELSE FreeLimit

-----------------------------------------------------------------------------
(***************************************************************************)
(* requestAnalysis: the business is read, the subscription is read, the    *)
(* jobs of the day are counted, the row is inserted and queued; other      *)
(* requests of the user run between all of these.                          *)
(***************************************************************************)
Subscribe ==
    /\ "subscribe" \in scenario.calls
    /\ subscribed' = TRUE
    /\ UNCHANGED <<handlerVars, queue, aiJob, today, analysis, answer>>

NewDay ==
    /\ "midnight" \in scenario.calls
    /\ today' = {}
    /\ UNCHANGED <<handlerVars, queue, aiJob, analysis, answer, subscribed>>

RequestAnalysis(r) ==
    /\ Begin(r, "requestAnalysis", [at |-> "findSubscription"])
    /\ UNCHANGED <<queue, aiVars>>

FindSubscription(r) ==
    /\ At(r, "findSubscription")
    /\ Go(r, [at |-> "countToday", limit |-> Limit(subscribed)])
    /\ UNCHANGED <<queue, aiVars>>

\* Slip: one request more than the limit.
CountTodayLoosely(r) ==
    /\ At(r, "countToday")
    /\ Go(r, IF Cardinality(today) > call[r].limit THEN Idle ELSE [at |-> "insertAiJob"])
    /\ UNCHANGED <<queue, aiVars>>

CountToday(r) ==
    /\ At(r, "countToday")
    /\ Go(r, IF Cardinality(today) >= call[r].limit THEN Idle ELSE [at |-> "insertAiJob"])
    /\ UNCHANGED <<queue, aiVars>>

InsertAiJob(r, j) ==
    /\ At(r, "insertAiJob")
    /\ IsNext(j, AiJob, {k \in AiJob : aiJob[k] # "absent"})
    /\ aiJob' = [aiJob EXCEPT ![j] = "PENDING"]
    /\ today' = today \cup {j}
    /\ Go(r, [at |-> "queueAiJob", row |-> j])
    /\ UNCHANGED <<queue, analysis, answer, subscribed>>

QueueAiJob(r) ==
    /\ At(r, "queueAiJob")
    /\ Enqueue(call[r].row)
    /\ Go(r, Idle)
    /\ UNCHANGED aiVars

-----------------------------------------------------------------------------
(***************************************************************************)
(* AiProcessor.process.  From readBusiness to mailReady an error is caught *)
(* and makes the row FAILED; elsewhere it rejects the job.                 *)
(***************************************************************************)
Step(r, step) == Go(r, [call[r] EXCEPT !.at = step]) /\ UNCHANGED queue

TakeAiJob(r, j) == Take(r, j, "readAiJob") /\ UNCHANGED aiVars

\* The row is there: it was inserted before the job was queued.
ReadAiJob(r) == At(r, "readAiJob") /\ Step(r, "setRunning") /\ UNCHANGED aiVars

SetRow(r, status) == aiJob' = [aiJob EXCEPT ![call[r].job] = status]

SetRunning(r) ==
    /\ At(r, "setRunning")
    /\ SetRow(r, "RUNNING")
    /\ Step(r, "analyze")
    /\ UNCHANGED <<today, analysis, answer, subscribed>>

\* The business is read, the provider asked, and its result is valid, or not.
Analyze(r) ==
    /\ At(r, "analyze")
    /\ \/ Step(r, "commitAnalysis")
       \/ Step(r, "setFailed")
    /\ UNCHANGED aiVars

\* AIAnalysis.jobId is unique: a row that has its analysis makes the transaction throw.
CommitAnalysis(r) ==
    /\ At(r, "commitAnalysis")
    /\ IF call[r].job \in analysis
         THEN Step(r, "setFailed") /\ UNCHANGED <<aiJob, analysis>>
         ELSE /\ analysis' = analysis \cup {call[r].job}
              /\ SetRow(r, "COMPLETED")
              /\ Step(r, "notifyReady")
    /\ UNCHANGED <<today, answer, subscribed>>

Notify(r, text) == answer' = [answer EXCEPT ![call[r].job] = @ \cup {text}]

NotifyReady(r) ==
    /\ At(r, "notifyReady")
    /\ Notify(r, "ready")
    /\ Step(r, "mailReady")
    /\ UNCHANGED <<aiJob, today, analysis, subscribed>>

\* Slip: the error is logged and the handler returns.
SetFailedOnly(r) ==
    /\ At(r, "setFailed")
    /\ SetRow(r, "FAILED")
    /\ Complete(r)
    /\ UNCHANGED <<today, analysis, answer, subscribed>>

SetFailed(r) ==
    /\ At(r, "setFailed")
    /\ SetRow(r, "FAILED")
    /\ Step(r, "notifyFailed")
    /\ UNCHANGED <<today, analysis, answer, subscribed>>

NotifyFailed(r) ==
    /\ At(r, "notifyFailed")
    /\ Notify(r, "unavailable")
    /\ Step(r, "mailFailed")
    /\ UNCHANGED <<aiJob, today, analysis, subscribed>>

\* The e-mail job is queued, and the processor returns.
MailAnswer(r) ==
    /\ call[r].at \in {"mailReady", "mailFailed"}
    /\ Complete(r)
    /\ UNCHANGED aiVars

Caught == {"commitAnalysis", "notifyReady", "mailReady"}

\* An await of the processor rejects.
AiRejects(r) ==
    /\ scenario.fails
    /\ \/ call[r].at \in Caught /\ Step(r, "setFailed")
       \/ call[r].at \in {"readAiJob", "setRunning", "setFailed", "notifyFailed", "mailFailed"} /\ Reject(r)
    /\ UNCHANGED aiVars

-----------------------------------------------------------------------------
AiNext ==
    \/ Subscribe
    \/ NewDay
    \/ \E r \in Request :
           \/ RequestAnalysis(r)
           \/ FindSubscription(r)
           \/ CountToday(r)
           \/ \E j \in AiJob : InsertAiJob(r, j) \/ TakeAiJob(r, j)
           \/ QueueAiJob(r)
           \/ ReadAiJob(r)
           \/ SetRunning(r)
           \/ Analyze(r)
           \/ CommitAnalysis(r)
           \/ NotifyReady(r)
           \/ SetFailed(r)
           \/ NotifyFailed(r)
           \/ MailAnswer(r)
           \/ AiRejects(r)

-----------------------------------------------------------------------------
AiRowsOK ==
    /\ aiJob \in [AiJob -> AIJobStatus \cup {"absent"}]
    /\ today \subseteq {j \in AiJob : aiJob[j] # "absent"}
    /\ analysis \subseteq {j \in AiJob : aiJob[j] # "absent"}
    /\ answer \in [AiJob -> SUBSET Answers]
    /\ subscribed \in BOOLEAN

\* Overlapping requests of one user, or requests that overlap midnight, exceed the limit of
\* the plan by less than there are requests at once: every one that inserts has counted
\* fewer rows than the limit.
WithinDailyLimit ==
    Cardinality(today) < Limit(subscribed) + Cardinality(Request)

\* When the queue is done with an analysis its row says so and its user has been told: it is
\* COMPLETED with its result and announced, or FAILED and that is announced.  Until then, and
\* whatever is retried, COMPLETED is never without the result.
AnalysisAnswered ==
    \A j \in AiJob :
        /\ aiJob[j] = "COMPLETED" => j \in analysis
        /\ queue[j].state = "completed" =>
               \/ aiJob[j] = "COMPLETED" /\ "ready" \in answer[j]
               \/ aiJob[j] = "FAILED" /\ "unavailable" \in answer[j]

=============================================================================
