-------------------------- MODULE BackgroundProofs --------------------------
(***************************************************************************)
(* Proofs about the background work, for any number of jobs, searches,     *)
(* workers and attempts: every job is with one worker at most, an alert    *)
(* reaches whom it is due to and nobody more often than its job is run, an *)
(* analysis is answered, and the daily limit is exceeded by less than      *)
(* there are requests at once.                                             *)
(***************************************************************************)
EXTENDS Background, HandlersProofs, FiniteSetTheorems

-----------------------------------------------------------------------------
(* Handlers. *)

\* The steps of AiProcessor.
AiStep == {"readAiJob", "setRunning", "analyze", "setFailed", "notifyFailed", "mailFailed"} \cup Caught

\* Is this the handler of a job?
Works(h) == "job" \in DOMAIN h

\* The fields of a handler, by its step.
LEMMA HandlerFields ==
    ASSUME NEW h \in HttpHandler \cup Worker
    PROVE  /\ "at" \in DOMAIN h
           /\ Works(h) <=> h.at \in AlertStep \cup AiStep
           /\ h.at \in AlertStep => h.job \in AlertJob
           /\ h.at \in {"readListing", "findSearches"} =>
                  h \in [at : {"readListing", "findSearches"}, job : AlertJob]
           /\ h.at = "insertNotice" => h.left \subseteq Search
           /\ h.at \in {"queueMail", "stampSearch"} =>
                  /\ h \in [at : {"queueMail", "stampSearch"}, job : AlertJob, left : SUBSET Search,
                            search : Search]
                  /\ h.left \subseteq Search /\ h.search \in Search
           /\ h.at \in AiStep => h \in [at : AiStep, job : AiJob] /\ h.job \in AiJob
           /\ h.at = "writeSearch" => h.search \in Search /\ h.state \in SearchState
           /\ h.at = "countToday" => h.limit \in {FreeLimit, ProLimit}
           /\ h.at = "queueAiJob" => h.row \in AiJob
  <1>1. CASE h \in HttpHandler
    BY <1>1 DEF HttpHandler, Works, AlertStep, AiStep, Caught
  <1>2. CASE h \in Worker
    BY <1>2 DEF Worker, Works, AlertStep, AiStep, Caught
  <1> QED
    BY <1>1, <1>2

\* The job of a worker.
LEMMA WorkersHaveJobs ==
    ASSUME NEW h \in HttpHandler \cup Worker, Works(h)
    PROVE  h.job \in Job
  BY HandlerFields, AlertJobAssumption, AiJobAssumption

\* A handler of an endpoint has no job.
LEMMA Endpoints ==
    /\ Idle \in HttpHandler
    /\ \A step \in {"queueAlerts", "findSubscription", "insertAiJob"} : [at |-> step] \in HttpHandler
    /\ \A h \in HttpHandler : ~ Works(h)
  BY DEF HttpHandler, Works, Idle

-----------------------------------------------------------------------------
(* The queues. *)

JobRow == [state : JobState, left : 0 .. Attempts, stalls : 0 .. MaxStalls]

\* Slots and jobs are well typed, a job is with one worker at most, and one that is to be
\* run, or is running, has an attempt left.
QueueInv ==
    /\ SlotsOK
    /\ scenario \in Scenario
    /\ \A r \in Request : call[r] \in HttpHandler \cup Worker
    /\ QueueOK
    /\ \A j \in Job : queue[j].state = "active" => queue[j].left > 0

\* Nothing is queued, and nobody works, at the start.
LEMMA QueueInvInit == ASSUME BackgroundInit PROVE QueueInv
  <1>1. NoJob \in JobRow /\ NoJob.state = "absent"
    BY AttemptsAssumption DEF NoJob, JobRow, JobState
  <1>2. queue = [j \in Job |-> NoJob] /\ call = [r \in Request |-> Idle] /\ scenario \in Scenario
    BY DEF BackgroundInit, QueueInit, HandlerInit
  <1>3. "at" \in DOMAIN Idle /\ \A r \in Request : ~ IsWorker(r)
    BY <1>2 DEF Idle, IsWorker
  <1> QED
    BY <1>1, <1>2, <1>3, Endpoints DEF QueueInv, QueueOK, SlotsOK, JobRow

\* A handler goes on, with its job if it has one.
LEMMA QueueKept ==
    ASSUME QueueInv, NEW r \in Request, NEW h \in HttpHandler \cup Worker, Go(r, h), UNCHANGED queue,
           Works(h) <=> IsWorker(r), Works(h) => h.job = call[r].job
    PROVE  QueueInv'
  <1>1. "at" \in DOMAIN h
    BY HandlerFields
  <1>2. /\ SlotsOK' /\ call'[r] = h /\ scenario' = scenario
        /\ \A q \in Request : q # r => call'[q] = call[q]
    BY <1>1, GoMoves DEF QueueInv
  <1>3. \A q \in Request : /\ IsWorker(q)' <=> IsWorker(q)
                           /\ IsWorker(q) => call'[q].job = call[q].job
    BY <1>2 DEF IsWorker, Works
  <1>4. \A q \in Request : call'[q] \in HttpHandler \cup Worker
    BY <1>2 DEF QueueInv
  <1> QED
    BY <1>2, <1>3, <1>4 DEF QueueInv, QueueOK

\* The row of a job that no worker has.
LEMMA QueueRowWritten ==
    ASSUME QueueInv, NEW j \in Job, NEW row \in JobRow, queue' = [queue EXCEPT ![j] = row]
    PROVE  /\ queue' \in [Job -> JobRow] /\ queue'[j] = row
           /\ \A k \in Job : k # j => queue'[k] = queue[k]
  BY DEF QueueInv, QueueOK, JobRow

\* A job is queued, by a handler that has none.
LEMMA EnqueueKeeps ==
    ASSUME QueueInv, NEW r \in Request, NEW j \in Job, Enqueue(j), Go(r, Idle), ~ IsWorker(r)
    PROVE  /\ QueueInv'
           /\ queue[j] = NoJob /\ queue'[j].state = "waiting"
           /\ queue'[j].left = Attempts /\ queue'[j].stalls = MaxStalls
           /\ \A k \in Job : k # j => queue'[k] = queue[k]
  <1> DEFINE row == [state |-> "waiting", left |-> Attempts, stalls |-> MaxStalls]
  <1>1. /\ row \in JobRow /\ row.state = "waiting" /\ row.left = Attempts /\ row.stalls = MaxStalls
        /\ row.left > 0
    BY AttemptsAssumption DEF JobRow, JobState
  <1>2. queue[j] = NoJob /\ queue' = [queue EXCEPT ![j] = row]
    BY DEF Enqueue
  <1> HIDE DEF row
  <1>3. /\ queue' \in [Job -> JobRow] /\ queue'[j] = row
        /\ \A k \in Job : k # j => queue'[k] = queue[k]
    BY <1>1, <1>2, QueueRowWritten
  <1>4. /\ SlotsOK' /\ call'[r] = Idle /\ scenario' = scenario
        /\ \A q \in Request : q # r => call'[q] = call[q]
    BY GoMoves DEF QueueInv, Idle
  <1>5. queue[j].state = "absent" /\ ~ Works(Idle)
    BY <1>2, Endpoints DEF NoJob
  <1>6. \A q \in Request : /\ IsWorker(q)' <=> IsWorker(q)
                           /\ IsWorker(q) => call'[q] = call[q] /\ call[q].job # j /\ call[q].job \in Job
    BY <1>4, <1>5, WorkersHaveJobs DEF IsWorker, Works, QueueInv, QueueOK
  <1>7. \A q \in Request : call'[q] \in HttpHandler \cup Worker
    BY <1>4, Endpoints DEF QueueInv
  <1>8. QueueOK'
    BY <1>1, <1>3, <1>6 DEF QueueInv, QueueOK, JobRow
  <1> QED
    BY <1>1, <1>2, <1>3, <1>4, <1>7, <1>8 DEF QueueInv
\* A worker takes a job that waits.
LEMMA TakeKeeps ==
    ASSUME QueueInv, NEW r \in Request, NEW j \in Job, NEW step, Take(r, j, step),
           [at |-> step, job |-> j] \in Worker
    PROVE  /\ QueueInv'
           /\ queue[j].state = "waiting" /\ queue'[j].state = "active"
           /\ queue'[j].left = queue[j].left /\ queue'[j].stalls = queue[j].stalls
           /\ \A k \in Job : k # j => queue'[k] = queue[k]
  <1> DEFINE h   == [at |-> step, job |-> j]
             row == [queue[j] EXCEPT !.state = "active"]
  <1>1. queue[j] \in JobRow /\ queue[j].state = "waiting" /\ queue[j].left > 0
    BY DEF Take, QueueInv, QueueOK, JobRow
  <1>2. /\ row \in JobRow /\ row.state = "active" /\ row.left = queue[j].left
        /\ row.stalls = queue[j].stalls
    BY <1>1 DEF JobRow, JobState
  <1>3. queue' = [queue EXCEPT ![j] = row] /\ call[r] = Idle /\ Go(r, h)
    BY DEF Take
  <1>4. Works(h) /\ h.job = j /\ "at" \in DOMAIN h
    BY DEF Works
  <1> HIDE DEF row, h
  <1>5. /\ queue' \in [Job -> JobRow] /\ queue'[j] = row
        /\ \A k \in Job : k # j => queue'[k] = queue[k]
    BY <1>2, <1>3, QueueRowWritten
  <1>6. /\ SlotsOK' /\ call'[r] = h /\ scenario' = scenario
        /\ \A q \in Request : q # r => call'[q] = call[q]
    BY <1>3, <1>4, GoMoves DEF QueueInv
  <1>7. ~ IsWorker(r)
    BY <1>3, Endpoints DEF IsWorker, Works
  <1>8. IsWorker(r)' /\ call'[r].job = j
    BY <1>4, <1>6 DEF IsWorker, Works
  <1>9. \A q \in Request : q # r =>
            /\ IsWorker(q)' <=> IsWorker(q)
            /\ IsWorker(q) => call'[q].job = call[q].job /\ call[q].job \in Job /\ call[q].job # j
    BY <1>1, <1>6, WorkersHaveJobs DEF IsWorker, Works, QueueInv, QueueOK
  <1>10. QueueOK'
    <2>1. \A k \in Job : queue'[k].state = "active" => \E q \in Request : IsWorker(q)' /\ call'[q].job = k
      BY <1>5, <1>7, <1>8, <1>9 DEF QueueInv, QueueOK
    <2>2. \A q \in Request : IsWorker(q)' => queue'[call'[q].job].state = "active"
      BY <1>2, <1>5, <1>8, <1>9 DEF QueueInv, QueueOK
    <2>3. \A p, q \in Request : IsWorker(p)' /\ IsWorker(q)' /\ call'[p].job = call'[q].job => p = q
      BY <1>8, <1>9 DEF QueueInv, QueueOK
    <2>4. \A k \in Job : queue'[k].state = "waiting" => queue'[k].left > 0
      BY <1>1, <1>2, <1>5 DEF QueueInv, QueueOK
    <2> QED
      BY <1>5, <2>1, <2>2, <2>3, <2>4 DEF QueueOK, JobRow
  <1>11. \A q \in Request : call'[q] \in HttpHandler \cup Worker
    BY <1>6 DEF QueueInv, h
  <1> QED
    BY <1>1, <1>2, <1>5, <1>6, <1>10, <1>11 DEF QueueInv

\* The worker in slot r lets go of job j: it is completed, given back or failed.
Releases(r, j) ==
    /\ Go(r, Idle)
    /\ \A k \in Job : k # j => queue'[k] = queue[k]
    /\ \/ queue'[j].state \in {"completed", "failed"} /\ RunsMade(j)' >= RunsMade(j)
       \/ queue'[j].state = "waiting" /\ RunsMade(j)' = RunsMade(j) + 1

\* A worker lets go of a job whose row becomes such a row.
LEMMA RowReleased ==
    ASSUME QueueInv, NEW r \in Request, IsWorker(r), Go(r, Idle), NEW j \in Job, j = call[r].job,
           NEW row \in JobRow, queue' = [queue EXCEPT ![j] = row],
           \/ /\ row.state \in {"completed", "failed"}
              /\ row.left <= queue[j].left /\ row.stalls <= queue[j].stalls
           \/ /\ row.state = "waiting" /\ row.left > 0
              /\ (queue[j].left - row.left) + (queue[j].stalls - row.stalls) = 1
    PROVE  QueueInv' /\ Releases(r, j) /\ queue'[j].state = row.state
  <1>1. /\ queue' \in [Job -> JobRow] /\ queue'[j] = row
        /\ \A k \in Job : k # j => queue'[k] = queue[k]
    BY QueueRowWritten
  <1>2. /\ SlotsOK' /\ call'[r] = Idle /\ scenario' = scenario
        /\ \A q \in Request : q # r => call'[q] = call[q]
    BY GoMoves DEF QueueInv, Idle
  <1>3. ~ IsWorker(r)'
    BY <1>2, Endpoints DEF IsWorker, Works
  <1>4. \A q \in Request : q # r =>
            /\ IsWorker(q)' <=> IsWorker(q)
            /\ IsWorker(q) => call'[q].job = call[q].job /\ call[q].job \in Job /\ call[q].job # j
    BY <1>2, WorkersHaveJobs DEF IsWorker, Works, QueueInv, QueueOK
  <1>5. QueueOK'
    <2>1. \A k \in Job : queue'[k].state = "active" => \E q \in Request : IsWorker(q)' /\ call'[q].job = k
      BY <1>1, <1>4 DEF QueueInv, QueueOK
    <2>2. \A q \in Request : IsWorker(q)' => queue'[call'[q].job].state = "active"
      BY <1>1, <1>3, <1>4 DEF QueueInv, QueueOK
    <2>3. \A p, q \in Request : IsWorker(p)' /\ IsWorker(q)' /\ call'[p].job = call'[q].job => p = q
      BY <1>3, <1>4 DEF QueueInv, QueueOK
    <2>4. \A k \in Job : queue'[k].state = "waiting" => queue'[k].left > 0
      BY <1>1 DEF QueueInv, QueueOK
    <2> QED
      BY <1>1, <2>1, <2>2, <2>3, <2>4 DEF QueueOK, JobRow
  <1>6. \A q \in Request : call'[q] \in HttpHandler \cup Worker
    BY <1>2, Endpoints DEF QueueInv
  <1>7. QueueInv'
    BY <1>1, <1>2, <1>5, <1>6 DEF QueueInv
  <1>8. /\ queue[j].left \in Nat /\ queue[j].stalls \in Nat /\ row.left \in Nat /\ row.stalls \in Nat
        /\ Attempts \in Nat /\ MaxStalls \in Nat
    BY AttemptsAssumption DEF QueueInv, QueueOK, JobRow
  <1>9. /\ RunsMade(j) = (Attempts - queue[j].left) + (MaxStalls - queue[j].stalls)
        /\ RunsMade(j)' = (Attempts - row.left) + (MaxStalls - row.stalls)
    BY <1>1 DEF RunsMade
  <1>10. \/ row.state \in {"completed", "failed"} /\ RunsMade(j)' >= RunsMade(j)
         \/ row.state = "waiting" /\ RunsMade(j)' = RunsMade(j) + 1
    BY <1>8, <1>9
  <1> QED
    BY <1>1, <1>7, <1>10 DEF Releases

\* The processor returns, throws, or dies.
LEMMA ReleaseKeeps ==
    ASSUME QueueInv, NEW r \in Request, IsWorker(r), NEW j, j = call[r].job,
           Complete(r) \/ Reject(r) \/ Stall(r)
    PROVE  /\ j \in Job /\ QueueInv' /\ Releases(r, j)
           /\ Reject(r) \/ Stall(r) => queue'[j].state # "completed"
  <1>1. j \in Job /\ queue[j] \in JobRow /\ queue[j].left > 0 /\ queue[j].stalls \in Nat
        /\ queue \in [Job -> JobRow]
    BY WorkersHaveJobs DEF IsWorker, Works, QueueInv, QueueOK, JobRow
  <1>2. ASSUME Complete(r)
        PROVE  QueueInv' /\ Releases(r, j)
    <2> DEFINE row == [queue[j] EXCEPT !.state = "completed"]
    <2>1. /\ row \in JobRow /\ row.state = "completed" /\ row.left <= queue[j].left
          /\ row.stalls <= queue[j].stalls
      BY <1>1 DEF JobRow, JobState
    <2>2. Go(r, Idle) /\ queue' = [queue EXCEPT ![j] = row]
      BY <1>2 DEF Complete
    <2> HIDE DEF row
    <2> QED
      BY <1>1, <1>2, <2>1, <2>2, RowReleased
  <1>3. ASSUME Reject(r)
        PROVE  QueueInv' /\ Releases(r, j) /\ queue'[j].state # "completed"
    <2> DEFINE left == queue[j].left - 1
               row  == [queue[j] EXCEPT !.left = left, !.state = IF left = 0 THEN "failed" ELSE "waiting"]
    <2>1. /\ row \in JobRow /\ row.left = queue[j].left - 1 /\ row.stalls = queue[j].stalls
          /\ row.state = IF row.left = 0 THEN "failed" ELSE "waiting"
      <3>1. left \in 0 .. Attempts
        BY <1>1, AttemptsAssumption DEF JobRow
      <3>2. (IF left = 0 THEN "failed" ELSE "waiting") \in JobState
        BY DEF JobState
      <3> HIDE DEF left
      <3>3. /\ row \in JobRow /\ row.left = left /\ row.stalls = queue[j].stalls
            /\ row.state = IF left = 0 THEN "failed" ELSE "waiting"
        BY <1>1, <3>1, <3>2 DEF JobRow
      <3> QED
        BY <3>3 DEF left
    <2>2. Go(r, Idle) /\ queue' = [queue EXCEPT ![j] = row]
      BY <1>1, <1>3 DEF Reject
    <2> HIDE DEF row
    <2>3. \/ /\ row.state \in {"completed", "failed"}
             /\ row.left <= queue[j].left /\ row.stalls <= queue[j].stalls
          \/ /\ row.state = "waiting" /\ row.left > 0
             /\ (queue[j].left - row.left) + (queue[j].stalls - row.stalls) = 1
      BY <1>1, <2>1 DEF JobRow
    <2>4. row.state # "completed"
      BY <2>1
    <2> QED
      BY <1>1, <2>1, <2>2, <2>3, <2>4, RowReleased
  <1>4. ASSUME Stall(r)
        PROVE  QueueInv' /\ Releases(r, j) /\ queue'[j].state # "completed"
    <2>1. CASE queue[j].stalls = 0
      <3> DEFINE row == [queue[j] EXCEPT !.state = "failed"]
      <3>1. /\ row \in JobRow /\ row.state = "failed" /\ row.left <= queue[j].left
            /\ row.stalls <= queue[j].stalls
        BY <1>1 DEF JobRow, JobState
      <3>2. Go(r, Idle) /\ queue' = [queue EXCEPT ![j] = row]
        BY <1>4, <2>1 DEF Stall
      <3> HIDE DEF row
      <3> QED
        BY <1>1, <3>1, <3>2, RowReleased
    <2>2. CASE queue[j].stalls # 0
      <3> DEFINE row == [queue[j] EXCEPT !.state = "waiting", !.stalls = @ - 1]
      <3>1. /\ row \in JobRow /\ row.state = "waiting" /\ row.left = queue[j].left
            /\ row.stalls = queue[j].stalls - 1
        <4>1. queue[j].stalls - 1 \in 0 .. MaxStalls
          BY <1>1, <2>2, AttemptsAssumption DEF JobRow
        <4> QED
          BY <1>1, <4>1 DEF JobRow, JobState
      <3>2. Go(r, Idle) /\ queue' = [queue EXCEPT ![j] = row]
        BY <1>1, <1>4, <2>2 DEF Stall
      <3> HIDE DEF row
      <3>3. row.left > 0 /\ (queue[j].left - row.left) + (queue[j].stalls - row.stalls) = 1
        BY <1>1, <3>1 DEF JobRow
      <3> QED
        BY <1>1, <3>1, <3>2, <3>3, RowReleased
    <2> QED
      BY <2>1, <2>2
  <1> QED
    BY <1>1, <1>2, <1>3, <1>4

-----------------------------------------------------------------------------
(* Handlers that go on, and jobs that are left alone. *)

JobsKept(jobs) == \A j \in jobs : queue'[j] = queue[j]

\* A handler that goes on to a step that is not one of these.
LEMMA GoUntouched ==
    ASSUME QueueInv, NEW r \in Request, NEW h, "at" \in DOMAIN h, NEW steps, h.at \notin steps, Go(r, h)
    PROVE  Untouched(steps)
  BY GoMoves DEF QueueInv, Untouched

\* A job that no worker has is in the hands of no handler.
LEMMA OneWorker ==
    ASSUME QueueInv, NEW r \in Request, NEW j \in Job,
           queue[j].state # "active" \/ (IsWorker(r) /\ call[r].job = j)
    PROVE  \A q \in Request : q # r /\ Works(call[q]) => call[q].job # j
  BY DEF QueueInv, QueueOK, IsWorker, Works

-----------------------------------------------------------------------------
(* Alerts. *)

\* The searches that the run of this handler has not notified about.
ToDo(h) ==
    IF h.at = "insertNotice" THEN h.left
    ELSE IF h.at \in {"queueMail", "stampSearch"} THEN h.left \ {h.search} ELSE Search

\* A run will notify, or has notified, about every search that is due, and about none twice.
InRun(h) ==
    h.at \in AlertStep => \A s \in Search :
        /\ s \in ToDo(h) => told[h.job][s] <= RunsMade(h.job)
        /\ s \in due[h.job] => s \in ToDo(h) \/ told[h.job][s] > 0

\* Only searches that are on are due, and none when the business is off the market; what
\* AlertsDelivered says, and a job that is not queued yet has told nobody.
AlertOK(j) ==
    /\ due[j] \subseteq On
    /\ published \/ due[j] = {}
    /\ queue[j] = NoJob => \A s \in Search : told[j][s] = 0
    /\ queue[j].state = "completed" => \A s \in due[j] : told[j][s] > 0
    /\ \A s \in Search :
           told[j][s] <= RunsMade(j) + (IF queue[j].state \in {"active", "completed", "failed"} THEN 1 ELSE 0)

AlertInv ==
    /\ AlertRowsOK
    /\ \A j \in AlertJob : AlertOK(j)
    /\ \A r \in Request : InRun(call[r])

\* Nobody is told anything before a job runs.
LEMMA AlertInvInit == ASSUME BackgroundInit, QueueInv PROVE AlertInv
  <1>1. ASSUME NEW j \in Job
        PROVE  queue[j].state = "absent" /\ RunsMade(j) \in Nat
    <2>1. queue[j].state = "absent"
      BY <1>1 DEF BackgroundInit, QueueInit, NoJob
    <2> QED
      BY <2>1, AttemptsAssumption DEF QueueInv, QueueOK, RunsMade
  <1>2. \A r \in Request : InRun(call[r])
    BY DEF BackgroundInit, HandlerInit, Idle, InRun, AlertStep
  <1>3. /\ published = FALSE /\ search = [s \in Search |-> "absent"]
        /\ told = [j \in AlertJob |-> [s \in Search |-> 0]] /\ due = [j \in AlertJob |-> {}]
    BY DEF BackgroundInit, AlertInit
  <1>4. AlertRowsOK
    BY <1>3 DEF AlertRowsOK, SearchState
  <1>5. ASSUME NEW j \in AlertJob
        PROVE  AlertOK(j)
    <2>1. queue[j].state = "absent" /\ RunsMade(j) \in Nat
      BY <1>1, AlertJobAssumption
    <2>2. due[j] = {} /\ \A s \in Search : told[j][s] = 0
      BY <1>3
    <2> QED
      BY <2>1, <2>2 DEF AlertOK
  <1> QED
    BY <1>2, <1>4, <1>5 DEF AlertInv

\* Steps that make no alert job go on: fewer searches may be due.
LEMMA AlertsKept ==
    ASSUME QueueInv, AlertInv, AlertRowsOK', told' = told, JobsKept(AlertJob), Untouched(AlertStep),
           \A j \in AlertJob : /\ due'[j] \subseteq due[j] /\ due'[j] \subseteq On'
                               /\ published' \/ due'[j] = {}
    PROVE  AlertInv'
  <1>1. ASSUME NEW j \in AlertJob
        PROVE  AlertOK(j)' /\ RunsMade(j)' = RunsMade(j)
    BY <1>1 DEF AlertInv, AlertOK, JobsKept, RunsMade
  <1>2. ASSUME NEW q \in Request, call'[q].at \in AlertStep
        PROVE  InRun(call[q])'
    <2>1. call'[q] = call[q]
      BY <1>2 DEF Untouched
    <2>2. PICK j \in AlertJob : j = call[q].job
      BY <1>2, <2>1, HandlerFields DEF QueueInv
    <2>3. \A s \in Search : /\ s \in ToDo(call[q]) => told[j][s] <= RunsMade(j)
                            /\ s \in due[j] => s \in ToDo(call[q]) \/ told[j][s] > 0
      BY <1>2, <2>1, <2>2 DEF AlertInv, InRun
    <2>4. ToDo(call[q])' = ToDo(call[q]) /\ RunsMade(call[q].job)' = RunsMade(j)
      BY <1>1, <2>1, <2>2 DEF ToDo
    <2> QED
      BY <2>1, <2>2, <2>3, <2>4 DEF InRun
  <1> QED
    BY <1>1, <1>2 DEF AlertInv, InRun

\* A step about one job, which no other handler has.
LEMMA AlertStepKeeps ==
    ASSUME QueueInv, AlertInv, AlertRowsOK', NEW r \in Request, NEW j \in AlertJob,
           \A q \in Request : q # r => call'[q] = call[q],
           \A q \in Request : q # r /\ Works(call[q]) => call[q].job # j,
           \A k \in AlertJob : k # j => queue'[k] = queue[k] /\ told'[k] = told[k] /\ due'[k] = due[k],
           UNCHANGED <<published, search>>,
           AlertOK(j)', InRun(call[r])'
    PROVE  AlertInv'
  <1>1. ASSUME NEW k \in AlertJob, k # j
        PROVE  AlertOK(k)' /\ RunsMade(k)' = RunsMade(k)
    BY <1>1 DEF AlertInv, AlertOK, RunsMade, On
  <1>2. ASSUME NEW q \in Request, q # r, call'[q].at \in AlertStep
        PROVE  InRun(call[q])'
    <2>1. call'[q] = call[q]
      BY <1>2
    <2>2. PICK k \in AlertJob : k = call[q].job /\ k # j
      BY <1>2, <2>1, HandlerFields DEF QueueInv
    <2>3. \A s \in Search : /\ s \in ToDo(call[q]) => told[k][s] <= RunsMade(k)
                            /\ s \in due[k] => s \in ToDo(call[q]) \/ told[k][s] > 0
      BY <1>2, <2>1, <2>2 DEF AlertInv, InRun
    <2>4. ToDo(call[q])' = ToDo(call[q]) /\ RunsMade(call[q].job)' = RunsMade(k)
      BY <1>1, <2>1, <2>2 DEF ToDo
    <2> QED
      BY <2>1, <2>2, <2>3, <2>4 DEF InRun
  <1> QED
    BY <1>1, <1>2 DEF AlertInv, InRun

\* What the number of runs of a job is.
LEMMA RunsAreCounted ==
    ASSUME QueueInv, NEW j \in Job
    PROVE  RunsMade(j) \in Nat
  BY AttemptsAssumption DEF QueueInv, QueueOK, RunsMade

\* The steps that Ai jobs, and requests for them, are in.
AiSide == {"countToday", "insertAiJob", "queueAiJob"} \cup AiStep

\* Every handler of an alert is on this side.
LEMMA Sides ==
    /\ \A step \in AlertStep \cup {"idle", "queueAlerts", "writeSearch", "findSubscription"} : step \notin AiSide
    /\ \A step \in AiSide \cup {"idle", "queueAlerts", "writeSearch", "findSubscription"} : step \notin AlertStep
    /\ Idle.at = "idle" /\ "at" \in DOMAIN Idle
  BY DEF AlertStep, AiSide, AiStep, Caught, Idle

\* A step of the alerts keeps their invariant, and leaves analyses alone.
AlertSound ==
    /\ QueueInv' /\ AlertInv'
    /\ Untouched(AiSide) /\ JobsKept(AiJob)

\* A handler of an endpoint makes a step that queues nothing.
LEMMA EndpointKeeps ==
    ASSUME QueueInv, NEW r \in Request, NEW h \in HttpHandler, Go(r, h), UNCHANGED queue,
           ~ IsWorker(r), h.at \notin AiSide
    PROVE  /\ QueueInv' /\ Untouched(AiSide) /\ Untouched(AlertStep)
           /\ JobsKept(AiJob) /\ JobsKept(AlertJob)
  <1>1. "at" \in DOMAIN h /\ ~ Works(h) /\ h.at \notin AlertStep
    BY HandlerFields, Endpoints
  <1> QED
    BY <1>1, QueueKept, GoUntouched DEF JobsKept

\* Who has just arrived, or is at a step of an endpoint, has no job.
LEMMA NotWorking ==
    ASSUME QueueInv, NEW r \in Request,
           \/ call[r] = Idle
           \/ call[r].at \in {"queueAlerts", "writeSearch", "findSubscription", "countToday", "insertAiJob",
                              "queueAiJob"}
    PROVE  ~ IsWorker(r)
  <1>1. call[r].at \notin AlertStep \cup AiStep
    BY DEF AlertStep, AiStep, Caught, Idle
  <1> QED
    BY <1>1, HandlerFields DEF QueueInv, IsWorker, Works

\* The business goes on the market, and leaves it.
LEMMA PublicationKeeps ==
    ASSUME QueueInv, AlertInv, Unpublish \/ \E r \in Request : Publish(r)
    PROVE  AlertSound
  <1>1. CASE Unpublish
    <2>1. UNCHANGED <<call, scenario, queue, search, told>> /\ published' = FALSE
          /\ due' = [j \in AlertJob |-> {}]
      BY <1>1 DEF Unpublish, handlerVars
    <2>2. /\ QueueInv' /\ Untouched(AiSide) /\ Untouched(AlertStep)
          /\ JobsKept(AiJob) /\ JobsKept(AlertJob)
      BY <2>1 DEF QueueInv, QueueOK, IsWorker, SlotsOK, Untouched, JobsKept
    <2>3. AlertRowsOK'
      BY <2>1 DEF AlertInv, AlertRowsOK
    <2> QED
      BY <2>1, <2>2, <2>3, AlertsKept DEF AlertSound
  <1>2. ASSUME NEW r \in Request, Publish(r)
        PROVE  AlertSound
    <2>1. /\ Go(r, [at |-> "queueAlerts"]) /\ call[r] = Idle
          /\ published' = TRUE /\ UNCHANGED <<queue, search, told, due>>
      BY <1>2 DEF Publish, Begin
    <2>2. /\ QueueInv' /\ Untouched(AiSide) /\ Untouched(AlertStep)
          /\ JobsKept(AiJob) /\ JobsKept(AlertJob)
      BY <2>1, NotWorking, Endpoints, Sides, EndpointKeeps
    <2>3. AlertRowsOK' /\ On' = On
      BY <2>1 DEF AlertInv, AlertRowsOK, On
    <2> QED
      BY <2>1, <2>2, <2>3, AlertsKept DEF AlertSound, AlertInv, AlertOK
  <1> QED
    BY <1>1, <1>2

\* What a write of a saved search does.
LEMMA SearchSet ==
    ASSUME AlertInv, NEW s \in Search, NEW state \in SearchState, SetSearch(s, state),
           UNCHANGED <<published, told>>
    PROVE  /\ AlertRowsOK'
           /\ \A j \in AlertJob : /\ due'[j] \subseteq due[j] /\ due'[j] \subseteq On'
                                  /\ published' \/ due'[j] = {}
  <1>1. /\ search' = [search EXCEPT ![s] = state] /\ search \in [Search -> SearchState]
        /\ due' = [j \in AlertJob |-> IF state = "on" THEN due[j] ELSE due[j] \ {s}]
        /\ due \in [AlertJob -> SUBSET Search]
    BY DEF SetSearch, AlertInv, AlertRowsOK
  <1>2. AlertRowsOK'
    BY <1>1 DEF AlertInv, AlertRowsOK
  <1>3. ASSUME NEW j \in AlertJob
        PROVE  /\ due'[j] \subseteq due[j] /\ due'[j] \subseteq On'
               /\ published' \/ due'[j] = {}
    <2>1. /\ due'[j] = (IF state = "on" THEN due[j] ELSE due[j] \ {s})
          /\ due[j] \subseteq On
          /\ published \/ due[j] = {}
      BY <1>1 DEF AlertInv, AlertOK
    <2>2. On' = IF state = "on" THEN On \cup {s} ELSE On \ {s}
      BY <1>1 DEF On
    <2>3. CASE state = "on"
      BY <2>1, <2>2, <2>3
    <2>4. CASE state # "on"
      BY <2>1, <2>2, <2>4
    <2> QED
      BY <2>3, <2>4
  <1> QED
    BY <1>2, <1>3

\* The saved searches change.
LEMMA SearchesKeep ==
    ASSUME QueueInv, AlertInv,
           \/ \E s \in Search, state \in {"on", "off"} : CreateSearch(s, state)
           \/ \E r \in Request, endpoint \in {"updateSearch", "removeSearch"}, s \in Search, state \in SearchState :
                  BeginSearchWrite(r, endpoint, s, state)
           \/ \E r \in Request : WriteSearch(r)
    PROVE  AlertSound
  <1>1. ASSUME NEW s \in Search, NEW state \in {"on", "off"}, CreateSearch(s, state)
        PROVE  AlertSound
    <2>1. /\ UNCHANGED <<call, scenario, queue, published, told>> /\ SetSearch(s, state)
          /\ state \in SearchState
      BY <1>1 DEF CreateSearch, handlerVars, SearchState
    <2>2. /\ QueueInv' /\ Untouched(AiSide) /\ Untouched(AlertStep)
          /\ JobsKept(AiJob) /\ JobsKept(AlertJob)
      BY <2>1 DEF QueueInv, QueueOK, IsWorker, SlotsOK, Untouched, JobsKept
    <2> QED
      BY <2>1, <2>2, SearchSet, AlertsKept DEF AlertSound
  <1>2. ASSUME NEW r \in Request, NEW endpoint, NEW s \in Search, NEW state \in SearchState,
               BeginSearchWrite(r, endpoint, s, state)
        PROVE  AlertSound
    <2> DEFINE h == [at |-> "writeSearch", search |-> s, state |-> state]
    <2>1. /\ Go(r, h) /\ call[r] = Idle
          /\ UNCHANGED <<queue, published, search, told, due>>
      BY <1>2 DEF BeginSearchWrite, Begin, alertVars
    <2>2. h \in HttpHandler /\ h.at = "writeSearch"
      BY DEF HttpHandler
    <2> HIDE DEF h
    <2>3. /\ QueueInv' /\ Untouched(AiSide) /\ Untouched(AlertStep)
          /\ JobsKept(AiJob) /\ JobsKept(AlertJob)
      BY <2>1, <2>2, NotWorking, Sides, EndpointKeeps
    <2>4. AlertRowsOK' /\ On' = On
      BY <2>1 DEF AlertInv, AlertRowsOK, On
    <2> QED
      BY <2>1, <2>3, <2>4, AlertsKept DEF AlertSound, AlertInv, AlertOK
  <1>3. ASSUME NEW r \in Request, WriteSearch(r)
        PROVE  AlertSound
    <2>1. Go(r, Idle) /\ UNCHANGED <<queue, published, told>> /\ ~ IsWorker(r)
      BY <1>3, NotWorking DEF WriteSearch, At
    <2>2. /\ QueueInv' /\ Untouched(AiSide) /\ Untouched(AlertStep)
          /\ JobsKept(AiJob) /\ JobsKept(AlertJob)
      BY <2>1, Endpoints, Sides, EndpointKeeps
    <2>3. PICK s \in Search, state \in SearchState : s = call[r].search /\ state = call[r].state
      BY <1>3, HandlerFields DEF WriteSearch, At, QueueInv
    <2>4. CASE UNCHANGED <<search, due>>
      <3>1. AlertRowsOK' /\ On' = On
        BY <2>1, <2>4 DEF AlertInv, AlertRowsOK, On
      <3> QED
        BY <2>1, <2>2, <2>4, <3>1, AlertsKept DEF AlertSound, AlertInv, AlertOK
    <2>5. CASE SetSearch(s, state)
      BY <2>1, <2>2, <2>5, SearchSet, AlertsKept DEF AlertSound
    <2> QED
      BY <1>3, <2>3, <2>4, <2>5 DEF WriteSearch
  <1> QED
    BY <1>1, <1>2, <1>3

\* An alert job is queued: nobody has been told, and only searches that are on are due.
LEMMA QueueAlertsKeeps ==
    ASSUME QueueInv, AlertInv, NEW r \in Request, NEW j \in AlertJob, QueueAlerts(r, j)
    PROVE  AlertSound
  <1> DEFINE who == IF published THEN On ELSE {}
  <1>1. /\ At(r, "queueAlerts") /\ Enqueue(j) /\ Go(r, Idle)
        /\ due' = [due EXCEPT ![j] = who] /\ UNCHANGED <<published, search, told>>
    BY DEF QueueAlerts
  <1>2. j \in Job /\ ~ IsWorker(r)
    BY <1>1, AlertJobAssumption, NotWorking DEF At
  <1>3. /\ QueueInv'
        /\ queue[j] = NoJob /\ queue'[j].state = "waiting"
        /\ queue'[j].left = Attempts /\ queue'[j].stalls = MaxStalls
        /\ \A k \in Job : k # j => queue'[k] = queue[k]
    BY <1>1, <1>2, EnqueueKeeps
  <1>4. Untouched(AiSide) /\ call'[r] = Idle /\ \A q \in Request : q # r => call'[q] = call[q]
    BY <1>1, Sides, GoUntouched, GoMoves DEF QueueInv
  <1>5. who \subseteq Search /\ who \subseteq On /\ (published \/ who = {}) /\ On' = On
    BY <1>1 DEF On
  <1> HIDE DEF who
  <1>6. AlertRowsOK' /\ due'[j] = who /\ \A k \in AlertJob : k # j => due'[k] = due[k]
    BY <1>1, <1>5 DEF AlertInv, AlertRowsOK
  <1>7. \A s \in Search : told'[j][s] = 0
    BY <1>1, <1>3 DEF AlertInv, AlertOK
  <1>8. RunsMade(j)' = 0
    BY <1>3, AttemptsAssumption DEF RunsMade
  <1>9. AlertOK(j)'
    BY <1>1, <1>3, <1>5, <1>6, <1>7, <1>8 DEF AlertOK, NoJob
  <1>10. InRun(call[r])'
    BY <1>4 DEF InRun, AlertStep, Idle
  <1>11. \A q \in Request : q # r /\ Works(call[q]) => call[q].job # j
    BY <1>2, <1>3, OneWorker DEF NoJob
  <1>12. AlertInv'
    BY <1>1, <1>3, <1>4, <1>6, <1>9, <1>10, <1>11, AlertJobAssumption, AlertStepKeeps
  <1>13. JobsKept(AiJob)
    BY <1>3, AiJobAssumption, QueuesAssumption DEF JobsKept
  <1> QED
    BY <1>3, <1>4, <1>12, <1>13 DEF AlertSound

\* A worker takes an alert job.
LEMMA TakeAlertsKeeps ==
    ASSUME QueueInv, AlertInv, NEW r \in Request, NEW j \in AlertJob, TakeAlerts(r, j)
    PROVE  AlertSound
  <1> DEFINE h == [at |-> "readListing", job |-> j]
  <1>1. Take(r, j, "readListing") /\ UNCHANGED <<published, search, told, due>> /\ j \in Job
    BY AlertJobAssumption DEF TakeAlerts, alertVars
  <1>2. h \in Worker /\ h.at = "readListing" /\ h.job = j /\ "at" \in DOMAIN h
    BY DEF Worker
  <1>3. /\ QueueInv'
        /\ queue[j].state = "waiting" /\ queue'[j].state = "active"
        /\ queue'[j].left = queue[j].left /\ queue'[j].stalls = queue[j].stalls
        /\ \A k \in Job : k # j => queue'[k] = queue[k]
    BY <1>1, <1>2, TakeKeeps
  <1>4. Go(r, h)
    BY <1>1 DEF Take
  <1> HIDE DEF h
  <1>5. Untouched(AiSide) /\ call'[r] = h /\ \A q \in Request : q # r => call'[q] = call[q]
    BY <1>2, <1>4, Sides, GoUntouched, GoMoves DEF QueueInv, AlertStep
  <1>6. RunsMade(j)' = RunsMade(j) /\ On' = On /\ RunsMade(j) \in Nat
    BY <1>1, <1>3, RunsAreCounted DEF RunsMade, On
  <1>7. AlertRowsOK' /\ \A s \in Search : told[j][s] \in Nat /\ told[j][s] <= RunsMade(j)
    BY <1>1, <1>3, <1>6 DEF AlertInv, AlertRowsOK, AlertOK
  <1>8. AlertOK(j)'
    BY <1>1, <1>3, <1>6, <1>7 DEF AlertInv, AlertOK, NoJob
  <1>9. InRun(call[r])'
    <2>1. call'[r] = h /\ ToDo(call[r])' = Search /\ RunsMade(call[r].job)' = RunsMade(j)
      BY <1>2, <1>5, <1>6 DEF ToDo
    <2>2. due[j] \subseteq Search
      BY DEF AlertInv, AlertRowsOK
    <2> QED
      BY <1>1, <1>2, <1>7, <2>1, <2>2 DEF InRun
  <1>10. \A q \in Request : q # r /\ Works(call[q]) => call[q].job # j
    BY <1>1, <1>3, OneWorker
  <1>11. AlertInv'
    BY <1>1, <1>3, <1>5, <1>7, <1>8, <1>9, <1>10, AlertJobAssumption, AlertStepKeeps
  <1>12. JobsKept(AiJob)
    BY <1>3, AiJobAssumption, QueuesAssumption DEF JobsKept
  <1> QED
    BY <1>3, <1>5, <1>11, <1>12 DEF AlertSound

\* What is known of the handler of an alert at a step.
LEMMA AlertHandler ==
    ASSUME QueueInv, AlertInv, NEW r \in Request, call[r].at \in AlertStep, NEW j, j = call[r].job
    PROVE  /\ j \in AlertJob /\ j \in Job /\ IsWorker(r) /\ queue[j].state = "active"
           /\ \A q \in Request : q # r /\ Works(call[q]) => call[q].job # j
           /\ \A s \in Search :
                  /\ s \in ToDo(call[r]) => told[j][s] <= RunsMade(j)
                  /\ s \in due[j] => s \in ToDo(call[r]) \/ told[j][s] > 0
           /\ AlertOK(j) /\ due[j] \subseteq Search
           /\ RunsMade(j) \in Nat /\ \A s \in Search : told[j][s] \in Nat
  <1>1. j \in AlertJob /\ j \in Job /\ IsWorker(r)
    BY HandlerFields, AlertJobAssumption DEF QueueInv, IsWorker, Works
  <1>2. queue[j].state = "active"
    BY <1>1 DEF QueueInv, QueueOK
  <1> QED
    BY <1>1, <1>2, OneWorker, RunsAreCounted DEF AlertInv, InRun, AlertRowsOK

\* The worker of an alert job lets go of it; if the processor returned, nobody who is due
\* is left.
LEMMA AlertReleased ==
    ASSUME QueueInv, AlertInv, NEW r \in Request, call[r].at \in AlertStep,
           \/ Complete(r) /\ \A s \in due[call[r].job] : told[call[r].job][s] > 0
           \/ Reject(r) \/ Stall(r),
           UNCHANGED alertVars
    PROVE  AlertSound
  <1>1. PICK j : j = call[r].job
    OBVIOUS
  <1>2. /\ j \in AlertJob /\ j \in Job /\ IsWorker(r) /\ queue[j].state = "active"
        /\ \A q \in Request : q # r /\ Works(call[q]) => call[q].job # j
        /\ AlertOK(j) /\ RunsMade(j) \in Nat /\ \A s \in Search : told[j][s] \in Nat
    BY <1>1, AlertHandler
  <1>3. /\ QueueInv' /\ Releases(r, j)
        /\ Reject(r) \/ Stall(r) => queue'[j].state # "completed"
    BY <1>1, <1>2, ReleaseKeeps
  <1>4. UNCHANGED <<published, search, told, due>> /\ On' = On
    BY DEF alertVars, On
  <1>5. Untouched(AiSide) /\ call'[r] = Idle /\ \A q \in Request : q # r => call'[q] = call[q]
    BY <1>3, Sides, GoUntouched, GoMoves DEF QueueInv, Releases
  <1>6. \A k \in Job : k # j => queue'[k] = queue[k]
    BY <1>3 DEF Releases
  <1>7. RunsMade(j)' \in Nat
    BY <1>2, <1>3, AttemptsAssumption DEF QueueInv, QueueOK, RunsMade
  <1>8. AlertOK(j)'
    <2>1. \A s \in Search : told[j][s] <= RunsMade(j) + 1
      BY <1>2 DEF AlertOK
    <2>2. \A s \in Search : told'[j][s] <=
              RunsMade(j)' + (IF queue'[j].state \in {"active", "completed", "failed"} THEN 1 ELSE 0)
      <3>1. CASE queue'[j].state \in {"completed", "failed"} /\ RunsMade(j)' >= RunsMade(j)
        BY <1>2, <1>4, <1>7, <2>1, <3>1
      <3>2. CASE queue'[j].state = "waiting" /\ RunsMade(j)' = RunsMade(j) + 1
        BY <1>2, <1>4, <1>7, <2>1, <3>2
      <3> QED
        BY <1>3, <3>1, <3>2 DEF Releases
    <2>3. queue'[j] # NoJob
      BY <1>3 DEF Releases, NoJob
    <2>4. queue'[j].state = "completed" => \A s \in due'[j] : told'[j][s] > 0
      BY <1>1, <1>3, <1>4
    <2> QED
      BY <1>2, <1>4, <2>2, <2>3, <2>4 DEF AlertOK
  <1>9. InRun(call[r])' /\ AlertRowsOK'
    BY <1>4, <1>5 DEF InRun, AlertStep, Idle, AlertInv, AlertRowsOK
  <1>10. AlertInv'
    BY <1>2, <1>4, <1>5, <1>6, <1>8, <1>9, AlertJobAssumption, AlertStepKeeps
  <1>11. JobsKept(AiJob)
    BY <1>2, <1>6, AiJobAssumption, QueuesAssumption DEF JobsKept
  <1> QED
    BY <1>3, <1>5, <1>10, <1>11 DEF AlertSound

\* The worker of an alert job goes on with its run.
LEMMA AlertGoesOn ==
    ASSUME QueueInv, AlertInv, NEW r \in Request, call[r].at \in AlertStep,
           NEW h \in Worker, h.at \in AlertStep, h.job = call[r].job, Go(r, h), UNCHANGED <<queue, alertVars>>,
           ToDo(h) \subseteq ToDo(call[r]) ,
           \A s \in ToDo(call[r]) \ ToDo(h) : s \in due[h.job] => told[h.job][s] > 0
    PROVE  AlertSound
  <1>1. PICK j : j = call[r].job
    OBVIOUS
  <1>2. /\ j \in AlertJob /\ j \in Job /\ IsWorker(r)
        /\ \A q \in Request : q # r /\ Works(call[q]) => call[q].job # j
        /\ \A s \in Search :
               /\ s \in ToDo(call[r]) => told[j][s] <= RunsMade(j)
               /\ s \in due[j] => s \in ToDo(call[r]) \/ told[j][s] > 0
        /\ AlertOK(j)
    BY <1>1, AlertHandler
  <1>3. Works(h) /\ "at" \in DOMAIN h
    BY HandlerFields
  <1>4. QueueInv'
    BY <1>2, <1>3, QueueKept
  <1>5. Untouched(AiSide) /\ call'[r] = h /\ \A q \in Request : q # r => call'[q] = call[q]
    BY <1>3, Sides, GoUntouched, GoMoves DEF QueueInv
  <1>6. UNCHANGED <<queue, published, search, told, due>>
    BY DEF alertVars
  <1>7. AlertOK(j)' /\ AlertRowsOK' /\ RunsMade(j)' = RunsMade(j)
    BY <1>2, <1>6 DEF AlertOK, AlertInv, AlertRowsOK, On, RunsMade
  <1>8. InRun(call[r])'
    <2>1. ToDo(call[r])' = ToDo(h) /\ RunsMade(call[r].job)' = RunsMade(j)
      BY <1>1, <1>5, <1>7 DEF ToDo
    <2> QED
      BY <1>1, <1>2, <1>5, <1>6, <2>1 DEF InRun
  <1>9. AlertInv'
    BY <1>2, <1>5, <1>6, <1>7, <1>8, AlertJobAssumption, AlertStepKeeps
  <1> QED
    BY <1>4, <1>5, <1>6, <1>9 DEF AlertSound, JobsKept

\* SavedSearchProcessor reads the business, and the searches.
LEMMA ReadingKeeps ==
    ASSUME QueueInv, AlertInv, NEW r \in Request, ReadListing(r) \/ FindSearches(r)
    PROVE  AlertSound
  <1>1. PICK j : j = call[r].job
    OBVIOUS
  <1>2. /\ call[r].at \in {"readListing", "findSearches"} /\ call[r].at \in AlertStep
        /\ UNCHANGED alertVars
    BY DEF ReadListing, FindSearches, At, AlertStep
  <1>3. j \in AlertJob /\ AlertOK(j) /\ ToDo(call[r]) = Search
        /\ call[r] \in [at : {"readListing", "findSearches"}, job : AlertJob]
    BY <1>1, <1>2, AlertHandler, HandlerFields DEF ToDo, QueueInv
  <1>4. CASE Complete(r) /\ due[j] = {}
    BY <1>1, <1>2, <1>4, AlertReleased
  <1>5. CASE ReadListing(r)
    <2>1. CASE published
      <3> DEFINE h == [call[r] EXCEPT !.at = "findSearches"]
      <3>1. Go(r, h) /\ UNCHANGED queue
        BY <1>5, <2>1 DEF ReadListing
      <3>2. h \in Worker /\ h.at = "findSearches" /\ h.at \in AlertStep /\ h.job = j
        BY <1>1, <1>3 DEF Worker, AlertStep
      <3>3. ToDo(h) = Search
        BY <3>2 DEF ToDo
      <3> HIDE DEF h
      <3> QED
        BY <1>1, <1>2, <1>3, <3>1, <3>2, <3>3, AlertGoesOn
    <2>2. CASE ~ published
      BY <1>3, <1>4, <1>5, <2>2 DEF ReadListing, AlertOK
    <2> QED
      BY <2>1, <2>2
  <1>6. CASE FindSearches(r)
    <2>1. CASE On = {}
      BY <1>3, <1>4, <1>6, <2>1 DEF FindSearches, Continue, AlertOK
    <2>2. CASE On # {}
      <3> DEFINE h == [at |-> "insertNotice", job |-> call[r].job, left |-> On]
      <3>1. Go(r, h) /\ UNCHANGED queue
        BY <1>6, <2>2 DEF FindSearches, Continue
      <3>2. h \in Worker /\ h.at \in AlertStep /\ h.job = j /\ h.at = "insertNotice" /\ h.left = On
        BY <1>1, <1>3 DEF Worker, AlertStep, On
      <3> HIDE DEF h
      <3>3. ToDo(h) = On /\ On \subseteq Search
        BY <3>2 DEF ToDo, On
      <3> QED
        BY <1>1, <1>2, <1>3, <3>1, <3>2, <3>3, AlertGoesOn DEF AlertOK
    <2> QED
      BY <2>1, <2>2
  <1> QED
    BY <1>5, <1>6

\* A search is told of the publication, once in this run.
LEMMA InsertNoticeKeeps ==
    ASSUME QueueInv, AlertInv, NEW r \in Request, NEW s \in Search, InsertNotice(r, s)
    PROVE  AlertSound
  <1> DEFINE h == [at |-> "queueMail", job |-> call[r].job, left |-> call[r].left, search |-> s]
  <1>1. PICK j : j = call[r].job
    OBVIOUS
  <1>2. /\ call[r].at = "insertNotice" /\ call[r].at \in AlertStep /\ s \in call[r].left
        /\ told' = [told EXCEPT ![j][s] = @ + 1] /\ Go(r, h)
        /\ UNCHANGED <<queue, published, search, due>>
    BY <1>1 DEF InsertNotice, At, AlertStep
  <1>3. /\ j \in AlertJob /\ j \in Job /\ IsWorker(r) /\ queue[j].state = "active"
        /\ \A q \in Request : q # r /\ Works(call[q]) => call[q].job # j
        /\ AlertOK(j) /\ RunsMade(j) \in Nat /\ \A d \in Search : told[j][d] \in Nat
        /\ call[r].left \subseteq Search /\ ToDo(call[r]) = call[r].left
        /\ \A d \in Search :
               /\ d \in ToDo(call[r]) => told[j][d] <= RunsMade(j)
               /\ d \in due[j] => d \in ToDo(call[r]) \/ told[j][d] > 0
    BY <1>1, <1>2, AlertHandler, HandlerFields DEF QueueInv, ToDo
  <1>4. /\ h \in Worker /\ h.at = "queueMail" /\ h.job = j /\ h.left = call[r].left /\ h.search = s
        /\ Works(h) /\ "at" \in DOMAIN h /\ h.at \notin AiSide
    BY <1>1, <1>3, Sides DEF Worker, Works, AlertStep
  <1> HIDE DEF h
  <1>5. QueueInv'
    BY <1>1, <1>2, <1>3, <1>4, QueueKept
  <1>6. Untouched(AiSide) /\ call'[r] = h /\ \A q \in Request : q # r => call'[q] = call[q]
    BY <1>2, <1>4, GoUntouched, GoMoves DEF QueueInv
  <1>7. /\ told' \in [AlertJob -> [Search -> Nat]]
        /\ told'[j][s] = told[j][s] + 1 /\ \A d \in Search : d # s => told'[j][d] = told[j][d]
        /\ \A k \in AlertJob : k # j => told'[k] = told[k]
    BY <1>2, <1>3 DEF AlertInv, AlertRowsOK
  <1>8. AlertRowsOK' /\ RunsMade(j)' = RunsMade(j) /\ On' = On
    BY <1>2, <1>7 DEF AlertInv, AlertRowsOK, RunsMade, On
  <1>9. AlertOK(j)'
    <2>1. \A d \in Search : told'[j][d] <= RunsMade(j) + 1
      BY <1>2, <1>3, <1>7 DEF AlertOK
    <2> QED
      BY <1>2, <1>3, <1>8, <2>1 DEF AlertOK, NoJob
  <1>10. InRun(call[r])'
    <2>1. /\ ToDo(call[r])' = ToDo(call[r]) \ {s} /\ RunsMade(call[r].job)' = RunsMade(j)
          /\ call'[r].job = j
      BY <1>3, <1>4, <1>6, <1>8 DEF ToDo
    <2> QED
      BY <1>2, <1>3, <1>7, <2>1 DEF InRun
  <1>11. AlertInv'
    BY <1>2, <1>3, <1>6, <1>7, <1>8, <1>9, <1>10, AlertJobAssumption, AlertStepKeeps
  <1> QED
    BY <1>2, <1>5, <1>6, <1>11 DEF AlertSound, JobsKept

\* The e-mail is queued, and the search is stamped: the next one, or the job is done.
LEMMA StampingKeeps ==
    ASSUME QueueInv, AlertInv, NEW r \in Request, QueueMail(r) \/ StampSearch(r)
    PROVE  AlertSound
  <1>1. PICK j, s : j = call[r].job /\ s = call[r].search
    OBVIOUS
  <1>2. /\ call[r].at \in {"queueMail", "stampSearch"} /\ call[r].at \in AlertStep
        /\ UNCHANGED alertVars
    BY DEF QueueMail, StampSearch, At, AlertStep
  <1>3. /\ j \in AlertJob /\ s \in Search /\ due[j] \subseteq Search
        /\ call[r] \in [at : {"queueMail", "stampSearch"}, job : AlertJob, left : SUBSET Search, search : Search]
        /\ ToDo(call[r]) = call[r].left \ {s}
        /\ \A d \in Search : d \in due[j] => d \in ToDo(call[r]) \/ told[j][d] > 0
    BY <1>1, <1>2, AlertHandler, HandlerFields DEF QueueInv, ToDo
  <1>4. CASE QueueMail(r)
    <2> DEFINE h == [call[r] EXCEPT !.at = "stampSearch"]
    <2>1. Go(r, h) /\ UNCHANGED queue
      BY <1>4 DEF QueueMail
    <2>2. /\ h \in Worker /\ h.at = "stampSearch" /\ h.at \in AlertStep /\ h.job = j
          /\ h.left = call[r].left /\ h.search = s
      BY <1>1, <1>3 DEF Worker, AlertStep
    <2> HIDE DEF h
    <2>3. ToDo(h) = ToDo(call[r])
      BY <1>3, <2>2 DEF ToDo
    <2> QED
      BY <1>1, <1>2, <2>1, <2>2, <2>3, AlertGoesOn
  <1>5. CASE StampSearch(r)
    <2>1. CASE search[s] = "absent"
      BY <1>1, <1>2, <1>5, <2>1, AlertReleased DEF StampSearch
    <2>2. CASE search[s] # "absent" /\ call[r].left \ {s} = {}
      BY <1>1, <1>2, <1>3, <1>5, <2>2, AlertReleased DEF StampSearch, Continue
    <2>3. CASE search[s] # "absent" /\ call[r].left \ {s} # {}
      <3> DEFINE h == [at |-> "insertNotice", job |-> call[r].job, left |-> call[r].left \ {s}]
      <3>1. Go(r, h) /\ UNCHANGED queue
        BY <1>1, <1>5, <2>3 DEF StampSearch, Continue
      <3>2. h \in Worker /\ h.at \in AlertStep /\ h.job = j /\ h.at = "insertNotice"
            /\ h.left = call[r].left \ {s}
        BY <1>1, <1>3 DEF Worker, AlertStep
      <3> HIDE DEF h
      <3>3. ToDo(h) = ToDo(call[r])
        BY <1>3, <3>2 DEF ToDo
      <3> QED
        BY <1>1, <1>2, <3>1, <3>2, <3>3, AlertGoesOn
    <2> QED
      BY <2>1, <2>2, <2>3
  <1> QED
    BY <1>4, <1>5

\* Every step of the alerts.
LEMMA AlertNextKeeps ==
    ASSUME QueueInv, AlertInv, AlertNext
    PROVE  AlertSound
  <1>1. ASSUME NEW r \in Request, AlertRejects(r)
        PROVE  AlertSound
    BY <1>1, AlertReleased DEF AlertRejects
  <1>2. "absent" \in SearchState /\ "on" \in SearchState /\ "off" \in SearchState
    BY DEF SearchState
  <1> QED
    BY <1>1, <1>2, PublicationKeeps, SearchesKeep, QueueAlertsKeeps, TakeAlertsKeeps, ReadingKeeps,
       InsertNoticeKeeps, StampingKeeps DEF AlertNext

-----------------------------------------------------------------------------
(* Analyses. *)

\* What the worker of an analysis has done so far, and the row that is to be queued.
InAnswer(h) ==
    /\ h.at = "queueAiJob" => aiJob[h.row] # "absent"
    /\ h.at \in {"notifyReady", "mailReady"} => aiJob[h.job] = "COMPLETED"
    /\ h.at = "mailReady" => "ready" \in answer[h.job]
    /\ h.at \in {"notifyFailed", "mailFailed"} => aiJob[h.job] = "FAILED"
    /\ h.at = "mailFailed" => "unavailable" \in answer[h.job]

\* What AnalysisAnswered says of a row; and one that is not there is not queued.
AnswerOK(j) ==
    /\ aiJob[j] = "absent" => queue[j] = NoJob
    /\ aiJob[j] = "COMPLETED" => j \in analysis
    /\ queue[j].state = "completed" =>
           \/ aiJob[j] = "COMPLETED" /\ "ready" \in answer[j]
           \/ aiJob[j] = "FAILED" /\ "unavailable" \in answer[j]

AnswerInv ==
    /\ AiRowsOK
    /\ \A j \in AiJob : AnswerOK(j)
    /\ \A r \in Request : InAnswer(call[r])

\* No analysis has been asked for.
LEMMA AnswerInvInit == ASSUME BackgroundInit PROVE AnswerInv
  BY AiJobAssumption DEF BackgroundInit, QueueInit, HandlerInit, AiInit, AnswerInv, AiRowsOK, AnswerOK,
                         InAnswer, NoJob, Idle

\* The steps that know something of an analysis.
Answering == {"queueAiJob"} \cup AiStep

\* Steps that make no analysis go on.
LEMMA AnswersKept ==
    ASSUME QueueInv, AnswerInv, UNCHANGED <<aiJob, analysis, answer>>, JobsKept(AiJob),
           Untouched(Answering), today' \subseteq today, subscribed' \in BOOLEAN
    PROVE  AnswerInv'
  <1>1. \A q \in Request : call'[q].at \in Answering => InAnswer(call[q])'
    BY DEF Untouched, AnswerInv, InAnswer
  <1>2. \A q \in Request : InAnswer(call[q])'
    BY <1>1 DEF InAnswer, Answering, AiStep, Caught
  <1>3. AiRowsOK' /\ \A j \in AiJob : AnswerOK(j)'
    BY DEF AnswerInv, AiRowsOK, AnswerOK, JobsKept
  <1> QED
    BY <1>2, <1>3 DEF AnswerInv

\* A step about one row, whose job no other handler has.
LEMMA AnswerStepKeeps ==
    ASSUME QueueInv, AnswerInv, AiRowsOK', NEW r \in Request, NEW j \in AiJob,
           \A q \in Request : q # r => call'[q] = call[q],
           \A q \in Request : q # r /\ Works(call[q]) => call[q].job # j,
           \A k \in AiJob : k # j =>
               /\ queue'[k] = queue[k] /\ aiJob'[k] = aiJob[k] /\ answer'[k] = answer[k]
               /\ k \in analysis => k \in analysis',
           aiJob'[j] # "absent", AnswerOK(j)', InAnswer(call[r])'
    PROVE  AnswerInv'
  <1>1. ASSUME NEW k \in AiJob, k # j
        PROVE  AnswerOK(k)'
    BY <1>1 DEF AnswerInv, AnswerOK
  <1>2. ASSUME NEW q \in Request, q # r
        PROVE  InAnswer(call[q])'
    <2>1. call'[q] = call[q] /\ InAnswer(call[q])
      BY <1>2 DEF AnswerInv
    <2>2. CASE call[q].at = "queueAiJob"
      <3>1. call[q].row \in AiJob
        BY <2>2, HandlerFields DEF QueueInv
      <3> QED
        BY <2>1, <2>2, <3>1 DEF InAnswer
    <2>3. CASE call[q].at \in AiStep
      <3>1. call[q].job \in AiJob /\ call[q].job # j
        BY <1>2, <2>3, HandlerFields DEF QueueInv
      <3> QED
        BY <2>1, <2>3, <3>1 DEF InAnswer, AiStep, Caught
    <2>4. CASE call[q].at \notin Answering
      BY <2>1, <2>4 DEF InAnswer, Answering, AiStep, Caught
    <2> QED
      BY <2>2, <2>3, <2>4 DEF Answering
  <1> QED
    BY <1>1, <1>2 DEF AnswerInv

\* A step of the analyses keeps their invariant, and leaves alerts alone.
AnswerSound ==
    /\ QueueInv' /\ AnswerInv'
    /\ Untouched(AlertStep) /\ JobsKept(AlertJob)

\* Subscriptions, midnight, and requests up to their count.
LEMMA RequestsKeep ==
    ASSUME QueueInv, AnswerInv,
           \/ Subscribe \/ NewDay
           \/ \E r \in Request : RequestAnalysis(r) \/ FindSubscription(r) \/ CountToday(r)
    PROVE  AnswerSound
  <1>1. CASE Subscribe \/ NewDay
    <2>1. /\ UNCHANGED <<call, scenario, queue, aiJob, analysis, answer>>
          /\ today' \subseteq today /\ subscribed' \in BOOLEAN
      BY <1>1 DEF Subscribe, NewDay, handlerVars, AnswerInv, AiRowsOK
    <2>2. /\ QueueInv' /\ Untouched(Answering) /\ Untouched(AlertStep)
          /\ JobsKept(AiJob) /\ JobsKept(AlertJob)
      BY <2>1 DEF QueueInv, QueueOK, IsWorker, SlotsOK, Untouched, JobsKept
    <2> QED
      BY <2>1, <2>2, AnswersKept DEF AnswerSound
  <1>2. ASSUME NEW r \in Request, RequestAnalysis(r) \/ FindSubscription(r) \/ CountToday(r)
        PROVE  AnswerSound
    <2>1. /\ UNCHANGED <<queue, aiJob, today, analysis, answer, subscribed>> /\ ~ IsWorker(r)
      BY <1>2, NotWorking DEF RequestAnalysis, FindSubscription, CountToday, Begin, At, aiVars
    <2>2. PICK h \in HttpHandler : Go(r, h) /\ h.at \in {"idle", "findSubscription", "countToday", "insertAiJob"}
      <3>1. CASE RequestAnalysis(r)
        BY <3>1 DEF RequestAnalysis, Begin, HttpHandler
      <3>2. CASE FindSubscription(r)
        BY <3>2 DEF FindSubscription, HttpHandler, Limit
      <3>3. CASE CountToday(r)
        BY <3>3 DEF CountToday, HttpHandler, Idle
      <3> QED
        BY <1>2, <3>1, <3>2, <3>3
    <2>3. /\ "at" \in DOMAIN h /\ ~ Works(h) /\ h.at \notin Answering /\ h.at \notin AlertStep
      BY <2>2, HandlerFields, Endpoints DEF Answering, AiStep, Caught, AlertStep
    <2>4. QueueInv' /\ Untouched(Answering) /\ Untouched(AlertStep)
      BY <2>1, <2>2, <2>3, QueueKept, GoUntouched
    <2> QED
      BY <2>1, <2>4, AnswersKept DEF AnswerSound, JobsKept, AnswerInv, AiRowsOK
  <1> QED
    BY <1>1, <1>2

\* A row is inserted, and is to be queued.
LEMMA InsertAiJobKeeps ==
    ASSUME QueueInv, AnswerInv, NEW r \in Request, NEW j \in AiJob, InsertAiJob(r, j)
    PROVE  AnswerSound
  <1> DEFINE h == [at |-> "queueAiJob", row |-> j]
  <1>1. /\ At(r, "insertAiJob") /\ aiJob[j] = "absent"
        /\ aiJob' = [aiJob EXCEPT ![j] = "PENDING"] /\ today' = today \cup {j}
        /\ Go(r, h) /\ UNCHANGED <<queue, analysis, answer, subscribed>>
    BY DEF InsertAiJob, IsNext
  <1>2. /\ h \in HttpHandler /\ h.at = "queueAiJob" /\ h.row = j /\ "at" \in DOMAIN h /\ ~ Works(h)
        /\ h.at \notin AlertStep
    BY Endpoints DEF HttpHandler, AlertStep
  <1> HIDE DEF h
  <1>3. QueueInv' /\ Untouched(AlertStep)
    BY <1>1, <1>2, NotWorking, QueueKept, GoUntouched DEF At
  <1>4. call'[r] = h /\ \A q \in Request : q # r => call'[q] = call[q]
    BY <1>1, <1>2, GoMoves DEF QueueInv
  <1>5. queue[j] = NoJob /\ j \in Job
    BY <1>1, AiJobAssumption DEF AnswerInv, AnswerOK
  <1>6. \A q \in Request : q # r /\ Works(call[q]) => call[q].job # j
    BY <1>5, OneWorker DEF NoJob
  <1>7. /\ aiJob'[j] = "PENDING" /\ \A k \in AiJob : k # j => aiJob'[k] = aiJob[k]
        /\ aiJob' \in [AiJob -> AIJobStatus \cup {"absent"}]
    BY <1>1 DEF AnswerInv, AiRowsOK, AIJobStatus
  <1>8. AiRowsOK' /\ AnswerOK(j)' /\ InAnswer(call[r])'
    BY <1>1, <1>2, <1>4, <1>5, <1>7 DEF AnswerInv, AiRowsOK, AnswerOK, InAnswer, NoJob
  <1>9. AnswerInv'
    BY <1>1, <1>4, <1>6, <1>7, <1>8, AnswerStepKeeps
  <1> QED
    BY <1>1, <1>3, <1>9 DEF AnswerSound, JobsKept

\* The row is queued.
LEMMA QueueAiJobKeeps ==
    ASSUME QueueInv, AnswerInv, NEW r \in Request, QueueAiJob(r)
    PROVE  AnswerSound
  <1>1. PICK j \in AiJob : j = call[r].row
    BY HandlerFields DEF QueueAiJob, At, QueueInv
  <1>2. /\ At(r, "queueAiJob") /\ Enqueue(j) /\ Go(r, Idle)
        /\ UNCHANGED <<aiJob, today, analysis, answer, subscribed>>
    BY <1>1 DEF QueueAiJob, aiVars
  <1>3. j \in Job /\ ~ IsWorker(r) /\ aiJob[j] # "absent"
    BY <1>1, <1>2, AiJobAssumption, NotWorking DEF At, AnswerInv, InAnswer
  <1>4. /\ QueueInv'
        /\ queue[j] = NoJob /\ queue'[j].state = "waiting"
        /\ \A k \in Job : k # j => queue'[k] = queue[k]
    BY <1>2, <1>3, EnqueueKeeps
  <1>5. Untouched(AlertStep) /\ call'[r] = Idle /\ \A q \in Request : q # r => call'[q] = call[q]
    BY <1>2, Sides, GoUntouched, GoMoves DEF QueueInv
  <1>6. \A q \in Request : q # r /\ Works(call[q]) => call[q].job # j
    BY <1>3, <1>4, OneWorker DEF NoJob
  <1>7. AiRowsOK' /\ AnswerOK(j)' /\ InAnswer(call[r])'
    BY <1>2, <1>3, <1>4, <1>5 DEF AnswerInv, AiRowsOK, AnswerOK, InAnswer, Idle
  <1>8. AnswerInv'
    BY <1>2, <1>3, <1>4, <1>5, <1>6, <1>7, AiJobAssumption, AnswerStepKeeps
  <1> QED
    BY <1>4, <1>5, <1>8, AlertJobAssumption, QueuesAssumption DEF AnswerSound, JobsKept

\* A worker takes an analysis.
LEMMA TakeAiJobKeeps ==
    ASSUME QueueInv, AnswerInv, NEW r \in Request, NEW j \in AiJob, TakeAiJob(r, j)
    PROVE  AnswerSound
  <1> DEFINE h == [at |-> "readAiJob", job |-> j]
  <1>1. /\ Take(r, j, "readAiJob") /\ j \in Job
        /\ UNCHANGED <<aiJob, today, analysis, answer, subscribed>>
    BY AiJobAssumption DEF TakeAiJob, aiVars
  <1>2. h \in Worker /\ h.at = "readAiJob" /\ "at" \in DOMAIN h /\ h.at \notin AlertStep
    BY DEF Worker, AlertStep
  <1>3. /\ QueueInv'
        /\ queue[j].state = "waiting" /\ queue'[j].state = "active"
        /\ \A k \in Job : k # j => queue'[k] = queue[k]
    BY <1>1, <1>2, TakeKeeps
  <1>4. Go(r, h)
    BY <1>1 DEF Take
  <1> HIDE DEF h
  <1>5. Untouched(AlertStep) /\ call'[r] = h /\ \A q \in Request : q # r => call'[q] = call[q]
    BY <1>2, <1>4, GoUntouched, GoMoves DEF QueueInv
  <1>6. \A q \in Request : q # r /\ Works(call[q]) => call[q].job # j
    BY <1>1, <1>3, OneWorker
  <1>7. aiJob[j] # "absent"
    BY <1>3 DEF AnswerInv, AnswerOK, NoJob
  <1>8. AiRowsOK' /\ AnswerOK(j)' /\ InAnswer(call[r])'
    BY <1>1, <1>2, <1>3, <1>5, <1>7 DEF AnswerInv, AiRowsOK, AnswerOK, InAnswer
  <1>9. AnswerInv'
    BY <1>1, <1>3, <1>5, <1>6, <1>7, <1>8, AiJobAssumption, AnswerStepKeeps
  <1> QED
    BY <1>3, <1>5, <1>9, AlertJobAssumption, QueuesAssumption DEF AnswerSound, JobsKept

\* What is known of the handler of an analysis at a step.
LEMMA AnswerHandler ==
    ASSUME QueueInv, AnswerInv, NEW r \in Request, call[r].at \in AiStep, NEW j, j = call[r].job
    PROVE  /\ j \in AiJob /\ j \in Job /\ IsWorker(r) /\ queue[j].state = "active"
           /\ call[r] \in [at : AiStep, job : AiJob]
           /\ \A q \in Request : q # r /\ Works(call[q]) => call[q].job # j
           /\ AnswerOK(j) /\ aiJob[j] # "absent"
           /\ InAnswer(call[r])
  <1>1. /\ j \in AiJob /\ j \in Job /\ IsWorker(r)
        /\ call[r] \in [at : AiStep, job : AiJob]
    BY HandlerFields, AiJobAssumption DEF QueueInv, IsWorker, Works
  <1>2. queue[j].state = "active"
    BY <1>1 DEF QueueInv, QueueOK
  <1> QED
    BY <1>1, <1>2, OneWorker DEF AnswerInv, AnswerOK, NoJob

\* The worker of an analysis goes on, with writes about its row only.
LEMMA AnswerGoesOn ==
    ASSUME QueueInv, AnswerInv, NEW r \in Request, call[r].at \in AiStep, NEW j, j = call[r].job,
           NEW step \in AiStep, Step(r, step), AiRowsOK',
           aiJob'[j] # "absent", aiJob'[j] = "COMPLETED" => j \in analysis',
           \A k \in AiJob : k # j =>
               /\ aiJob'[k] = aiJob[k] /\ answer'[k] = answer[k]
               /\ k \in analysis => k \in analysis',
           step \in {"notifyReady", "mailReady"} => aiJob'[j] = "COMPLETED",
           step = "mailReady" => "ready" \in answer'[j],
           step \in {"notifyFailed", "mailFailed"} => aiJob'[j] = "FAILED",
           step = "mailFailed" => "unavailable" \in answer'[j]
    PROVE  AnswerSound
  <1> DEFINE h == [call[r] EXCEPT !.at = step]
  <1>1. /\ j \in AiJob /\ IsWorker(r) /\ queue[j].state = "active"
        /\ call[r] \in [at : AiStep, job : AiJob]
        /\ \A q \in Request : q # r /\ Works(call[q]) => call[q].job # j
    BY AnswerHandler
  <1>2. Go(r, h) /\ UNCHANGED queue
    BY DEF Step
  <1>3. h \in Worker /\ h.at = step /\ h.job = j
    BY <1>1 DEF Worker, AiStep
  <1>4. "at" \in DOMAIN h /\ Works(h) /\ h.at \notin AlertStep
    BY <1>3, HandlerFields, Sides DEF AiSide
  <1> HIDE DEF h
  <1>5. QueueInv' /\ Untouched(AlertStep)
    BY <1>1, <1>2, <1>3, <1>4, QueueKept, GoUntouched
  <1>6. call'[r] = h /\ \A q \in Request : q # r => call'[q] = call[q]
    BY <1>2, <1>4, GoMoves DEF QueueInv
  <1>7. AnswerOK(j)' /\ InAnswer(call[r])'
    BY <1>1, <1>2, <1>3, <1>6 DEF AnswerOK, InAnswer, AiStep, Caught
  <1>8. AnswerInv'
    BY <1>1, <1>2, <1>6, <1>7, AnswerStepKeeps
  <1> QED
    BY <1>2, <1>5, <1>8 DEF AnswerSound, JobsKept

\* The worker of an analysis lets go of its job; if the processor returned, the user has
\* been told.
LEMMA AnswerReleased ==
    ASSUME QueueInv, AnswerInv, NEW r \in Request, call[r].at \in AiStep,
           \/ Complete(r) /\ call[r].at \in {"mailReady", "mailFailed"}
           \/ Reject(r) \/ Stall(r),
           UNCHANGED aiVars
    PROVE  AnswerSound
  <1>1. PICK j : j = call[r].job
    OBVIOUS
  <1>2. /\ j \in AiJob /\ j \in Job /\ IsWorker(r)
        /\ \A q \in Request : q # r /\ Works(call[q]) => call[q].job # j
        /\ AnswerOK(j) /\ aiJob[j] # "absent" /\ InAnswer(call[r])
    BY <1>1, AnswerHandler
  <1>3. /\ QueueInv' /\ Releases(r, j)
        /\ Reject(r) \/ Stall(r) => queue'[j].state # "completed"
    BY <1>1, <1>2, ReleaseKeeps
  <1>4. UNCHANGED <<aiJob, today, analysis, answer, subscribed>>
    BY DEF aiVars
  <1>5. Untouched(AlertStep) /\ call'[r] = Idle /\ \A q \in Request : q # r => call'[q] = call[q]
    BY <1>3, Sides, GoUntouched, GoMoves DEF QueueInv, Releases
  <1>6. \A k \in Job : k # j => queue'[k] = queue[k]
    BY <1>3 DEF Releases
  <1>7. AnswerOK(j)'
    <2>1. queue'[j].state = "completed" => call[r].at \in {"mailReady", "mailFailed"}
      BY <1>3
    <2> QED
      BY <1>1, <1>2, <1>4, <2>1 DEF AnswerOK, InAnswer
  <1>8. AiRowsOK' /\ InAnswer(call[r])'
    BY <1>4, <1>5 DEF AnswerInv, AiRowsOK, InAnswer, Idle
  <1>9. AnswerInv'
    BY <1>2, <1>4, <1>5, <1>6, <1>7, <1>8, AiJobAssumption, AnswerStepKeeps
  <1> QED
    BY <1>2, <1>3, <1>5, <1>6, <1>9, AlertJobAssumption, QueuesAssumption DEF AnswerSound, JobsKept

\* The status of one row is written.
LEMMA StatusWritten ==
    ASSUME AnswerInv, NEW j \in AiJob, NEW status \in AIJobStatus, aiJob' = [aiJob EXCEPT ![j] = status],
           UNCHANGED <<today, answer, subscribed>>,
           UNCHANGED analysis \/ analysis' = analysis \cup {j}
    PROVE  /\ AiRowsOK' /\ aiJob'[j] = status
           /\ \A k \in AiJob : k # j => aiJob'[k] = aiJob[k]
  <1>1. /\ aiJob'[j] = status /\ \A k \in AiJob : k # j => aiJob'[k] = aiJob[k]
        /\ aiJob' \in [AiJob -> AIJobStatus \cup {"absent"}] /\ status # "absent"
    BY DEF AnswerInv, AiRowsOK, AIJobStatus
  <1> QED
    BY <1>1 DEF AnswerInv, AiRowsOK

\* A notification about one row is inserted.
LEMMA AnswerWritten ==
    ASSUME AnswerInv, NEW j \in AiJob, NEW text \in Answers, answer' = [answer EXCEPT ![j] = @ \cup {text}],
           UNCHANGED <<aiJob, today, analysis, subscribed>>
    PROVE  /\ AiRowsOK' /\ text \in answer'[j]
           /\ \A k \in AiJob : k # j => answer'[k] = answer[k]
  BY DEF AnswerInv, AiRowsOK

\* The steps of AiProcessor.
LEMMA AiProcessorKeeps ==
    ASSUME QueueInv, AnswerInv, NEW r \in Request,
           \/ ReadAiJob(r) \/ SetRunning(r) \/ Analyze(r) \/ CommitAnalysis(r) \/ NotifyReady(r)
           \/ SetFailed(r) \/ NotifyFailed(r)
    PROVE  AnswerSound
  <1>1. PICK j : j = call[r].job
    OBVIOUS
  <1>2. call[r].at \in AiStep
    BY DEF ReadAiJob, SetRunning, Analyze, CommitAnalysis, NotifyReady, SetFailed, NotifyFailed, At,
           AiStep, Caught
  <1>3. j \in AiJob /\ AnswerOK(j) /\ aiJob[j] # "absent" /\ InAnswer(call[r])
    BY <1>1, <1>2, AnswerHandler
  <1>4. ASSUME NEW step \in {"setRunning", "commitAnalysis", "setFailed"}, Step(r, step), UNCHANGED aiVars
        PROVE  AnswerSound
    <2>1. step \in AiStep /\ UNCHANGED <<aiJob, today, analysis, answer, subscribed>>
      BY <1>4 DEF AiStep, Caught, aiVars
    <2>2. AiRowsOK' /\ (aiJob'[j] = "COMPLETED" => j \in analysis')
      BY <1>3, <2>1 DEF AnswerInv, AiRowsOK, AnswerOK
    <2> QED
      BY <1>1, <1>2, <1>3, <1>4, <2>1, <2>2, AnswerGoesOn
  <1>5. CASE ReadAiJob(r) \/ Analyze(r)
    BY <1>4, <1>5 DEF ReadAiJob, Analyze
  <1>6. CASE SetRunning(r)
    <2>1. /\ aiJob' = [aiJob EXCEPT ![j] = "RUNNING"] /\ Step(r, "analyze")
          /\ UNCHANGED <<today, analysis, answer, subscribed>>
      BY <1>1, <1>6 DEF SetRunning, SetRow
    <2>2. /\ AiRowsOK' /\ aiJob'[j] = "RUNNING"
          /\ \A k \in AiJob : k # j => aiJob'[k] = aiJob[k]
      BY <1>3, <2>1, StatusWritten DEF AIJobStatus
    <2> QED
      BY <1>1, <1>2, <2>1, <2>2, AnswerGoesOn DEF AiStep
  <1>7. CASE CommitAnalysis(r)
    <2>1. CASE j \in analysis
      BY <1>1, <1>4, <1>7, <2>1 DEF CommitAnalysis, aiVars
    <2>2. CASE j \notin analysis
      <3>1. /\ aiJob' = [aiJob EXCEPT ![j] = "COMPLETED"] /\ Step(r, "notifyReady")
            /\ analysis' = analysis \cup {j} /\ UNCHANGED <<today, answer, subscribed>>
        BY <1>1, <1>7, <2>2 DEF CommitAnalysis, SetRow
      <3>2. /\ AiRowsOK' /\ aiJob'[j] = "COMPLETED"
            /\ \A k \in AiJob : k # j => aiJob'[k] = aiJob[k]
        BY <1>3, <3>1, StatusWritten DEF AIJobStatus
      <3> QED
        BY <1>1, <1>2, <3>1, <3>2, AnswerGoesOn DEF AiStep, Caught
    <2> QED
      BY <2>1, <2>2
  <1>8. CASE NotifyReady(r)
    <2>1. /\ answer' = [answer EXCEPT ![j] = @ \cup {"ready"}] /\ Step(r, "mailReady")
          /\ UNCHANGED <<aiJob, today, analysis, subscribed>>
      BY <1>1, <1>8 DEF NotifyReady, Notify
    <2>2. /\ AiRowsOK' /\ "ready" \in answer'[j]
          /\ \A k \in AiJob : k # j => answer'[k] = answer[k]
      BY <1>3, <2>1, AnswerWritten DEF Answers
    <2>3. aiJob[j] = "COMPLETED" /\ j \in analysis
      BY <1>1, <1>3, <1>8 DEF NotifyReady, At, InAnswer, AnswerOK
    <2> QED
      BY <1>1, <1>2, <2>1, <2>2, <2>3, AnswerGoesOn DEF AiStep, Caught
  <1>9. CASE SetFailed(r)
    <2>1. /\ aiJob' = [aiJob EXCEPT ![j] = "FAILED"] /\ Step(r, "notifyFailed")
          /\ UNCHANGED <<today, analysis, answer, subscribed>>
      BY <1>1, <1>9 DEF SetFailed, SetRow
    <2>2. /\ AiRowsOK' /\ aiJob'[j] = "FAILED"
          /\ \A k \in AiJob : k # j => aiJob'[k] = aiJob[k]
      BY <1>3, <2>1, StatusWritten DEF AIJobStatus
    <2> QED
      BY <1>1, <1>2, <2>1, <2>2, AnswerGoesOn DEF AiStep
  <1>10. CASE NotifyFailed(r)
    <2>1. /\ answer' = [answer EXCEPT ![j] = @ \cup {"unavailable"}] /\ Step(r, "mailFailed")
          /\ UNCHANGED <<aiJob, today, analysis, subscribed>>
      BY <1>1, <1>10 DEF NotifyFailed, Notify
    <2>2. /\ AiRowsOK' /\ "unavailable" \in answer'[j]
          /\ \A k \in AiJob : k # j => answer'[k] = answer[k]
      BY <1>3, <2>1, AnswerWritten DEF Answers
    <2>3. aiJob[j] = "FAILED"
      BY <1>1, <1>3, <1>10 DEF NotifyFailed, At, InAnswer
    <2> QED
      BY <1>1, <1>2, <2>1, <2>2, <2>3, AnswerGoesOn DEF AiStep
  <1> QED
    BY <1>5, <1>6, <1>7, <1>8, <1>9, <1>10

\* An await of AiProcessor rejects: what was caught makes the row FAILED.
LEMMA AiRejectsKeeps ==
    ASSUME QueueInv, AnswerInv, NEW r \in Request, AiRejects(r)
    PROVE  AnswerSound
  <1>1. PICK j : j = call[r].job
    OBVIOUS
  <1>2. call[r].at \in AiStep /\ UNCHANGED <<aiJob, today, analysis, answer, subscribed>>
    BY DEF AiRejects, AiStep, aiVars
  <1>3. CASE Step(r, "setFailed")
    <2>1. j \in AiJob /\ AnswerOK(j) /\ aiJob[j] # "absent"
      BY <1>1, <1>2, AnswerHandler
    <2>2. AiRowsOK' /\ (aiJob'[j] = "COMPLETED" => j \in analysis')
      BY <1>2, <2>1 DEF AnswerInv, AiRowsOK, AnswerOK
    <2> QED
      BY <1>1, <1>2, <1>3, <2>1, <2>2, AnswerGoesOn DEF AiStep
  <1>4. CASE Reject(r)
    BY <1>2, <1>4, AnswerReleased DEF AiRejects
  <1> QED
    BY <1>3, <1>4 DEF AiRejects

\* Every step of the analyses.
LEMMA AiNextKeeps ==
    ASSUME QueueInv, AnswerInv, AiNext
    PROVE  AnswerSound
  <1>1. ASSUME NEW r \in Request, MailAnswer(r)
        PROVE  AnswerSound
    BY <1>1, AnswerReleased DEF MailAnswer, AiStep, Caught
  <1> QED
    BY <1>1, RequestsKeep, InsertAiJobKeeps, QueueAiJobKeeps, TakeAiJobKeeps, AiProcessorKeeps,
       AiRejectsKeeps DEF AiNext

-----------------------------------------------------------------------------
(* The daily limit. *)

\* The requests that have counted less than their limit, and not yet inserted.
Inserters == {r \in Request : At(r, "insertAiJob")}

\* Those who will insert count: when the last of them looked, there was room for a row.
LimitInv ==
    /\ IsFiniteSet(today)
    /\ Cardinality(today) + Cardinality(Inserters) < Limit(subscribed) + Cardinality(Request)
    /\ \A r \in Request : At(r, "countToday") => call[r].limit <= Limit(subscribed)

\* The steps that count.
Asking == {"insertAiJob", "countToday"}

\* There are no more inserters than requests.
LEMMA InsertersBounded ==
    /\ Cardinality(Inserters) \in Nat /\ Cardinality(Request) \in Nat /\ IsFiniteSet(Inserters)
    /\ Cardinality(Inserters) <= Cardinality(Request)
  <1>1. Inserters \in SUBSET Request
    BY DEF Inserters
  <1> QED
    BY <1>1, SlotsAssumption, FS_Subset, FS_CardinalityType

\* The limits are numbers, and a subscription raises them.
LEMMA LimitsGrow ==
    /\ \A pro \in BOOLEAN : Limit(pro) \in Nat /\ Limit(pro) > 0 /\ Limit(pro) <= Limit(TRUE)
    /\ FreeLimit \in Nat /\ ProLimit \in Nat
  BY LimitAssumption DEF Limit

\* Nobody has asked.
LEMMA LimitInvInit == ASSUME BackgroundInit PROVE LimitInv
  <1>1. today = {} /\ subscribed = FALSE /\ \A r \in Request : call[r].at = "idle"
    BY DEF BackgroundInit, AiInit, HandlerInit, Idle
  <1>2. Cardinality(today) = 0 /\ IsFiniteSet(today)
    BY <1>1, FS_EmptySet
  <1>3. \A r \in Request : ~ At(r, "countToday")
    BY <1>1 DEF At
  <1>4. Limit(subscribed) \in Nat /\ Limit(subscribed) > 0
    BY <1>1, LimitsGrow
  <1>5. Cardinality(today) + Cardinality(Inserters) < Limit(subscribed) + Cardinality(Request)
    BY <1>2, <1>4, InsertersBounded
  <1> QED
    BY <1>2, <1>3, <1>5 DEF LimitInv

\* Steps of others, midnight and a subscription.
LEMMA LimitKept ==
    ASSUME QueueInv, AnswerInv, LimitInv, Untouched(Asking), today' = today \/ today' = {},
           subscribed' = subscribed \/ subscribed' = TRUE
    PROVE  LimitInv'
  <1>1. Inserters' \in SUBSET Inserters
    BY DEF Inserters, Untouched, Asking, At
  <1>2. Cardinality(Inserters') \in Nat /\ Cardinality(Inserters') <= Cardinality(Inserters)
    BY <1>1, InsertersBounded, FS_Subset, FS_CardinalityType
  <1>3. IsFiniteSet(today') /\ Cardinality(today') \in Nat /\ Cardinality(today') <= Cardinality(today)
    <2>1. IsFiniteSet(today) /\ Cardinality(today) \in Nat
      BY FS_CardinalityType DEF LimitInv
    <2>2. CASE today' = today
      BY <2>1, <2>2
    <2>3. CASE today' = {}
      <3>1. IsFiniteSet(today') /\ Cardinality(today') = 0
        BY <2>3, FS_EmptySet
      <3> QED
        BY <2>1, <3>1
    <2> QED
      BY <2>2, <2>3
  <1>4. /\ Limit(subscribed) \in Nat /\ Limit(subscribed') \in Nat
        /\ Limit(subscribed) <= Limit(subscribed')
    BY LimitAssumption DEF AnswerInv, AiRowsOK, Limit
  <1>5. Cardinality(today') + Cardinality(Inserters') < Limit(subscribed') + Cardinality(Request)
    BY <1>2, <1>3, <1>4, InsertersBounded, FS_CardinalityType DEF LimitInv
  <1>6. ASSUME NEW r \in Request, call'[r].at = "countToday"
        PROVE  call'[r].limit <= Limit(subscribed')
    <2>1. call'[r] = call[r] /\ call[r].limit <= Limit(subscribed)
      BY <1>6 DEF Untouched, Asking, LimitInv, At
    <2>2. call[r].limit \in Nat
      BY <1>6, <2>1, HandlerFields, LimitsGrow DEF QueueInv
    <2> QED
      BY <1>4, <2>1, <2>2
  <1> QED
    BY <1>3, <1>5, <1>6 DEF LimitInv, At

\* A request reads the subscription, counts, and inserts.
LEMMA CountingKeeps ==
    ASSUME QueueInv, AnswerInv, LimitInv, NEW r \in Request,
           FindSubscription(r) \/ CountToday(r) \/ \E j \in AiJob : InsertAiJob(r, j)
    PROVE  LimitInv'
  <1>1. /\ Limit(subscribed) \in Nat /\ Cardinality(today) \in Nat /\ Cardinality(Inserters') \in Nat
        /\ Cardinality(Inserters') <= Cardinality(Request) /\ Cardinality(Request) \in Nat
    <2>1. Inserters' \in SUBSET Request
      BY DEF Inserters
    <2> QED
      BY <2>1, SlotsAssumption, LimitsGrow, FS_Subset, FS_CardinalityType DEF LimitInv, AnswerInv, AiRowsOK
  <1>2. CASE FindSubscription(r)
    <2> DEFINE h == [at |-> "countToday", limit |-> Limit(subscribed)]
    <2>1. Go(r, h) /\ UNCHANGED <<today, subscribed>>
      BY <1>2 DEF FindSubscription, aiVars
    <2>2. call'[r] = h /\ \A q \in Request : q # r => call'[q] = call[q]
      BY <2>1, GoMoves DEF QueueInv
    <2>3. Inserters' = Inserters
      BY <1>2, <2>2 DEF Inserters, At, FindSubscription
    <2>4. \A q \in Request : call'[q].at = "countToday" => call'[q].limit <= Limit(subscribed)
      BY <1>1, <2>2 DEF LimitInv, At
    <2> QED
      BY <2>1, <2>3, <2>4 DEF LimitInv, At
  <1>3. CASE CountToday(r)
    <2>1. UNCHANGED <<today, subscribed>> /\ call[r].limit <= Limit(subscribed) /\ call[r].limit \in Nat
      BY <1>3, HandlerFields, LimitsGrow DEF CountToday, aiVars, LimitInv, QueueInv, At
    <2>2. CASE Cardinality(today) >= call[r].limit
      <3>1. Go(r, Idle)
        BY <1>3, <2>2 DEF CountToday
      <3>2. Untouched(Asking)
        BY <3>1, Sides, GoUntouched DEF Asking
      <3> QED
        BY <2>1, <3>2, LimitKept
    <2>3. CASE ~ (Cardinality(today) >= call[r].limit)
      <3>1. Go(r, [at |-> "insertAiJob"])
        BY <1>3, <2>3 DEF CountToday
      <3>2. call'[r].at = "insertAiJob" /\ \A q \in Request : q # r => call'[q] = call[q]
        BY <3>1, GoMoves DEF QueueInv
      <3>3. \A q \in Request : call'[q].at = "countToday" => call'[q].limit <= Limit(subscribed)
        BY <3>2 DEF LimitInv, At
      <3>4. Cardinality(today) + Cardinality(Inserters') < Limit(subscribed) + Cardinality(Request)
        BY <1>1, <2>1, <2>3
      <3> QED
        BY <2>1, <3>3, <3>4 DEF LimitInv, At
    <2> QED
      BY <2>2, <2>3
  <1>4. ASSUME NEW j \in AiJob, InsertAiJob(r, j)
        PROVE  LimitInv'
    <2>1. /\ today' = today \cup {j} /\ subscribed' = subscribed /\ At(r, "insertAiJob")
          /\ Go(r, [at |-> "queueAiJob", row |-> j])
      BY <1>4 DEF InsertAiJob
    <2>2. call'[r].at = "queueAiJob" /\ \A q \in Request : q # r => call'[q] = call[q]
      BY <2>1, GoMoves DEF QueueInv
    <2>3. Inserters' = Inserters \ {r} /\ r \in Inserters
      BY <2>1, <2>2 DEF Inserters, At
    <2>4. Cardinality(Inserters') = Cardinality(Inserters) - 1
      BY <2>3, InsertersBounded, FS_RemoveElement
    <2>5. /\ IsFiniteSet(today') /\ Cardinality(today') \in Nat
          /\ Cardinality(today') <= Cardinality(today) + 1
      <3>1. IsFiniteSet(today)
        BY DEF LimitInv
      <3>2. /\ IsFiniteSet(today \cup {j})
            /\ Cardinality(today \cup {j}) = IF j \in today THEN Cardinality(today) ELSE Cardinality(today) + 1
        BY <3>1, FS_AddElement
      <3> QED
        BY <1>1, <2>1, <3>2
    <2>6. \A q \in Request : call'[q].at = "countToday" => call'[q].limit <= Limit(subscribed)
      BY <2>2 DEF LimitInv, At
    <2>7. Cardinality(today') + Cardinality(Inserters') < Limit(subscribed) + Cardinality(Request)
      BY <1>1, <2>4, <2>5, InsertersBounded DEF LimitInv
    <2> QED
      BY <2>1, <2>5, <2>6, <2>7 DEF LimitInv, At
  <1> QED
    BY <1>2, <1>3, <1>4

\* The other steps of the analyses count nothing.
LEMMA AiNextKeepsLimit ==
    ASSUME QueueInv, AnswerInv, LimitInv, AiNext
    PROVE  LimitInv'
  <1>1. CASE Subscribe \/ NewDay
    <2>1. Untouched(Asking)
      BY <1>1 DEF Subscribe, NewDay, handlerVars, QueueInv, SlotsOK, Untouched
    <2> QED
      BY <1>1, <2>1, LimitKept DEF Subscribe, NewDay
  <1>2. ASSUME NEW r \in Request, NEW h, Go(r, h), "at" \in DOMAIN h, h.at \notin Asking,
               UNCHANGED <<today, subscribed>>
        PROVE  LimitInv'
    BY <1>2, GoUntouched, LimitKept
  <1>3. ASSUME NEW r \in Request, NEW step, Step(r, step), step \notin Asking, UNCHANGED <<today, subscribed>>
        PROVE  LimitInv'
    BY <1>2, <1>3, AtMoves DEF Step, QueueInv
  <1>4. ASSUME NEW r \in Request, Go(r, Idle), UNCHANGED <<today, subscribed>>
        PROVE  LimitInv'
    BY <1>2, <1>4, Sides DEF Asking
  <1>5. ASSUME NEW r \in Request, RequestAnalysis(r)
        PROVE  LimitInv'
    BY <1>2, <1>5 DEF RequestAnalysis, Begin, Asking, aiVars
  <1>6. ASSUME NEW r \in Request, NEW j \in AiJob, TakeAiJob(r, j)
        PROVE  LimitInv'
    BY <1>2, <1>6 DEF TakeAiJob, Take, Asking, aiVars
  <1>7. ASSUME NEW r \in Request,
               \/ ReadAiJob(r) \/ SetRunning(r) \/ Analyze(r) \/ CommitAnalysis(r) \/ NotifyReady(r)
               \/ SetFailed(r) \/ NotifyFailed(r)
        PROVE  LimitInv'
    <2>1. PICK step \in AiStep : Step(r, step)
      BY <1>7 DEF ReadAiJob, SetRunning, Analyze, CommitAnalysis, NotifyReady, SetFailed, NotifyFailed,
                  AiStep, Caught
    <2>2. step \notin Asking
      BY DEF AiStep, Caught, Asking
    <2>3. UNCHANGED <<today, subscribed>>
      BY <1>7 DEF ReadAiJob, SetRunning, Analyze, CommitAnalysis, NotifyReady, SetFailed, NotifyFailed, aiVars
    <2> QED
      BY <1>3, <2>1, <2>2, <2>3
  <1>8. ASSUME NEW r \in Request, QueueAiJob(r) \/ MailAnswer(r)
        PROVE  LimitInv'
    BY <1>4, <1>8 DEF QueueAiJob, MailAnswer, Complete, aiVars
  <1>9. ASSUME NEW r \in Request, AiRejects(r)
        PROVE  LimitInv'
    BY <1>3, <1>4, <1>9 DEF AiRejects, Reject, Asking, aiVars
  <1> QED
    BY <1>1, <1>5, <1>6, <1>7, <1>8, <1>9, CountingKeeps DEF AiNext

-----------------------------------------------------------------------------
(* The invariants hold. *)

BackgroundInv == QueueInv /\ AlertInv /\ AnswerInv /\ LimitInv

\* The background work starts with nothing to do.
LEMMA BackgroundInvInit == ASSUME BackgroundInit PROVE BackgroundInv
  BY QueueInvInit, AlertInvInit, AnswerInvInit, LimitInvInit DEF BackgroundInv

\* A process dies: the caller gets no answer, the job stalls.
LEMMA CrashKeeps ==
    ASSUME BackgroundInv, NEW r \in Request, Crash(r)
    PROVE  BackgroundInv'
  <1> USE DEF BackgroundInv
  <1>1. /\ Go(r, Idle) /\ UNCHANGED <<alertVars, aiVars>>
        /\ UNCHANGED <<published, search, told, due, aiJob, today, analysis, answer, subscribed>>
    BY DEF Crash, Fail, Stall, alertVars, aiVars
  <1>2. Untouched(AiSide) /\ Untouched(AlertStep) /\ Untouched(Answering) /\ Untouched(Asking)
    BY <1>1, Sides, GoUntouched DEF Answering, Asking, AiSide
  <1>3. LimitInv'
    BY <1>1, <1>2, LimitKept
  <1>4. AlertRowsOK' /\ \A j \in AlertJob : due'[j] \subseteq On' /\ (published' \/ due'[j] = {})
    BY <1>1 DEF AlertInv, AlertRowsOK, AlertOK, On
  <1>5. subscribed' \in BOOLEAN
    BY <1>1 DEF AnswerInv, AiRowsOK
  <1>6. CASE ~ IsWorker(r) /\ UNCHANGED queue
    <2>1. QueueInv' /\ JobsKept(AlertJob) /\ JobsKept(AiJob)
      BY <1>1, <1>6, Endpoints, QueueKept DEF JobsKept
    <2> QED
      BY <1>1, <1>2, <1>3, <1>4, <1>5, <2>1, AlertsKept, AnswersKept
  <1>7. CASE Stall(r)
    <2>1. IsWorker(r) /\ call[r].at \in AlertStep \cup AiStep
      BY <1>7, HandlerFields DEF Stall, IsWorker, Works, QueueInv
    <2>2. CASE call[r].at \in AlertStep
      <3>1. AlertSound
        BY <1>1, <1>7, <2>2, AlertReleased
      <3> QED
        BY <1>1, <1>2, <1>3, <1>5, <3>1, AnswersKept DEF AlertSound
    <2>3. CASE call[r].at \in AiStep
      <3>1. AnswerSound
        BY <1>1, <1>7, <2>3, AnswerReleased
      <3> QED
        BY <1>1, <1>2, <1>3, <1>4, <3>1, AlertsKept DEF AnswerSound
    <2> QED
      BY <2>1, <2>2, <2>3
  <1> QED
    BY <1>6, <1>7 DEF Crash

\* Every step of the background work keeps the invariant: each side keeps its own, and
\* that of the other by leaving it alone.
LEMMA BackgroundInvNext ==
    ASSUME BackgroundInv, [BackgroundNext]_backgroundVars
    PROVE  BackgroundInv'
  <1> USE DEF BackgroundInv
  <1>1. CASE AlertNext /\ UNCHANGED aiVars
    <2>1. AlertSound
      BY <1>1, AlertNextKeeps
    <2>2. Untouched(Answering) /\ Untouched(Asking)
      BY <2>1 DEF AlertSound, Untouched, AiSide, Answering, Asking
    <2>3. UNCHANGED <<aiJob, today, analysis, answer, subscribed>> /\ subscribed' \in BOOLEAN
      BY <1>1 DEF aiVars, AnswerInv, AiRowsOK
    <2> QED
      BY <2>1, <2>2, <2>3, AnswersKept, LimitKept DEF AlertSound
  <1>2. CASE AiNext /\ UNCHANGED alertVars
    <2>1. AnswerSound /\ LimitInv'
      BY <1>2, AiNextKeeps, AiNextKeepsLimit
    <2>2. UNCHANGED <<published, search, told, due>>
      BY <1>2 DEF alertVars
    <2>3. AlertRowsOK' /\ \A j \in AlertJob : due'[j] \subseteq On' /\ (published' \/ due'[j] = {})
      BY <2>2 DEF AlertInv, AlertRowsOK, AlertOK, On
    <2> QED
      BY <2>1, <2>2, <2>3, AlertsKept DEF AnswerSound
  <1>3. CASE UNCHANGED backgroundVars
    <2>1. /\ UNCHANGED <<call, scenario, queue, published, search, told, due>>
          /\ UNCHANGED <<aiJob, today, analysis, answer, subscribed>>
      BY <1>3 DEF backgroundVars, handlerVars, alertVars, aiVars
    <2>2. QueueInv'
      BY <2>1 DEF QueueInv, QueueOK, SlotsOK, IsWorker
    <2>3. \A steps : Untouched(steps)
      BY <2>1 DEF QueueInv, SlotsOK, Untouched
    <2>4. JobsKept(AlertJob) /\ JobsKept(AiJob)
      BY <2>1 DEF JobsKept
    <2>5. AlertRowsOK' /\ \A j \in AlertJob : due'[j] \subseteq On' /\ (published' \/ due'[j] = {})
      BY <2>1 DEF AlertInv, AlertRowsOK, AlertOK, On
    <2>6. subscribed' \in BOOLEAN
      BY <2>1 DEF AnswerInv, AiRowsOK
    <2> QED
      BY <2>1, <2>2, <2>3, <2>4, <2>5, <2>6, AlertsKept, AnswersKept, LimitKept
  <1> QED
    BY <1>1, <1>2, <1>3, CrashKeeps DEF BackgroundNext

\* The inductive invariant of the background work holds.
THEOREM BackgroundInvHolds == BackgroundSpec => []BackgroundInv
  <1>1. BackgroundInit => BackgroundInv
    BY BackgroundInvInit
  <1>2. BackgroundInv /\ [BackgroundNext]_backgroundVars => BackgroundInv'
    BY BackgroundInvNext
  <1> QED
    BY <1>1, <1>2, PTL DEF BackgroundSpec

\* Rows, handlers and jobs are well typed, and a job is with one worker at most, whatever
\* stalls and is taken again.
THEOREM BackgroundTypesHold == BackgroundSpec => []BackgroundTypeOK
  <1>1. BackgroundInv => BackgroundTypeOK
    BY DEF BackgroundInv, BackgroundTypeOK, QueueInv, SlotsOK, AlertInv, AnswerInv
  <1> QED
    BY <1>1, BackgroundInvHolds, PTL

\* By the time an alert job is completed every search it is due to has been told, and
\* no search more often than the job was run, whatever failed and was retried.
THEOREM AlertsAreDelivered == BackgroundSpec => []AlertsDelivered
  <1>1. BackgroundInv => AlertsDelivered
    <2>1. ASSUME BackgroundInv
          PROVE  AlertsArrive
      BY <2>1 DEF BackgroundInv, AlertInv, AlertOK, AlertsArrive
    <2>2. ASSUME BackgroundInv
          PROVE  AlertsBounded
      BY <2>2 DEF BackgroundInv, AlertInv, AlertOK, AlertsBounded
    <2> QED
      BY <2>1, <2>2 DEF AlertsDelivered
  <1> QED
    BY <1>1, BackgroundInvHolds, PTL

\* Whatever overlaps, the requests of a day exceed the limit by less than there are
\* requests at once.
THEOREM LimitIsKept == BackgroundSpec => []WithinDailyLimit
  <1>1. BackgroundInv => WithinDailyLimit
    <2> SUFFICES ASSUME BackgroundInv
                 PROVE  WithinDailyLimit
      OBVIOUS
    <2>1. Cardinality(today) \in Nat /\ Limit(subscribed) \in Nat
      BY LimitsGrow, FS_CardinalityType DEF BackgroundInv, LimitInv, AnswerInv, AiRowsOK
    <2> QED
      BY <2>1, InsertersBounded DEF BackgroundInv, LimitInv, WithinDailyLimit
  <1> QED
    BY <1>1, BackgroundInvHolds, PTL

\* An analysis whose job is completed has its result and was announced, or failed and
\* that was announced; and no row says COMPLETED without its result.
THEOREM AnalysesAreAnswered == BackgroundSpec => []AnalysisAnswered
  <1>1. BackgroundInv => AnalysisAnswered
    BY DEF BackgroundInv, AnswerInv, AnswerOK, AnalysisAnswered
  <1> QED
    BY <1>1, BackgroundInvHolds, PTL

=============================================================================
