------------------------------- MODULE Alerts -------------------------------
(***************************************************************************)
(* Saved searches and the alerts about a publication:                      *)
(* SavedSearchesService over the table "saved_searches", and               *)
(* SavedSearchProcessor, which tells the owner of every search that        *)
(* matches.  One business stands for all, as a job is about one business.  *)
(***************************************************************************)
EXTENDS Jobs

CONSTANTS
    AlertJob,   \* jobs of the queue "saved-search-alerts"
    Search      \* saved search ids

ASSUME AlertJobAssumption == AlertJob \subseteq Job

VARIABLES
    published,  \* business.status = PUBLISHED
    search,     \* what each saved search asks for
    told,       \* how often a job has notified about a search
    due         \* history: the searches that ask for alerts since the job was queued

alertVars == <<published, search, told, due>>

\* on: alertsEnabled, with filters the business matches.  Filters that do not match
\* and alerts that are disabled both leave a search out.
SearchState == {"absent", "on", "off"}

AlertInit ==
    /\ published = FALSE
    /\ search = [s \in Search |-> "absent"]
    /\ told = [j \in AlertJob |-> [s \in Search |-> 0]]
    /\ due = [j \in AlertJob |-> {}]

On == {s \in Search : search[s] = "on"}

-----------------------------------------------------------------------------
(* The business goes on the market, then the job is queued; and it leaves. *)

Publish(r) ==
    /\ ~ published
    /\ Begin(r, "publish", [at |-> "queueAlerts"])
    /\ published' = TRUE
    /\ UNCHANGED <<queue, search, told, due>>

QueueAlerts(r, j) ==
    /\ At(r, "queueAlerts")
    /\ IsNext(j, AlertJob, {k \in AlertJob : queue[k] # NoJob})
    /\ Enqueue(j)
    /\ due' = [due EXCEPT ![j] = IF published THEN On ELSE {}]
    /\ Go(r, Idle)
    /\ UNCHANGED <<published, search, told>>

\* Unpublished, suspended or sold: one write, from here.
Unpublish ==
    /\ "unpublish" \in scenario.calls
    /\ published
    /\ published' = FALSE
    /\ due' = [j \in AlertJob |-> {}]
    /\ UNCHANGED <<handlerVars, queue, search, told>>

-----------------------------------------------------------------------------
(* SavedSearchesService: create inserts; update and remove read the search *)
(* first, and fail when it is gone by the time they write.                 *)

SetSearch(s, state) ==
    /\ search' = [search EXCEPT ![s] = state]
    /\ due' = [j \in AlertJob |-> IF state = "on" THEN due[j] ELSE due[j] \ {s}]

CreateSearch(s, state) ==
    /\ "createSearch" \in scenario.calls
    /\ search[s] = "absent"
    /\ SetSearch(s, state)
    /\ UNCHANGED <<handlerVars, queue, published, told>>

BeginSearchWrite(r, endpoint, s, state) ==
    /\ search[s] # "absent"
    /\ Begin(r, endpoint, [at |-> "writeSearch", search |-> s, state |-> state])
    /\ UNCHANGED <<queue, alertVars>>

WriteSearch(r) ==
    /\ At(r, "writeSearch")
    /\ LET s == call[r].search IN
       IF search[s] = "absent" THEN UNCHANGED <<search, due>> ELSE SetSearch(s, call[r].state)
    /\ Go(r, Idle)
    /\ UNCHANGED <<queue, published, told>>

-----------------------------------------------------------------------------
(***************************************************************************)
(* SavedSearchProcessor.process: the business is read and must be          *)
(* PUBLISHED, the searches are read, and each that matches costs a         *)
(* notification, an e-mail job (left out but for its await) and a stamp.   *)
(* A rejection anywhere gives the whole job back.                          *)
(***************************************************************************)
TakeAlerts(r, j) == Take(r, j, "readListing") /\ UNCHANGED alertVars

ReadListing(r) ==
    /\ At(r, "readListing")
    /\ IF published
         THEN Go(r, [call[r] EXCEPT !.at = "findSearches"]) /\ UNCHANGED queue
         ELSE Complete(r)
    /\ UNCHANGED alertVars

\* With the rest of the loop still to do.
Continue(r, left) ==
    IF left = {}
      THEN Complete(r)
      ELSE Go(r, [at |-> "insertNotice", job |-> call[r].job, left |-> left]) /\ UNCHANGED queue

FindSearches(r) ==
    /\ At(r, "findSearches")
    /\ Continue(r, On)
    /\ UNCHANGED alertVars

InsertNotice(r, s) ==
    /\ At(r, "insertNotice") /\ s \in call[r].left
    /\ told' = [told EXCEPT ![call[r].job][s] = @ + 1]
    /\ Go(r, [at |-> "queueMail", job |-> call[r].job, left |-> call[r].left, search |-> s])
    /\ UNCHANGED <<queue, published, search, due>>

QueueMail(r) ==
    /\ At(r, "queueMail")
    /\ Go(r, [call[r] EXCEPT !.at = "stampSearch"])
    /\ UNCHANGED <<queue, alertVars>>

\* Slip: a search that is gone ends the job.
StampOrFinish(r) ==
    /\ At(r, "stampSearch")
    /\ LET s == call[r].search IN
       IF search[s] = "absent" THEN Complete(r) ELSE Continue(r, call[r].left \ {s})
    /\ UNCHANGED alertVars

\* UPDATE saved_searches SET lastNotifiedAt: nothing reads it, but it throws when
\* the search has been deleted.
StampSearch(r) ==
    /\ At(r, "stampSearch")
    /\ LET s == call[r].search IN
       IF search[s] = "absent" THEN Reject(r) ELSE Continue(r, call[r].left \ {s})
    /\ UNCHANGED alertVars

AlertStep == {"readListing", "findSearches", "insertNotice", "queueMail", "stampSearch"}

\* An await of the processor rejects.
AlertRejects(r) ==
    /\ scenario.fails
    /\ call[r].at \in AlertStep
    /\ Reject(r)
    /\ UNCHANGED alertVars

-----------------------------------------------------------------------------
AlertNext ==
    \/ Unpublish
    \/ \E s \in Search, state \in {"on", "off"} : CreateSearch(s, state)
    \/ \E r \in Request :
           \/ Publish(r)
           \/ \E j \in AlertJob : QueueAlerts(r, j) \/ TakeAlerts(r, j)
           \/ \E s \in Search, state \in {"on", "off"} : BeginSearchWrite(r, "updateSearch", s, state)
           \/ \E s \in Search : BeginSearchWrite(r, "removeSearch", s, "absent") \/ InsertNotice(r, s)
           \/ WriteSearch(r)
           \/ ReadListing(r)
           \/ FindSearches(r)
           \/ QueueMail(r)
           \/ StampSearch(r)
           \/ AlertRejects(r)

-----------------------------------------------------------------------------
AlertRowsOK ==
    /\ published \in BOOLEAN
    /\ search \in [Search -> SearchState]
    /\ told \in [AlertJob -> [Search -> Nat]]
    /\ due \in [AlertJob -> SUBSET Search]

\* The publication of a business that stays on the market is told to every search that
\* asked for it since, by the time its job is completed, whatever was retried and whoever
\* deleted searches meanwhile.
AlertsArrive ==
    \A j \in AlertJob : queue[j].state = "completed" => \A s \in due[j] : told[j][s] > 0

\* A job that is retried starts over and notifies again, but no search hears of one
\* publication more often than the job is run.
AlertsBounded ==
    \A j \in AlertJob, s \in Search :
        told[j][s] <= RunsMade(j) + (IF queue[j].state \in {"active", "completed", "failed"} THEN 1 ELSE 0)

=============================================================================
