-------------------------------- MODULE Deals --------------------------------
(***************************************************************************)
(* DealsService over one deal room: the rows of "deals",                   *)
(* "deal_participants", "deal_tasks" and "deal_timeline_events" of one     *)
(* deal.  None of these rows is reached from another room, so one stands   *)
(* for all; what rooms do share, the signatures of agreement versions, is  *)
(* in Agreements.                                                          *)
(***************************************************************************)
EXTENDS Handlers, StateMachine

CONSTANTS
    User,       \* accounts
    Admin,      \* accounts whose role is ADMIN
    Buyer,      \* the buyer ...
    Seller,     \* ... and the seller of the accepted offer
    Task        \* task ids

\* A scenario also has: people, the users who call; targets, the statuses they ask
\* for; given, the roles they give; watched, the timeline event types it keeps;
\* elsewhere, the users who take part in some other deal, of this room or not.

ASSUME UserAssumption ==
    Admin \subseteq User /\ Buyer \in User /\ Seller \in User /\ Buyer # Seller

VARIABLES
    status,     \* of the deal row
    role,       \* of each user in the room
    task,       \* the status of each task row
    timeline,   \* the timeline events, without their actors
    notices,    \* the notifications created, with what they are about
    visited     \* history: the statuses the deal has had

dealVars == <<status, role, task, timeline, notices, visited>>

-----------------------------------------------------------------------------
(* Rows. *)

\* Slip: a cancelled deal may be disputed again.
DealMachineReopens ==
    [ INITIATED     |-> {"NDA", "CANCELLED"},
      NDA           |-> {"DUE_DILIGENCE", "CANCELLED", "DISPUTED"},
      DUE_DILIGENCE |-> {"AGREEMENT", "CANCELLED", "DISPUTED"},
      AGREEMENT     |-> {"TRANSACTION", "CANCELLED", "DISPUTED"},
      TRANSACTION   |-> {"TRANSFER", "CANCELLED", "DISPUTED"},
      TRANSFER      |-> {"COMPLETED", "DISPUTED"},
      COMPLETED     |-> {},
      CANCELLED     |-> {"DISPUTED"},
      DISPUTED      |-> {"NDA", "CANCELLED"} ]

\* The lifecycle the service declares.
DealMachine ==
    LET ways(next) == next \cup {"CANCELLED", "DISPUTED"} IN
    [ INITIATED     |-> {"NDA", "CANCELLED"},
      NDA           |-> ways({"DUE_DILIGENCE"}),
      DUE_DILIGENCE |-> ways({"AGREEMENT"}),
      AGREEMENT     |-> ways({"TRANSACTION"}),
      TRANSACTION   |-> ways({"TRANSFER"}),
      TRANSFER      |-> {"COMPLETED", "DISPUTED"},
      COMPLETED     |-> {},
      CANCELLED     |-> {},
      DISPUTED      |-> {"NDA", "DUE_DILIGENCE", "AGREEMENT", "TRANSACTION",
                         "TRANSFER", "CANCELLED"} ]

DealStatus == DOMAIN DealMachine

\* The statuses clients ask for.
Asked == UNION {s.targets : s \in Scenario}

Final == {"COMPLETED", "CANCELLED"}

MANAGE_ROLES == {"BUYER", "SELLER", "ADMIN"}

\* LAWYER stands for the four roles that do not manage.
Role == MANAGE_ROLES \cup {"LAWYER"}

ASSUME CallAssumption ==
    \A s \in Scenario :
        /\ s.people \subseteq User /\ s.elsewhere \subseteq User
        /\ s.targets \subseteq DealStatus /\ s.given \subseteq Role

TaskStatus == {"TODO", "COMPLETED"}      \* IN_PROGRESS and BLOCKED act as TODO

Participant(u) == role[u] # "NONE"

Participants == {u \in User : Participant(u)}

\* assertParticipant and the role check that follows it.
Manages(u) == Participant(u) /\ (role[u] \in MANAGE_ROLES \/ u \in Admin)

Kept(event) == IF event.type \in scenario.watched THEN {event} ELSE {}

Event(type, subject, value) == [type |-> type, subject |-> subject, value |-> value]

StatusChanged(s)        == Event("DEAL_STATUS_CHANGED", "deal", s)
ParticipantAdded(u, ro) == Event("PARTICIPANT_ADDED", u, ro)
TaskCreated(t)          == Event("TASK_CREATED", t, "TODO")
TaskCompleted(t)        == Event("TASK_COMPLETED", t, "COMPLETED")

-----------------------------------------------------------------------------
(***************************************************************************)
(* What the handlers of a deal room do after their write: the timeline     *)
(* event, and for some of them a notification to everybody else, one await *)
(* each, over the participants found after the event.                      *)
(***************************************************************************)
Record(u, event)         == [at |-> "event", user |-> u, event |-> event, tell |-> FALSE]
RecordAndTell(u, event)  == [at |-> "event", user |-> u, event |-> event, tell |-> TRUE]

\* Some handler is about to record this event.
Recording(event) == \E r \in Request : At(r, "event") /\ call[r].event = event

WriteEvent(r) ==
    /\ At(r, "event")
    /\ timeline' = timeline \cup Kept(call[r].event)
    /\ Go(r, IF call[r].tell THEN [call[r] EXCEPT !.at = "findOthers"] ELSE Idle)
    /\ UNCHANGED <<status, role, task, notices, visited>>

FindOthers(r) ==
    /\ At(r, "findOthers")
    /\ Go(r, [at |-> "notify", event |-> call[r].event, others |-> Participants \ {call[r].user}])
    /\ UNCHANGED dealVars

\* Slip: the loop ends with its first notification.
NotifyFirst(r) ==
    /\ At(r, "notify")
    /\ \E u \in call[r].others : notices' = notices \cup ({u} \X Kept(call[r].event))
    /\ Go(r, Idle)
    /\ UNCHANGED <<status, role, task, timeline, visited>>

\* Slip: after a notification the loop has forgotten what it is about.
NotifyForgetting(r) ==
    /\ At(r, "notify")
    /\ \E u \in call[r].others : Go(r, [at |-> "notify", others |-> call[r].others \ {u}])
    /\ UNCHANGED dealVars

NotifyOne(r) ==
    /\ At(r, "notify")
    /\ \E u \in call[r].others :
           /\ notices' = notices \cup ({u} \X Kept(call[r].event))
           /\ Go(r, [call[r] EXCEPT !.others = @ \ {u}])
    /\ UNCHANGED <<status, role, task, timeline, visited>>

NotifiedAll(r) ==
    /\ At(r, "notify") /\ call[r].others = {}
    /\ Go(r, Idle)
    /\ UNCHANGED dealVars

-----------------------------------------------------------------------------
(***************************************************************************)
(* PATCH /deals/:id/status: the participant is read, then the deal, and    *)
(* the update that follows is by id alone.                                 *)
(***************************************************************************)
BeginUpdateStatus(r, u, to) ==
    /\ Manages(u)
    /\ Begin(r, "updateStatus", [at |-> "readStatus", user |-> u, to |-> to])
    /\ UNCHANGED dealVars

\* Slip: any other status is accepted.
ReadStatusUnchecked(r) ==
    /\ At(r, "readStatus")
    /\ Go(r, IF status # call[r].to THEN [call[r] EXCEPT !.at = "writeStatus"] ELSE Idle)
    /\ UNCHANGED dealVars

ReadStatus(r) ==
    /\ At(r, "readStatus")
    /\ Go(r, IF CanTransition(DealMachine, status, call[r].to)
               THEN [call[r] EXCEPT !.at = "writeStatus"]
               ELSE Idle)
    /\ UNCHANGED dealVars

WriteStatus(r) ==
    /\ At(r, "writeStatus")
    /\ status' = call[r].to
    /\ visited' = visited \cup {call[r].to}
    /\ Go(r, RecordAndTell(call[r].user, StatusChanged(call[r].to)))
    /\ UNCHANGED <<role, task, timeline, notices>>

(***************************************************************************)
(* POST /deals/:id/participants: an upsert, which also changes the role of *)
(* somebody who is already in the room.                                    *)
(***************************************************************************)
\* Slip: whoever is in the room may give roles.
BeginAddParticipantAnyRole(r, u, v, ro) ==
    /\ Participant(u)
    /\ Begin(r, "addParticipant", [at |-> "upsert", user |-> u, whom |-> v, role |-> ro])
    /\ UNCHANGED dealVars

BeginAddParticipant(r, u, v, ro) ==
    /\ Manages(u)
    /\ Begin(r, "addParticipant", [at |-> "upsert", user |-> u, whom |-> v, role |-> ro])
    /\ UNCHANGED dealVars

UpsertParticipant(r) ==
    /\ At(r, "upsert")
    /\ role' = [role EXCEPT ![call[r].whom] = call[r].role]
    /\ Go(r, Record(call[r].user, ParticipantAdded(call[r].whom, call[r].role)))
    /\ UNCHANGED <<status, task, timeline, notices, visited>>

(***************************************************************************)
(* POST /deals/:id/tasks and PATCH .../tasks/:taskId/status.  Nobody       *)
(* leaves a room and no task is deleted, so the membership check and the   *)
(* lookup of the task are one step with each other.                        *)
(***************************************************************************)
BeginCreateTask(r, u) ==
    /\ Participant(u)
    /\ Begin(r, "createTask", [at |-> "insertTask", user |-> u])
    /\ UNCHANGED dealVars

InsertTask(r, t) ==
    /\ At(r, "insertTask")
    /\ task[t] = "ABSENT"
    /\ task' = [task EXCEPT ![t] = "TODO"]
    /\ Go(r, Record(call[r].user, TaskCreated(t)))
    /\ UNCHANGED <<status, role, timeline, notices, visited>>

BeginUpdateTask(r, u, t, to) ==
    /\ Participant(u)
    /\ task[t] # "ABSENT"
    /\ Begin(r, "updateTask", [at |-> "writeTask", user |-> u, task |-> t, to |-> to])
    /\ UNCHANGED dealVars

WriteTask(r) ==
    /\ At(r, "writeTask")
    /\ task' = [task EXCEPT ![call[r].task] = call[r].to]
    /\ Go(r, IF call[r].to = "COMPLETED"
               THEN Record(call[r].user, TaskCompleted(call[r].task))
               ELSE Idle)
    /\ UNCHANGED <<status, role, timeline, notices, visited>>

-----------------------------------------------------------------------------
\* The room as OffersService.accept leaves it.
DealInit ==
    /\ status = "INITIATED"
    /\ visited = {"INITIATED"}
    /\ role = [u \in User |-> IF u = Buyer THEN "BUYER" ELSE IF u = Seller THEN "SELLER" ELSE "NONE"]
    /\ task = [t \in Task |-> "ABSENT"]
    /\ timeline = {Event("OFFER_ACCEPTED", "deal", "INITIATED")}
    /\ notices = {}

DealArrive(r) ==
    \E u \in scenario.people :
        \/ \E to \in scenario.targets : BeginUpdateStatus(r, u, to)
        \/ \E v \in scenario.people, ro \in scenario.given : BeginAddParticipant(r, u, v, ro)
        \/ BeginCreateTask(r, u)
        \/ \E t \in Task, to \in TaskStatus : BeginUpdateTask(r, u, t, to)

DealProceed(r) ==
    \/ ReadStatus(r)
    \/ WriteStatus(r)
    \/ UpsertParticipant(r)
    \/ \E t \in Task : InsertTask(r, t)
    \/ WriteTask(r)
    \/ WriteEvent(r)
    \/ FindOthers(r)
    \/ NotifyOne(r)
    \/ NotifiedAll(r)

roomVars == <<handlerVars, dealVars>>

-----------------------------------------------------------------------------
(* What the people in a deal room rely on. *)

\* The handlers of this service, apart from what they remember of an event.
DealHandler ==
    [at : {"readStatus", "writeStatus"}, user : User, to : DealStatus]
    \cup [at : {"upsert"}, user : User, whom : User, role : Role]
    \cup [at : {"insertTask"}, user : User]
    \cup [at : {"writeTask"}, user : User, task : Task, to : TaskStatus]

DealRowsOK ==
    /\ status \in DealStatus
    /\ role \in [User -> Role \cup {"NONE"}]
    /\ task \in [Task -> TaskStatus \cup {"ABSENT"}]
    /\ visited \subseteq DealStatus

\* Stale writes may put a deal anywhere, but not where no sequence of allowed
\* steps leads: each status it has had was allowed from one it had had, so a deal
\* is not COMPLETED without TRANSFER, nor in TRANSFER without NDA.
ReachedAlongMachine ==
    /\ status \in visited
    /\ \A s \in visited \ {"INITIATED"} : \E p \in visited : CanTransition(DealMachine, p, s)
    /\ "COMPLETED" \in visited => {"NDA", "TRANSFER"} \subseteq visited

\* Over: no updateStatus that read an earlier status is still to write.
Over == status \in Final /\ ~ InFlight("writeStatus")

\* A completed or cancelled deal is final once no update is between its read and
\* its write, whatever its participants do later.
FinalStays == [][Over => Over' /\ status' = status]_roomVars

\* Nobody in the room may manage it, and no role is about to be given.
Unmanaged == (\A u \in User : ~ Manages(u)) /\ ~ InFlight("upsert")

\* Roles are given by those who manage, and addParticipant may demote anybody: a
\* room whose last manager was demoted cannot get one again, and once the update
\* in flight is through its deal stands still.
UnmanagedStays ==
    [][Unmanaged =>
           /\ Unmanaged'
           /\ ~ InFlight("readStatus") /\ ~ InFlight("writeStatus") =>
                  status' = status /\ ~ InFlight("readStatus")' /\ ~ InFlight("writeStatus")']_roomVars

\* Without failures the timeline tells the whole room: the current status, every
\* role and every completed task have their event, or a handler on its way to it.
Told(event) == Kept(event) \subseteq timeline \/ Recording(event)

TimelineTells ==
    /\ status # "INITIATED" => Told(StatusChanged(status))
    /\ \A u \in User :
           Participant(u) =>
               \/ u = Buyer /\ role[u] = "BUYER"
               \/ u = Seller /\ role[u] = "SELLER"
               \/ Told(ParticipantAdded(u, role[u]))
    /\ \A t \in Task :
           /\ task[t] # "ABSENT" => Told(TaskCreated(t))
           /\ task[t] = "COMPLETED" => Told(TaskCompleted(t))

\* Whoever is in the room when somebody else changes the status hears of it, by a
\* notification of its own, also if others change it again meanwhile.
OthersHear ==
    \A v \in User, s \in Asked :
        (\E r \in Request : /\ At(r, "event") /\ call[r].event = StatusChanged(s)
                            /\ Participant(v) /\ call[r].user # v)
        ~> {v} \X Kept(StatusChanged(s)) \subseteq notices

=============================================================================
