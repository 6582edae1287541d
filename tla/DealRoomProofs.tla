--------------------------- MODULE DealRoomProofs ---------------------------
(***************************************************************************)
(* Proofs about a deal room, for every number of people, handlers and      *)
(* rows, every scenario, and whatever the payment provider sends: the      *)
(* statuses of its deal lie along the declared machine, a deal that is     *)
(* over stays over, a room without managers stands still, a payment event  *)
(* is applied at most once and logged, every row and handler has its type, *)
(* versions are numbered without a gap, SIGNED means that two signed,      *)
(* documents have their objects and downloads their reasons, and without   *)
(* failures the timeline and the access log tell it all.                   *)
(***************************************************************************)
EXTENDS DealRoom, HandlersProofs, FiniteSetTheorems, SequenceTheorems

-----------------------------------------------------------------------------
(* Which steps the handlers of each service make. *)

\* What the services share.
CommonSteps == {"idle", "event", "findOthers", "notify"}

DealSteps      == {"readStatus", "writeStatus", "upsert", "insertTask", "writeTask"}
DiligenceSteps == {"insertRequest", "writeItem"}
AgreementSteps == {"insertAgreement", "readLatest", "insertVersion", "writePending",
                   "upsertSignature", "countParties", "countSignatures", "writeOutcome"}
PaymentSteps   == {"readStage", "findPayment", "insertPayment",
                   "recordEvent", "route", "apply", "tellCompleted"}
DocumentSteps  == {"putObject", "insertDocument", "upsertGrant", "writeRevoked", "writeDeleted", "log"}

\* DealsService's, with the follow-ups that all of them share.
LEMMA DealMoves ==
    ASSUME SlotsOK, NEW r \in Request, DealArrive(r) \/ DealProceed(r)
    PROVE  Moves(r, DealSteps \cup CommonSteps)
  <1> USE DEF Moves, DealSteps, CommonSteps
  <1>1. ASSUME NEW u, NEW to, BeginUpdateStatus(r, u, to)
        PROVE  Moves(r, DealSteps \cup CommonSteps)
    BY <1>1, BeginMoves DEF BeginUpdateStatus
  <1>2. ASSUME NEW u, NEW v, NEW ro, BeginAddParticipant(r, u, v, ro)
        PROVE  Moves(r, DealSteps \cup CommonSteps)
    BY <1>2, BeginMoves DEF BeginAddParticipant
  <1>3. ASSUME NEW u, BeginCreateTask(r, u)
        PROVE  Moves(r, DealSteps \cup CommonSteps)
    BY <1>3, BeginMoves DEF BeginCreateTask
  <1>4. ASSUME NEW u, NEW t, NEW to, BeginUpdateTask(r, u, t, to)
        PROVE  Moves(r, DealSteps \cup CommonSteps)
    BY <1>4, BeginMoves DEF BeginUpdateTask
  <1>5. CASE ReadStatus(r)
    BY <1>5, GoMoves, AtMoves DEF ReadStatus, Idle
  <1>6. CASE WriteStatus(r)
    BY <1>6, GoMoves DEF WriteStatus, RecordAndTell
  <1>7. CASE UpsertParticipant(r)
    BY <1>7, GoMoves DEF UpsertParticipant, Record
  <1>8. ASSUME NEW t, InsertTask(r, t)
        PROVE  Moves(r, DealSteps \cup CommonSteps)
    BY <1>8, GoMoves DEF InsertTask, Record
  <1>9. CASE WriteTask(r)
    BY <1>9, GoMoves DEF WriteTask, Record, Idle
  <1>10. CASE WriteEvent(r)
    BY <1>10, GoMoves, AtMoves DEF WriteEvent, Idle
  <1>11. CASE FindOthers(r)
    BY <1>11, GoMoves DEF FindOthers
  <1>12. CASE NotifyOne(r)
    <2>1. PICK u : Go(r, [call[r] EXCEPT !.others = @ \ {u}])
      BY <1>12 DEF NotifyOne
    <2>2. /\ "at" \in DOMAIN [call[r] EXCEPT !.others = @ \ {u}]
          /\ [call[r] EXCEPT !.others = @ \ {u}].at = "notify"
      BY <1>12 DEF SlotsOK, NotifyOne, At
    <2> QED
      BY <2>1, <2>2, GoMoves
  <1>13. CASE NotifiedAll(r)
    BY <1>13, GoMoves DEF NotifiedAll, Idle
  <1> QED
    BY <1>1, <1>2, <1>3, <1>4, <1>5, <1>6, <1>7, <1>8, <1>9, <1>10, <1>11, <1>12, <1>13
       DEF DealArrive, DealProceed

\* DueDiligenceService's.
LEMMA DiligenceMoves ==
    ASSUME SlotsOK, NEW r \in Request, DiligenceArrive(r) \/ DiligenceProceed(r)
    PROVE  Moves(r, DiligenceSteps \cup CommonSteps)
  <1> USE DEF Moves, DiligenceSteps, CommonSteps
  <1>1. ASSUME NEW u, BeginRequest(r, u)
        PROVE  Moves(r, DiligenceSteps \cup CommonSteps)
    BY <1>1, BeginMoves DEF BeginRequest
  <1>2. ASSUME NEW u, NEW q, NEW to, BeginUpdateItem(r, u, q, to)
        PROVE  Moves(r, DiligenceSteps \cup CommonSteps)
    BY <1>2, BeginMoves DEF BeginUpdateItem
  <1>3. ASSUME NEW q, InsertRequest(r, q)
        PROVE  Moves(r, DiligenceSteps \cup CommonSteps)
    BY <1>3, GoMoves DEF InsertRequest, RecordAndTell
  <1>4. CASE WriteItem(r)
    BY <1>4, GoMoves DEF WriteItem, Record
  <1> QED
    BY <1>1, <1>2, <1>3, <1>4 DEF DiligenceArrive, DiligenceProceed

\* AgreementsService's.
LEMMA AgreementMoves ==
    ASSUME SlotsOK, NEW r \in Request, AgreementArrive(r) \/ AgreementProceed(r)
    PROVE  Moves(r, AgreementSteps \cup CommonSteps)
  <1> USE DEF Moves, AgreementSteps, CommonSteps
  <1>1. ASSUME NEW u, BeginAgreement(r, u)
        PROVE  Moves(r, AgreementSteps \cup CommonSteps)
    BY <1>1, BeginMoves DEF BeginAgreement
  <1>2. ASSUME NEW u, NEW a, BeginVersion(r, u, a)
        PROVE  Moves(r, AgreementSteps \cup CommonSteps)
    BY <1>2, BeginMoves DEF BeginVersion
  <1>3. ASSUME NEW u, NEW a, NEW v, BeginSign(r, u, a, v)
        PROVE  Moves(r, AgreementSteps \cup CommonSteps)
    BY <1>3, BeginMoves DEF BeginSign
  <1>4. ASSUME NEW a, InsertAgreement(r, a)
        PROVE  Moves(r, AgreementSteps \cup CommonSteps)
    BY <1>4, GoMoves DEF InsertAgreement, Record
  <1>5. CASE ReadLatest(r)
    BY <1>5, GoMoves DEF ReadLatest
  <1>6. CASE InsertVersion(r)
    BY <1>6, GoMoves, AtMoves DEF InsertVersion
  <1>7. CASE VersionTaken(r)
    BY <1>7, GoMoves DEF VersionTaken, Idle
  <1>8. CASE WritePending(r)
    BY <1>8, GoMoves DEF WritePending, Record
  <1>9. CASE UpsertSignature(r)
    BY <1>9, GoMoves, AtMoves DEF UpsertSignature
  <1>10. CASE CountParties(r)
    BY <1>10, GoMoves DEF CountParties
  <1>11. CASE CountSignatures(r)
    BY <1>11, GoMoves DEF CountSignatures
  <1>12. CASE WriteOutcome(r)
    BY <1>12, GoMoves DEF WriteOutcome, Record
  <1> QED
    BY <1>1, <1>2, <1>3, <1>4, <1>5, <1>6, <1>7, <1>8, <1>9, <1>10, <1>11, <1>12
       DEF AgreementArrive, AgreementProceed

\* The payment's: the call that starts it, and the webhook.
LEMMA PaymentMoves ==
    ASSUME SlotsOK, NEW r \in Request, PaymentArrive(r) \/ PaymentProceed(r)
    PROVE  Moves(r, PaymentSteps \cup CommonSteps)
  <1> USE DEF Moves, PaymentSteps, CommonSteps
  <1>1. ASSUME NEW u, BeginPay(r, u)
        PROVE  Moves(r, PaymentSteps \cup CommonSteps)
    BY <1>1, BeginMoves DEF BeginPay
  <1>2. ASSUME NEW e, Deliver(r, e)
        PROVE  Moves(r, PaymentSteps \cup CommonSteps)
    BY <1>2, BeginMoves DEF Deliver
  <1>3. CASE ReadStage(r)
    BY <1>3, GoMoves, AtMoves DEF ReadStage, Idle
  <1>4. CASE FindPayment(r)
    BY <1>4, GoMoves, AtMoves DEF FindPayment, Record
  <1>5. CASE InsertPayment(r)
    BY <1>5, GoMoves DEF InsertPayment, Record
  <1>6. CASE PaymentTaken(r)
    BY <1>6, GoMoves DEF PaymentTaken, Idle
  <1>7. CASE RecordEvent(r)
    BY <1>7, GoMoves, AtMoves DEF RecordEvent
  <1>8. CASE DismissDuplicate(r)
    BY <1>8, GoMoves DEF DismissDuplicate, Acknowledge, Idle
  <1>9. CASE Route(r)
    BY <1>9, GoMoves, AtMoves DEF Route, Acknowledge, Idle
  <1>10. CASE Apply(r)
    BY <1>10, GoMoves, AtMoves DEF Apply, Acknowledge, Idle
  <1>11. CASE TellCompleted(r)
    BY <1>11, GoMoves DEF TellCompleted, Acknowledge, Idle
  <1> QED
    BY <1>1, <1>2, <1>3, <1>4, <1>5, <1>6, <1>7, <1>8, <1>9, <1>10, <1>11
       DEF PaymentArrive, PaymentProceed

\* DocumentsService's.
LEMMA DocumentMoves ==
    ASSUME SlotsOK, NEW r \in Request, DocumentArrive(r) \/ DocumentProceed(r)
    PROVE  Moves(r, DocumentSteps \cup CommonSteps)
  <1> USE DEF Moves, DocumentSteps, CommonSteps
  <1>1. ASSUME NEW u, NEW place, BeginUpload(r, u, place)
        PROVE  Moves(r, DocumentSteps \cup CommonSteps)
    BY <1>1, BeginMoves DEF BeginUpload
  <1>2. ASSUME NEW u, NEW d, BeginDownload(r, u, d)
        PROVE  Moves(r, DocumentSteps \cup CommonSteps)
    BY <1>2, BeginMoves DEF BeginDownload, Logging
  <1>3. ASSUME NEW u, NEW d, BeginRemove(r, u, d)
        PROVE  Moves(r, DocumentSteps \cup CommonSteps)
    BY <1>3, BeginMoves DEF BeginRemove
  <1>4. ASSUME NEW u, NEW d, NEW v, BeginRevoke(r, u, d, v)
        PROVE  Moves(r, DocumentSteps \cup CommonSteps)
    BY <1>4, BeginMoves DEF BeginRevoke
  <1>5. ASSUME NEW u, NEW d, NEW v, NEW expiry, BeginGrant(r, u, d, v, expiry)
        PROVE  Moves(r, DocumentSteps \cup CommonSteps)
    BY <1>5, BeginMoves DEF BeginGrant
  <1>6. ASSUME NEW d, PutObject(r, d)
        PROVE  Moves(r, DocumentSteps \cup CommonSteps)
    BY <1>6, GoMoves DEF PutObject
  <1>7. CASE InsertDocument(r)
    BY <1>7, GoMoves DEF InsertDocument, Logging
  <1>8. CASE UpsertGrant(r)
    BY <1>8, GoMoves DEF UpsertGrant, Logging
  <1>9. CASE WriteRevoked(r)
    BY <1>9, GoMoves DEF WriteRevoked, Logging
  <1>10. CASE WriteDeleted(r)
    BY <1>10, GoMoves DEF WriteDeleted, Logging
  <1>11. CASE LogAccess(r)
    BY <1>11, GoMoves DEF LogAccess, Logging, Idle
  <1> QED
    BY <1>1, <1>2, <1>3, <1>4, <1>5, <1>6, <1>7, <1>8, <1>9, <1>10, <1>11
       DEF DocumentArrive, DocumentProceed

\* A handler that fails is gone.
LEMMA FailMoves ==
    ASSUME SlotsOK, NEW r \in Request, Fail(r) \/ DismissOnError(r)
    PROVE  Moves(r, {"idle"})
  BY GoMoves DEF Fail, DismissOnError, Acknowledge, Idle, Moves

\* A step of a handler is one of the service it is a handler of.
LEMMA OwnSteps ==
    ASSUME NEW r \in Request
    PROVE  /\ DealArrive(r) \/ DealProceed(r) => call[r].at \in DealSteps \cup CommonSteps
           /\ DiligenceArrive(r) \/ DiligenceProceed(r) => call[r].at \in DiligenceSteps \cup {"idle"}
           /\ AgreementArrive(r) \/ AgreementProceed(r) => call[r].at \in AgreementSteps \cup {"idle"}
           /\ PaymentArrive(r) \/ PaymentProceed(r) => call[r].at \in PaymentSteps \cup {"idle"}
           /\ DocumentArrive(r) \/ DocumentProceed(r) => call[r].at \in DocumentSteps \cup {"idle"}
  <1>1. \A endpoint, h : Begin(r, endpoint, h) => call[r].at = "idle"
    BY DEF Begin, Idle
  <1>2. ASSUME DealArrive(r) \/ DealProceed(r)
        PROVE  call[r].at \in DealSteps \cup CommonSteps
    BY <1>1, <1>2
       DEF DealArrive, DealProceed, BeginUpdateStatus, BeginAddParticipant, BeginCreateTask,
           BeginUpdateTask, ReadStatus, WriteStatus, UpsertParticipant, InsertTask, WriteTask,
           WriteEvent, FindOthers, NotifyOne, NotifiedAll, At, DealSteps, CommonSteps
  <1>3. ASSUME DiligenceArrive(r) \/ DiligenceProceed(r)
        PROVE  call[r].at \in DiligenceSteps \cup {"idle"}
    BY <1>1, <1>3 DEF DiligenceArrive, DiligenceProceed, BeginRequest, BeginUpdateItem,
                      InsertRequest, WriteItem, At, DiligenceSteps
  <1>4. ASSUME AgreementArrive(r) \/ AgreementProceed(r)
        PROVE  call[r].at \in AgreementSteps \cup {"idle"}
    BY <1>1, <1>4
       DEF AgreementArrive, AgreementProceed, BeginAgreement, BeginVersion, BeginSign,
           InsertAgreement, ReadLatest, InsertVersion, VersionTaken, WritePending,
           UpsertSignature, CountParties, CountSignatures, WriteOutcome, At, AgreementSteps
  <1>5. ASSUME PaymentArrive(r) \/ PaymentProceed(r)
        PROVE  call[r].at \in PaymentSteps \cup {"idle"}
    BY <1>1, <1>5
       DEF PaymentArrive, PaymentProceed, BeginPay, Deliver, ReadStage, FindPayment, InsertPayment,
           PaymentTaken, RecordEvent, DismissDuplicate, Route, Apply, TellCompleted, At,
           PaymentSteps
  <1>6. ASSUME DocumentArrive(r) \/ DocumentProceed(r)
        PROVE  call[r].at \in DocumentSteps \cup {"idle"}
    BY <1>1, <1>6
       DEF DocumentArrive, DocumentProceed, BeginUpload, BeginDownload, BeginRemove, BeginRevoke,
           BeginGrant, PutObject, InsertDocument, UpsertGrant, WriteRevoked, WriteDeleted,
           LogAccess, At, DocumentSteps
  <1> QED
    BY <1>2, <1>3, <1>4, <1>5, <1>6

\* No handler starts or goes on with one of these steps, and, unless it fails, none that is
\* about to take one is disturbed.
Apart(steps) ==
    /\ Untouched(steps)
    /\ scenario.fails \/ \A q \in Request : call[q].at \in steps => call'[q] = call[q]

\* A handler that moves between other steps does not concern these.
LEMMA MovesApart ==
    ASSUME NEW r \in Request, NEW from, NEW to, NEW steps, Moves(r, to), call[r].at \in from,
           to \cap steps = {}, from \cap steps = {}
    PROVE  Apart(steps)
  BY DEF Moves, Apart, Untouched

-----------------------------------------------------------------------------
(* The deal and its status. *)

\* The other services write neither the status of the deal nor a role.
LEMMA OthersKeepDeal ==
    ASSUME NEW r \in Request,
           \/ DiligenceArrive(r) \/ DiligenceProceed(r)
           \/ AgreementArrive(r) \/ AgreementProceed(r)
           \/ PaymentArrive(r) \/ PaymentProceed(r)
           \/ DocumentArrive(r) \/ DocumentProceed(r)
    PROVE  UNCHANGED <<status, role, task, visited>>
  <1>1. CASE DiligenceArrive(r) \/ DiligenceProceed(r)
    BY <1>1 DEF DiligenceArrive, DiligenceProceed, BeginRequest, BeginUpdateItem, InsertRequest,
                WriteItem, dealVars
  <1>2. CASE AgreementArrive(r) \/ AgreementProceed(r)
    BY <1>2 DEF AgreementArrive, AgreementProceed, BeginAgreement, BeginVersion, BeginSign,
                InsertAgreement, ReadLatest, InsertVersion, VersionTaken, WritePending,
                UpsertSignature, CountParties, CountSignatures, WriteOutcome, dealVars
  <1>3. CASE PaymentArrive(r) \/ PaymentProceed(r)
    BY <1>3 DEF PaymentArrive, PaymentProceed, BeginPay, Deliver, ReadStage, FindPayment,
                InsertPayment, PaymentTaken, RecordEvent, DismissDuplicate, Route, Apply,
                TellCompleted, dealVars
  <1>4. CASE DocumentArrive(r) \/ DocumentProceed(r)
    BY <1>4 DEF DocumentArrive, DocumentProceed, BeginUpload, BeginDownload, BeginRemove,
                BeginRevoke, BeginGrant, PutObject, InsertDocument, UpsertGrant, WriteRevoked,
                WriteDeleted, LogAccess, dealVars
  <1> QED
    BY <1>1, <1>2, <1>3, <1>4

\* A step of the room is one of DealsService, or it leaves the deal and the handlers of
\* that service alone.
LEMMA DealCases ==
    ASSUME SlotsOK, [RoomNext]_roomStateVars
    PROVE  \/ \E r \in Request : DealArrive(r) \/ DealProceed(r)
           \/ UNCHANGED <<status, role, task, visited>> /\ Untouched(DealSteps)
  <1> USE DEF Untouched
  <1>1. ASSUME NEW r \in Request, NEW steps, steps \cap DealSteps = {}, Moves(r, steps)
        PROVE  Untouched(DealSteps)
    BY <1>1 DEF Moves
  <1>2. ASSUME NEW r \in Request,
               \/ DiligenceArrive(r) \/ DiligenceProceed(r)
               \/ AgreementArrive(r) \/ AgreementProceed(r)
               \/ PaymentArrive(r) \/ PaymentProceed(r)
               \/ DocumentArrive(r) \/ DocumentProceed(r)
        PROVE  UNCHANGED <<status, role, task, visited>> /\ Untouched(DealSteps)
    <2>1. \E steps : steps \cap DealSteps = {} /\ Moves(r, steps)
      <3>1. /\ (DiligenceSteps \cup CommonSteps) \cap DealSteps = {}
            /\ (AgreementSteps \cup CommonSteps) \cap DealSteps = {}
            /\ (PaymentSteps \cup CommonSteps) \cap DealSteps = {}
            /\ (DocumentSteps \cup CommonSteps) \cap DealSteps = {}
        BY DEF DiligenceSteps, AgreementSteps, PaymentSteps, DocumentSteps, DealSteps, CommonSteps
      <3> QED
        BY <1>2, <3>1, DiligenceMoves, AgreementMoves, PaymentMoves, DocumentMoves
    <2> QED
      BY <1>1, <1>2, <2>1, OthersKeepDeal
  <1>3. ASSUME NEW r \in Request, RoomFail(r)
        PROVE  UNCHANGED <<status, role, task, visited>> /\ Untouched(DealSteps)
    <2>1. Moves(r, {"idle"}) /\ {"idle"} \cap DealSteps = {}
      BY <1>3, FailMoves DEF RoomFail, DealSteps
    <2> QED
      BY <1>1, <1>3, <2>1 DEF RoomFail, DismissOnError, dealVars
  <1>4. ASSUME RoomOutside \/ UNCHANGED roomStateVars
        PROVE  UNCHANGED <<status, role, task, visited>> /\ Untouched(DealSteps)
    <2>1. UNCHANGED <<call, scenario, status, role, task, visited>>
      BY <1>4 DEF RoomOutside, Provider, Wire, Send, DocumentTime, ExpireGrant,
                  AgreementOutside, SignElsewhere, roomStateVars, roomVars, handlerVars, dealVars
    <2> QED
      BY <2>1 DEF SlotsOK
  <1> QED
    BY <1>2, <1>3, <1>4 DEF RoomNext, RoomArrive, RoomProceed

\* What matters of the machine.
LEMMA MachineFacts ==
    /\ DealStatus = {"INITIATED", "NDA", "DUE_DILIGENCE", "AGREEMENT", "TRANSACTION", "TRANSFER",
                     "COMPLETED", "CANCELLED", "DISPUTED"}
    /\ \A p \in DealStatus : CanTransition(DealMachine, p, "COMPLETED") => p = "TRANSFER"
    /\ \A p \in {"INITIATED", "CANCELLED"}, s \in DealStatus :
           CanTransition(DealMachine, p, s) => s \in {"NDA", "CANCELLED"}
    /\ \A p \in Final, s \in DealStatus : ~ CanTransition(DealMachine, p, s)
  BY DEF DealStatus, DealMachine, CanTransition, Final

\* An updateStatus in flight.
Updating == [at : {"readStatus", "writeStatus"}, user : User, to : DealStatus]

\* The statuses the deal has had lie along the machine, and whoever is about to write one
\* was allowed to, from a status it has had.
DealInv ==
    /\ SlotsOK
    /\ scenario \in Scenario
    /\ status \in visited
    /\ visited \subseteq DealStatus
    /\ \A s \in visited \ {"INITIATED"} : \E p \in visited : CanTransition(DealMachine, p, s)
    /\ visited \subseteq {"INITIATED", "CANCELLED"} \/ "NDA" \in visited
    /\ \A r \in Request : call[r].at \in {"readStatus", "writeStatus"} => call[r] \in Updating
    /\ \A r \in Request :
           At(r, "writeStatus") => \E p \in visited : CanTransition(DealMachine, p, call[r].to)

\* A new room starts at INITIATED with nothing under way.
LEMMA DealInvInit == ASSUME RoomInit PROVE DealInv
  BY MachineFacts DEF RoomInit, HandlerInit, DealInit, DealInv, SlotsOK, Idle, At

\* The scenario keeps its clients to the users and statuses there are.
LEMMA ScenarioTypes ==
    ASSUME scenario \in Scenario
    PROVE  scenario.people \subseteq User /\ scenario.targets \subseteq DealStatus
  BY CallAssumption

\* What a step of DealsService does to the status, and to the updates of it.
UpdateEffect(r) ==
    \/ /\ UNCHANGED <<status, visited>>
       /\ call'[r].at \notin {"readStatus", "writeStatus"}
    \/ /\ UNCHANGED <<status, visited>>
       /\ call'[r] \in Updating
       /\ call'[r].at = "readStatus"
       /\ \E u \in User : Manages(u)
    \/ /\ UNCHANGED <<status, visited>>
       /\ At(r, "readStatus")
       /\ call'[r] \in Updating
       /\ call'[r].at = "writeStatus"
       /\ CanTransition(DealMachine, status, call'[r].to)
    \/ /\ At(r, "writeStatus")
       /\ status' = call[r].to
       /\ visited' = visited \cup {call[r].to}
       /\ call'[r].at = "event"

\* And that is all it does.
LEMMA UpdateEffects ==
    ASSUME DealInv, NEW r \in Request, DealArrive(r) \/ DealProceed(r)
    PROVE  UpdateEffect(r)
  <1> USE DEF DealInv
  <1>1. ASSUME NEW u \in scenario.people, NEW to \in scenario.targets, BeginUpdateStatus(r, u, to)
        PROVE  UpdateEffect(r)
    <2>1. u \in User /\ to \in DealStatus
      BY ScenarioTypes
    <2> QED
      BY <1>1, <2>1, BeginMoves DEF BeginUpdateStatus, UpdateEffect, Updating, dealVars
  <1>2. CASE ReadStatus(r)
    <2>1. call[r] \in Updating
      BY <1>2 DEF ReadStatus, At
    <2>2. CASE CanTransition(DealMachine, status, call[r].to)
      <3>1. call'[r] = [call[r] EXCEPT !.at = "writeStatus"]
        BY <1>2, <2>2, AtMoves, GoMoves DEF ReadStatus
      <3> QED
        BY <1>2, <2>1, <2>2, <3>1 DEF ReadStatus, UpdateEffect, Updating, dealVars
    <2>3. CASE ~ CanTransition(DealMachine, status, call[r].to)
      BY <1>2, <2>3, GoMoves DEF ReadStatus, UpdateEffect, Idle, dealVars
    <2> QED
      BY <2>2, <2>3
  <1>3. CASE WriteStatus(r)
    BY <1>3, GoMoves DEF WriteStatus, UpdateEffect, RecordAndTell
  <1>4. ASSUME NEW u, NEW v, NEW ro, BeginAddParticipant(r, u, v, ro)
        PROVE  UpdateEffect(r)
    BY <1>4, BeginMoves DEF BeginAddParticipant, UpdateEffect, dealVars
  <1>5. ASSUME NEW u, BeginCreateTask(r, u)
        PROVE  UpdateEffect(r)
    BY <1>5, BeginMoves DEF BeginCreateTask, UpdateEffect, dealVars
  <1>6. ASSUME NEW u, NEW t, NEW to, BeginUpdateTask(r, u, t, to)
        PROVE  UpdateEffect(r)
    BY <1>6, BeginMoves DEF BeginUpdateTask, UpdateEffect, dealVars
  <1>7. CASE UpsertParticipant(r)
    BY <1>7, GoMoves DEF UpsertParticipant, UpdateEffect, Record
  <1>8. ASSUME NEW t, InsertTask(r, t)
        PROVE  UpdateEffect(r)
    BY <1>8, GoMoves DEF InsertTask, UpdateEffect, Record
  <1>9. CASE WriteTask(r)
    BY <1>9, GoMoves DEF WriteTask, UpdateEffect, Record, Idle
  <1>10. CASE WriteEvent(r)
    BY <1>10, GoMoves, AtMoves DEF WriteEvent, UpdateEffect, Idle
  <1>11. CASE FindOthers(r)
    BY <1>11, GoMoves DEF FindOthers, UpdateEffect, dealVars
  <1>12. CASE NotifyOne(r)
    <2>1. PICK u : Go(r, [call[r] EXCEPT !.others = @ \ {u}])
      BY <1>12 DEF NotifyOne
    <2>2. /\ "at" \in DOMAIN [call[r] EXCEPT !.others = @ \ {u}]
          /\ [call[r] EXCEPT !.others = @ \ {u}].at = "notify"
      BY <1>12 DEF SlotsOK, NotifyOne, At
    <2> QED
      BY <1>12, <2>1, <2>2, GoMoves DEF NotifyOne, UpdateEffect
  <1>13. CASE NotifiedAll(r)
    BY <1>13, GoMoves DEF NotifiedAll, UpdateEffect, Idle, dealVars
  <1> QED
    BY <1>1, <1>2, <1>3, <1>4, <1>5, <1>6, <1>7, <1>8, <1>9, <1>10, <1>11, <1>12, <1>13
       DEF DealArrive, DealProceed

\* The invariant of the deal is inductive.
LEMMA DealInvNext ==
    ASSUME DealInv, [RoomNext]_roomStateVars
    PROVE  DealInv'
  <1>1. CASE UNCHANGED <<status, role, task, visited>> /\ Untouched(DealSteps)
    <2>1. \A r \in Request : call'[r].at \in {"readStatus", "writeStatus"} => call'[r] = call[r]
      BY <1>1 DEF Untouched, DealSteps
    <2> QED
      BY <1>1, <2>1 DEF DealInv, Untouched, At
  <1>2. ASSUME NEW r \in Request, DealArrive(r) \/ DealProceed(r)
        PROVE  DealInv'
    <2>1. UpdateEffect(r)
      BY <1>2, UpdateEffects
    <2>2. /\ SlotsOK' /\ scenario' = scenario
          /\ \A q \in Request : q # r => call'[q] = call[q]
      BY <1>2, DealMoves DEF Moves, DealInv
    <2>3. CASE UNCHANGED <<status, visited>>
      BY <2>1, <2>2, <2>3 DEF UpdateEffect, DealInv, At
    <2>4. CASE ~ UNCHANGED <<status, visited>>
      <3> DEFINE to == call[r].to
      <3>1. /\ At(r, "writeStatus") /\ call[r] \in Updating
            /\ status' = to /\ visited' = visited \cup {to} /\ call'[r].at = "event"
        BY <2>1, <2>4 DEF UpdateEffect, DealInv, At
      <3>2. to \in DealStatus
        BY <3>1 DEF Updating
      <3>3. PICK p \in visited : CanTransition(DealMachine, p, to)
        BY <3>1 DEF DealInv
      <3>4. \A s \in visited' \ {"INITIATED"} : \E q \in visited' : CanTransition(DealMachine, q, s)
        BY <3>1, <3>3 DEF DealInv
      <3>5. visited' \subseteq {"INITIATED", "CANCELLED"} \/ "NDA" \in visited'
        BY <3>1, <3>2, <3>3, MachineFacts DEF DealInv
      <3>6. \A q \in Request : call'[q].at \in {"readStatus", "writeStatus"} => call'[q] = call[q]
        BY <2>2, <3>1
      <3> QED
        BY <2>2, <3>1, <3>2, <3>4, <3>5, <3>6 DEF DealInv, At
    <2> QED
      BY <2>3, <2>4
  <1> QED
    BY <1>1, <1>2, DealCases DEF DealInv

\* Whatever overlaps in the room, its status and its updates in flight are as DealInv says.
THEOREM DealInvHolds == RoomSpec => []DealInv
  BY DealInvInit, DealInvNext, PTL DEF RoomSpec

\* Every status a deal has had was allowed from one it had had before it: stale writes take it
\* nowhere else, and nothing is completed without its NDA and its transfer.
THEOREM StatusesLieAlongMachine == RoomSpec => []ReachedAlongMachine
  <1>1. ASSUME DealInv
        PROVE  ReachedAlongMachine
    <2>1. ASSUME "COMPLETED" \in visited
          PROVE  {"NDA", "TRANSFER"} \subseteq visited
      <3>1. PICK p \in visited : CanTransition(DealMachine, p, "COMPLETED")
        BY <1>1, <2>1 DEF DealInv
      <3> QED
        BY <1>1, <2>1, <3>1, MachineFacts DEF DealInv
    <2> QED
      BY <1>1, <2>1 DEF DealInv, ReachedAlongMachine
  <1> QED
    BY <1>1, DealInvHolds, PTL

\* A deal that is COMPLETED or CANCELLED stays so once no update is between its read and its
\* write: whatever is read from then on allows nothing.
THEOREM FinalDealsStay == RoomSpec => FinalStays
  <1>1. ASSUME DealInv, [RoomNext]_roomStateVars, Over
        PROVE  Over' /\ status' = status
    <2>1. CASE UNCHANGED <<status, role, task, visited>> /\ Untouched(DealSteps)
      <3>1. \A r \in Request : ~ At(r, "writeStatus")'
        BY <1>1, <2>1 DEF Over, InFlight, At, Untouched, DealSteps
      <3> QED
        BY <1>1, <2>1, <3>1 DEF Over, InFlight
    <2>2. ASSUME NEW r \in Request, DealArrive(r) \/ DealProceed(r)
          PROVE  Over' /\ status' = status
      <3>1. /\ UpdateEffect(r)
            /\ \A q \in Request : q # r => call'[q] = call[q]
        BY <1>1, <2>2, UpdateEffects, DealMoves DEF Moves, DealInv
      <3>2. ~ At(r, "writeStatus")
        BY <1>1 DEF Over, InFlight
      <3>3. ASSUME call'[r] \in Updating, CanTransition(DealMachine, status, call'[r].to)
            PROVE  FALSE
        BY <1>1, <3>3, MachineFacts DEF Over, Updating
      <3>4. status' = status /\ call'[r].at # "writeStatus"
        BY <3>1, <3>2, <3>3 DEF UpdateEffect
      <3>5. \A q \in Request : ~ At(q, "writeStatus")'
        BY <1>1, <3>1, <3>4 DEF Over, InFlight, At
      <3> QED
        BY <1>1, <3>4, <3>5 DEF Over, InFlight
    <2> QED
      BY <1>1, <2>1, <2>2, DealCases DEF DealInv
  <1>2. DealInv /\ [RoomNext]_roomStateVars => [Over => Over' /\ status' = status]_roomVars
    BY <1>1
  <1> QED
    BY <1>2, DealInvHolds, PTL DEF RoomSpec, FinalStays

-----------------------------------------------------------------------------
(* The managers of the room. *)

\* Roles change by the upsert of addParticipant, which only those who manage begin.
LEMMA RoleEffects ==
    ASSUME DealInv, NEW r \in Request, DealArrive(r) \/ DealProceed(r)
    PROVE  /\ role' = role \/ At(r, "upsert")
           /\ call'[r].at = "upsert" =>
                  "addParticipant" \in scenario.calls /\ \E u \in User : Manages(u)
  <1> USE DEF DealInv
  <1>1. ASSUME NEW u \in scenario.people, NEW v, NEW ro, BeginAddParticipant(r, u, v, ro)
        PROVE  role' = role /\ "addParticipant" \in scenario.calls /\ \E w \in User : Manages(w)
    BY <1>1, ScenarioTypes DEF BeginAddParticipant, Begin, dealVars
  <1>2. ASSUME NEW u, NEW to, BeginUpdateStatus(r, u, to)
        PROVE  role' = role /\ call'[r].at # "upsert"
    BY <1>2, BeginMoves DEF BeginUpdateStatus, dealVars
  <1>3. ASSUME NEW u, BeginCreateTask(r, u)
        PROVE  role' = role /\ call'[r].at # "upsert"
    BY <1>3, BeginMoves DEF BeginCreateTask, dealVars
  <1>4. ASSUME NEW u, NEW t, NEW to, BeginUpdateTask(r, u, t, to)
        PROVE  role' = role /\ call'[r].at # "upsert"
    BY <1>4, BeginMoves DEF BeginUpdateTask, dealVars
  <1>5. CASE ReadStatus(r)
    BY <1>5, GoMoves, AtMoves DEF ReadStatus, Idle, dealVars
  <1>6. CASE WriteStatus(r)
    BY <1>6, GoMoves DEF WriteStatus, RecordAndTell
  <1>7. CASE UpsertParticipant(r)
    BY <1>7, GoMoves DEF UpsertParticipant, Record
  <1>8. ASSUME NEW t, InsertTask(r, t)
        PROVE  role' = role /\ call'[r].at # "upsert"
    BY <1>8, GoMoves DEF InsertTask, Record
  <1>9. CASE WriteTask(r)
    BY <1>9, GoMoves DEF WriteTask, Record, Idle
  <1>10. CASE WriteEvent(r)
    BY <1>10, GoMoves, AtMoves DEF WriteEvent, Idle
  <1>11. CASE FindOthers(r)
    BY <1>11, GoMoves DEF FindOthers, dealVars
  <1>12. CASE NotifyOne(r)
    <2>1. PICK u : Go(r, [call[r] EXCEPT !.others = @ \ {u}])
      BY <1>12 DEF NotifyOne
    <2>2. /\ "at" \in DOMAIN [call[r] EXCEPT !.others = @ \ {u}]
          /\ [call[r] EXCEPT !.others = @ \ {u}].at = "notify"
      BY <1>12 DEF SlotsOK, NotifyOne, At
    <2> QED
      BY <1>12, <2>1, <2>2, GoMoves DEF NotifyOne
  <1>13. CASE NotifiedAll(r)
    BY <1>13, GoMoves DEF NotifiedAll, Idle, dealVars
  <1> QED
    BY <1>1, <1>2, <1>3, <1>4, <1>5, <1>6, <1>7, <1>8, <1>9, <1>10, <1>11, <1>12, <1>13
       DEF DealArrive, DealProceed

\* A room whose last manager was demoted never gets one again, and its deal comes to rest.
THEOREM UnmanagedRoomsStay == RoomSpec => UnmanagedStays
  <1> DEFINE Resting == ~ InFlight("readStatus") /\ ~ InFlight("writeStatus")
             Claim == /\ Unmanaged'
                      /\ Resting => status' = status /\ Resting'
  <1>1. ASSUME DealInv, [RoomNext]_roomStateVars, Unmanaged
        PROVE  Claim
    <2>1. CASE UNCHANGED <<status, role, task, visited>> /\ Untouched(DealSteps)
      <3>1. ASSUME NEW step \in {"readStatus", "writeStatus", "upsert"}, ~ InFlight(step)
            PROVE  ~ InFlight(step)'
        BY <2>1, <3>1 DEF InFlight, At, Untouched, DealSteps
      <3>2. (\A u \in User : ~ Manages(u))'
        BY <1>1, <2>1 DEF Unmanaged, Manages, Participant
      <3> QED
        BY <1>1, <2>1, <3>1, <3>2 DEF Unmanaged
    <2>2. ASSUME NEW r \in Request, DealArrive(r) \/ DealProceed(r)
          PROVE  Claim
      <3>1. /\ UpdateEffect(r)
            /\ role' = role \/ At(r, "upsert")
            /\ call'[r].at = "upsert" => \E u \in User : Manages(u)
            /\ \A q \in Request : q # r => call'[q] = call[q]
        BY <1>1, <2>2, UpdateEffects, RoleEffects, DealMoves DEF Moves, DealInv
      <3>2. role' = role /\ call'[r].at # "upsert"
        BY <1>1, <3>1 DEF Unmanaged, InFlight
      <3>3. Unmanaged'
        BY <1>1, <3>1, <3>2 DEF Unmanaged, InFlight, At, Manages, Participant
      <3>4. ASSUME Resting
            PROVE  status' = status /\ Resting'
        <4>1. status' = status /\ call'[r].at \notin {"readStatus", "writeStatus"}
          BY <1>1, <3>1, <3>4 DEF Unmanaged, InFlight, At, UpdateEffect
        <4> QED
          BY <3>1, <3>4, <4>1 DEF InFlight, At
      <3> QED
        BY <3>3, <3>4
    <2> QED
      BY <1>1, <2>1, <2>2, DealCases DEF DealInv
  <1>2. DealInv /\ [RoomNext]_roomStateVars =>
            [Unmanaged =>
                /\ Unmanaged'
                /\ ~ InFlight("readStatus") /\ ~ InFlight("writeStatus") =>
                       status' = status /\ ~ InFlight("readStatus")' /\ ~ InFlight("writeStatus")']_roomVars
    BY <1>1
  <1> QED
    BY <1>2, DealInvHolds, PTL DEF RoomSpec, UnmanagedStays

-----------------------------------------------------------------------------
(* The payment. *)

\* The statuses a deal has had are never forgotten.
LEMMA VisitedGrows ==
    ASSUME DealInv, [RoomNext]_roomStateVars
    PROVE  visited \subseteq visited'
  BY DealCases, UpdateEffects DEF DealInv, UpdateEffect

\* A step of the room is one of the payment's services, or of the provider, or it leaves the
\* payment and the handlers of those services alone.
LEMMA PaymentCases ==
    ASSUME SlotsOK, [RoomNext]_roomStateVars
    PROVE  \/ \E r \in Request : PaymentArrive(r) \/ PaymentProceed(r) \/ DismissOnError(r)
           \/ Provider
           \/ UNCHANGED paymentVars /\ Untouched(PaymentSteps)
  <1>1. ASSUME NEW r \in Request, NEW steps, steps \cap PaymentSteps = {}, Moves(r, steps)
        PROVE  Untouched(PaymentSteps)
    BY <1>1 DEF Moves, Untouched
  <1>2. ASSUME NEW r \in Request,
               \/ DealArrive(r) \/ DealProceed(r)
               \/ DiligenceArrive(r) \/ DiligenceProceed(r)
               \/ AgreementArrive(r) \/ AgreementProceed(r)
               \/ DocumentArrive(r) \/ DocumentProceed(r)
        PROVE  Untouched(PaymentSteps)
    <2>1. /\ (DiligenceSteps \cup CommonSteps) \cap PaymentSteps = {}
          /\ (AgreementSteps \cup CommonSteps) \cap PaymentSteps = {}
          /\ (DealSteps \cup CommonSteps) \cap PaymentSteps = {}
          /\ (DocumentSteps \cup CommonSteps) \cap PaymentSteps = {}
      BY DEF DiligenceSteps, AgreementSteps, PaymentSteps, DocumentSteps, DealSteps, CommonSteps
    <2> QED
      BY <1>1, <1>2, <2>1, DealMoves, DiligenceMoves, AgreementMoves, DocumentMoves
  <1>3. ASSUME NEW r \in Request, Fail(r)
        PROVE  Untouched(PaymentSteps)
    BY <1>1, <1>3, FailMoves DEF PaymentSteps
  <1>4. ASSUME DocumentTime \/ AgreementOutside \/ UNCHANGED roomStateVars
        PROVE  Untouched(PaymentSteps)
    <2>1. UNCHANGED <<call, scenario>>
      BY <1>4 DEF DocumentTime, ExpireGrant, AgreementOutside, SignElsewhere, roomStateVars,
                  roomVars, handlerVars
    <2> QED
      BY <2>1 DEF SlotsOK, Untouched
  <1> QED
    BY <1>2, <1>3, <1>4 DEF RoomNext, RoomArrive, RoomProceed, RoomFail, RoomOutside, roomStateVars

\* A webhook in flight.
EventSteps == {"recordEvent", "route", "apply", "tellCompleted"}

\* The payment was started at the stage for it.
StageInv ==
    /\ payment # NoPayment => "TRANSACTION" \in visited
    /\ \A r \in Request : call[r].at \in {"findPayment", "insertPayment"} => "TRANSACTION" \in visited

\* An event about to be applied is recorded, was not applied before, and is nobody else's.
OnceInv ==
    /\ \A r \in Request : call[r].at \in EventSteps => call[r] \in [at : EventSteps, event : EventId]
    /\ applied \in Seq(EventId)
    /\ \A i \in DOMAIN applied : applied[i] \in recorded
    /\ \A r \in Request :
           call[r].at \in {"route", "apply"} =>
               /\ call[r].event \in recorded
               /\ \A i \in DOMAIN applied : applied[i] # call[r].event
    /\ \A q, r \in Request :
           /\ call[q].at \in {"route", "apply"} /\ call[r].at \in {"route", "apply"}
           /\ call[q].event = call[r].event
           => q = r
    /\ AppliedOnce

\* Only a payment the provider knows has events, and the log has an entry for each.
LogInv ==
    /\ payment \in [status : PaymentStatus, ref : BOOLEAN]
    /\ history \in Seq(PaymentStatus)
    /\ payment = NoPayment => applied = << >>
    /\ \A r \in Request : At(r, "apply") => payment.ref /\ Routed(call[r].event)
    /\ LogExplains

PaymentInv == StageInv /\ OnceInv /\ LogInv

\* No payment, no event, nothing in flight.
LEMMA PaymentInvInit == ASSUME RoomInit PROVE PaymentInv
  BY DEF RoomInit, HandlerInit, PaymentInit, PaymentInv, StageInv, OnceInv, LogInv, Idle, At,
         EventSteps, AppliedOnce, LogExplains, NoPayment, PaymentStatus

\* Steps that do not concern a part of the invariant.
LEMMA StageCalm ==
    ASSUME StageInv, visited \subseteq visited', payment' = NoPayment <=> payment = NoPayment,
           \A q \in Request : call'[q] = call[q] \/ call'[q].at \notin {"findPayment", "insertPayment"}
    PROVE  StageInv'
  BY DEF StageInv

\* An event is safe while nobody handles one.
LEMMA OnceCalm ==
    ASSUME OnceInv, UNCHANGED <<recorded, applied>>,
           \A q \in Request : call'[q] = call[q] \/ call'[q].at \notin EventSteps
    PROVE  OnceInv'
  BY DEF OnceInv, EventSteps, AppliedOnce

\* The log is safe while the row and the applied events are.
LEMMA LogCalm ==
    ASSUME LogInv, UNCHANGED <<payment, history, applied>>,
           \A q \in Request : call'[q] = call[q] \/ call'[q].at # "apply"
    PROVE  LogInv'
  BY DEF LogInv, LogExplains, At, Routed

\* The handlers of TransactionsService: only the insert of the row writes anything.
LEMMA PayKeepsInv ==
    ASSUME DealInv, PaymentInv, NEW r \in Request, visited \subseteq visited',
           \/ \E u \in scenario.people : BeginPay(r, u)
           \/ ReadStage(r) \/ FindPayment(r) \/ InsertPayment(r) \/ PaymentTaken(r)
    PROVE  PaymentInv'
  <1> USE DEF PaymentInv, DealInv
  <1> DEFINE QuietNow == /\ call'[r].at \notin EventSteps
                         /\ \A q \in Request : q # r => call'[q] = call[q]
  <1>1. ASSUME UNCHANGED paymentVars, QuietNow,
               call'[r].at \in {"findPayment", "insertPayment"} => "TRANSACTION" \in visited
        PROVE  PaymentInv'
    <2>1. StageInv'
      BY <1>1 DEF StageInv, paymentVars
    <2>2. OnceInv'
      BY <1>1, OnceCalm DEF paymentVars
    <2>3. LogInv'
      BY <1>1, LogCalm DEF paymentVars, EventSteps
    <2> QED
      BY <2>1, <2>2, <2>3
  <1>2. ASSUME NEW u, BeginPay(r, u)
        PROVE  PaymentInv'
    BY <1>1, <1>2, BeginMoves DEF BeginPay, EventSteps
  <1>3. CASE ReadStage(r)
    BY <1>1, <1>3, GoMoves, AtMoves DEF ReadStage, Idle, EventSteps
  <1>4. CASE FindPayment(r)
    <2>1. "TRANSACTION" \in visited
      BY <1>4 DEF FindPayment, At, StageInv
    <2> QED
      BY <1>1, <1>4, <2>1, GoMoves, AtMoves DEF FindPayment, Record, EventSteps
  <1>5. CASE PaymentTaken(r)
    BY <1>1, <1>5, GoMoves DEF PaymentTaken, Idle, EventSteps
  <1>6. CASE InsertPayment(r)
    <2>1. /\ "TRANSACTION" \in visited
          /\ payment = NoPayment
          /\ payment' = [status |-> "PENDING", ref |-> FALSE]
          /\ history' = Append(history, "PENDING")
          /\ UNCHANGED <<recorded, applied>>
          /\ QuietNow
          /\ call'[r].at = "event"
      BY <1>6, GoMoves DEF InsertPayment, At, StageInv, Record, EventSteps
    <2>2. StageInv'
      BY <2>1 DEF StageInv
    <2>3. OnceInv'
      BY <2>1, OnceCalm
    <2>4. history = << >> /\ applied = << >>
      BY <2>1 DEF LogInv, LogExplains
    <2>5. history' = <<"PENDING">>
      BY <2>1, <2>4
    <2>6. \A q \in Request : ~ At(q, "apply")
      BY <2>1 DEF LogInv, NoPayment
    <2>7. \A q \in Request : ~ At(q, "apply")'
      BY <2>1, <2>6 DEF At, EventSteps
    <2>8. payment' # NoPayment /\ "PENDING" \in PaymentStatus
      BY <2>1 DEF NoPayment, PaymentStatus
    <2>9. LogExplains'
      BY <2>1, <2>4, <2>5, <2>8 DEF LogExplains
    <2> QED
      BY <2>1, <2>2, <2>3, <2>4, <2>5, <2>7, <2>8, <2>9 DEF LogInv
  <1> QED
    BY <1>2, <1>3, <1>4, <1>5, <1>6

\* The provider sends, or the row gets its providerRef.
LEMMA ProviderKeepsInv ==
    ASSUME DealInv, PaymentInv, visited \subseteq visited', Provider
    PROVE  PaymentInv'
  <1> USE DEF PaymentInv
  <1>1. UNCHANGED <<call, recorded, applied, history>>
    BY DEF Provider, Wire, Send, roomVars, handlerVars
  <1>2. OnceInv'
    BY <1>1, OnceCalm
  <1>3. CASE Wire
    <2>1. /\ payment # NoPayment /\ payment' = [payment EXCEPT !.ref = TRUE]
          /\ payment \in [status : PaymentStatus, ref : BOOLEAN]
      BY <1>3 DEF Wire, LogInv
    <2>2. /\ payment' \in [status : PaymentStatus, ref : BOOLEAN]
          /\ payment'.ref = TRUE /\ payment'.status = payment.status
      BY <2>1
    <2>3. payment' # NoPayment
      BY <2>2 DEF NoPayment
    <2>4. StageInv'
      BY <1>1, <2>1, <2>3, StageCalm
    <2>5. LogExplains'
      BY <1>1, <2>1, <2>2, <2>3 DEF LogInv, LogExplains
    <2> QED
      BY <1>1, <1>2, <2>2, <2>3, <2>4, <2>5 DEF LogInv, At, Routed
  <1>4. CASE Send
    BY <1>1, <1>2, <1>4, StageCalm, LogCalm DEF Send
  <1> QED
    BY <1>3, <1>4 DEF Provider

\* The handler of the webhook: an event that is recorded for the first time has one handler,
\* and that one applies it once.
LEMMA WebhookKeepsInv ==
    ASSUME DealInv, PaymentInv, NEW r \in Request, visited \subseteq visited',
           \/ \E e \in EventId : Deliver(r, e)
           \/ RecordEvent(r) \/ DismissDuplicate(r) \/ DismissOnError(r)
           \/ Route(r) \/ Apply(r) \/ TellCompleted(r)
    PROVE  PaymentInv'
  <1> USE DEF PaymentInv, DealInv
  <1> DEFINE Alone == \A q \in Request : q # r => call'[q] = call[q]
  <1>1. ASSUME UNCHANGED <<payment, history, applied>>, Alone,
               call'[r].at \notin {"findPayment", "insertPayment", "apply"}, OnceInv'
        PROVE  PaymentInv'
    BY <1>1, StageCalm, LogCalm
  <1>2. ASSUME NEW e \in EventId, Deliver(r, e)
        PROVE  PaymentInv'
    <2>1. /\ UNCHANGED paymentVars
          /\ Alone /\ call'[r] = [at |-> "recordEvent", event |-> e]
      BY <1>2, BeginMoves DEF Deliver
    <2>2. OnceInv'
      BY <2>1 DEF paymentVars, OnceInv, EventSteps, AppliedOnce
    <2> QED
      BY <1>1, <2>1, <2>2 DEF paymentVars
  <1>3. CASE RecordEvent(r)
    <2>1. call[r] \in [at : EventSteps, event : EventId]
      BY <1>3 DEF RecordEvent, At, OnceInv, EventSteps
    <2>2. /\ call[r].event \notin recorded
          /\ recorded' = recorded \cup {call[r].event}
          /\ UNCHANGED <<payment, history, applied>>
          /\ Alone /\ call'[r] = [call[r] EXCEPT !.at = "route"]
      BY <1>3, GoMoves, AtMoves DEF RecordEvent
    <2>3. /\ call'[r] \in [at : EventSteps, event : EventId]
          /\ call'[r].at = "route" /\ call'[r].event = call[r].event
      BY <2>1, <2>2 DEF EventSteps
    <2>4. \A q \in Request : call[q].at \in {"route", "apply"} => call[q].event # call[r].event
      BY <2>2 DEF OnceInv
    <2>5. \A i \in DOMAIN applied : applied[i] # call[r].event
      BY <2>2 DEF OnceInv
    <2>6. ASSUME NEW p \in Request, NEW q \in Request,
                 call'[p].at \in {"route", "apply"}, call'[q].at \in {"route", "apply"},
                 call'[p].event = call'[q].event
          PROVE  p = q
      BY <2>2, <2>3, <2>4, <2>6 DEF OnceInv
    <2>7. ASSUME NEW q \in Request, call'[q].at \in {"route", "apply"}
          PROVE  /\ call'[q].event \in recorded'
                 /\ \A i \in DOMAIN applied' : applied'[i] # call'[q].event
      BY <2>2, <2>3, <2>5, <2>7 DEF OnceInv
    <2>8. ASSUME NEW q \in Request, call'[q].at \in EventSteps
          PROVE  call'[q] \in [at : EventSteps, event : EventId]
      BY <2>2, <2>3, <2>8 DEF OnceInv
    <2>9. AppliedOnce' /\ applied' \in Seq(EventId) /\ \A i \in DOMAIN applied' : applied'[i] \in recorded'
      BY <2>2 DEF OnceInv, AppliedOnce
    <2>10. OnceInv'
      BY <2>6, <2>7, <2>8, <2>9 DEF OnceInv
    <2> QED
      BY <1>1, <2>2, <2>3, <2>10
  <1>4. CASE DismissDuplicate(r) \/ DismissOnError(r)
    <2>1. /\ recorded \subseteq recorded' /\ UNCHANGED <<payment, history, applied>>
          /\ Alone /\ call'[r] = Idle
      BY <1>4, GoMoves DEF DismissDuplicate, DismissOnError, Acknowledge, Idle
    <2>2. OnceInv'
      BY <2>1 DEF OnceInv, AppliedOnce, Idle, EventSteps
    <2> QED
      BY <1>1, <2>1, <2>2 DEF Idle
  <1>5. CASE TellCompleted(r)
    <2>1. UNCHANGED <<payment, history, recorded, applied>> /\ Alone /\ call'[r] = Idle
      BY <1>5, GoMoves DEF TellCompleted, Acknowledge, Idle
    <2>2. OnceInv'
      BY <2>1, OnceCalm DEF Idle, EventSteps
    <2> QED
      BY <1>1, <2>1, <2>2 DEF Idle
  <1>6. CASE Route(r)
    <2>1. /\ call[r] \in [at : EventSteps, event : EventId] /\ call[r].at = "route"
          /\ UNCHANGED <<payment, history, recorded, applied>>
      BY <1>6 DEF Route, At, OnceInv, EventSteps
    <2>2. CASE Routed(call[r].event)
      <3>1. Alone /\ call'[r] = [call[r] EXCEPT !.at = "apply"]
        BY <1>6, <2>2, GoMoves, AtMoves DEF Route
      <3>2. /\ call'[r] \in [at : EventSteps, event : EventId]
            /\ call'[r].at = "apply" /\ call'[r].event = call[r].event
        BY <2>1, <3>1 DEF EventSteps
      <3>3. OnceInv'
        BY <2>1, <3>1, <3>2 DEF OnceInv, AppliedOnce
      <3>4. StageInv'
        BY <2>1, <3>1, <3>2, StageCalm
      <3>5. LogInv'
        BY <2>1, <2>2, <3>1, <3>2 DEF LogInv, LogExplains, At, Routed
      <3> QED
        BY <3>3, <3>4, <3>5
    <2>3. CASE ~ Routed(call[r].event)
      <3>1. Alone /\ call'[r] = Idle
        BY <1>6, <2>3, GoMoves DEF Route, Acknowledge, Idle
      <3>2. OnceInv'
        BY <2>1, <3>1, OnceCalm DEF Idle, EventSteps
      <3> QED
        BY <1>1, <2>1, <3>1, <3>2 DEF Idle
    <2> QED
      BY <2>2, <2>3
  <1>7. CASE Apply(r)
    <2> DEFINE e == call[r].event
               new == STATUS_BY_EVENT_TYPE[Says[e]]
    <2>1. /\ call[r] \in [at : EventSteps, event : EventId] /\ At(r, "apply")
          /\ e \in recorded /\ payment.ref /\ Routed(e)
          /\ payment' = [payment EXCEPT !.status = new]
          /\ history' = Append(history, new)
          /\ applied' = Append(applied, e)
          /\ UNCHANGED recorded
      BY <1>7 DEF Apply, At, OnceInv, LogInv, EventSteps
    <2>2. /\ Alone /\ call'[r].at \in {"tellCompleted", "idle"}
          /\ call'[r].at = "tellCompleted" => call'[r] = [call[r] EXCEPT !.at = "tellCompleted"]
      BY <1>7, GoMoves, AtMoves DEF Apply, Acknowledge, Idle
    <2>3. call'[r].at \in EventSteps => call'[r] \in [at : EventSteps, event : EventId]
      BY <2>1, <2>2 DEF EventSteps
    <2>4. new \in PaymentStatus \ {"PENDING", "ABSENT"}
      BY <2>1 DEF Routed, STATUS_BY_EVENT_TYPE, PaymentStatus
    <2>5. /\ payment # NoPayment
          /\ payment' \in [status : PaymentStatus, ref : BOOLEAN]
          /\ payment'.status = new /\ payment'.ref = payment.ref
      <3>1. payment \in [status : PaymentStatus, ref : BOOLEAN]
        BY DEF LogInv
      <3>2. payment # NoPayment
        BY <2>1, <3>1 DEF NoPayment
      <3> HIDE DEF new
      <3> QED
        BY <2>1, <2>4, <3>1, <3>2
    <2>6. payment' # NoPayment
      BY <2>4, <2>5 DEF NoPayment
    <2>7. StageInv'
      BY <2>2, <2>5, <2>6, StageCalm
    <2>8. /\ applied \in Seq(EventId) /\ e \in EventId
          /\ \A i \in DOMAIN applied : applied[i] # e
          /\ \A q \in Request : q # r /\ call[q].at \in {"route", "apply"} => call[q].event # e
      BY <2>1 DEF OnceInv, At
    <2>9. /\ applied' \in Seq(EventId) /\ Len(applied') = Len(applied) + 1
          /\ DOMAIN applied' = DOMAIN applied \cup {Len(applied) + 1}
          /\ Len(applied) + 1 \notin DOMAIN applied
          /\ \A i \in DOMAIN applied : applied'[i] = applied[i]
          /\ applied'[Len(applied) + 1] = e
      BY <2>1, <2>8
    <2>10. AppliedOnce'
      BY <2>8, <2>9 DEF OnceInv, AppliedOnce
    <2>11. \A i \in DOMAIN applied' : applied'[i] \in recorded'
      BY <2>1, <2>9 DEF OnceInv
    <2>12. ASSUME NEW q \in Request, call'[q].at \in {"route", "apply"}
           PROVE  call'[q] = call[q] /\ \A i \in DOMAIN applied' : applied'[i] # call'[q].event
      BY <2>2, <2>8, <2>9, <2>12 DEF OnceInv
    <2>13. OnceInv'
      BY <2>1, <2>2, <2>3, <2>9, <2>10, <2>11, <2>12 DEF OnceInv
    <2>14. /\ history \in Seq(PaymentStatus) /\ history # << >>
           /\ \A i \in DOMAIN history : history[i] = "PENDING" <=> i = 1
           /\ Len(history) = Len(applied) + 1
      BY <2>5 DEF LogInv, LogExplains
    <2>15. /\ history' \in Seq(PaymentStatus) /\ Len(history') = Len(history) + 1
           /\ DOMAIN history' = DOMAIN history \cup {Len(history) + 1}
           /\ \A i \in DOMAIN history : history'[i] = history[i]
           /\ history'[Len(history) + 1] = new
           /\ history' # << >>
      BY <2>1, <2>4, <2>14
    <2>16. LogExplains'
      BY <2>4, <2>5, <2>6, <2>9, <2>14, <2>15 DEF LogExplains
    <2>17. \A q \in Request : At(q, "apply")' => At(q, "apply") /\ call'[q] = call[q]
      BY <2>2 DEF At
    <2>18. LogInv'
      BY <2>1, <2>5, <2>6, <2>15, <2>16, <2>17 DEF LogInv, Routed
    <2> QED
      BY <2>7, <2>13, <2>18
  <1> QED
    BY <1>2, <1>3, <1>4, <1>5, <1>6, <1>7

\* The invariant of the payment is inductive, given the deal's.
LEMMA PaymentInvNext ==
    ASSUME DealInv, PaymentInv, [RoomNext]_roomStateVars
    PROVE  PaymentInv'
  <1>1. visited \subseteq visited'
    BY VisitedGrows
  <1>2. ASSUME NEW r \in Request, PaymentArrive(r) \/ PaymentProceed(r) \/ DismissOnError(r)
        PROVE  PaymentInv'
    BY <1>1, <1>2, PayKeepsInv, WebhookKeepsInv DEF PaymentArrive, PaymentProceed
  <1>3. CASE UNCHANGED paymentVars /\ Untouched(PaymentSteps)
    <2>1. StageInv' /\ OnceInv' /\ LogInv'
      BY <1>1, <1>3, StageCalm, OnceCalm, LogCalm
         DEF paymentVars, Untouched, PaymentSteps, EventSteps, PaymentInv
    <2> QED
      BY <2>1 DEF PaymentInv
  <1> QED
    BY <1>1, <1>2, <1>3, PaymentCases, ProviderKeepsInv DEF DealInv

\* And so are its payment and the events about it.
THEOREM PaymentInvHolds == RoomSpec => []PaymentInv
  BY DealInvHolds, PaymentInvInit, PaymentInvNext, PTL DEF RoomSpec

\* However often the provider delivers an event, also at once, and wherever handlers die, it is
\* applied at most once.
THEOREM EventsApplyOnce == RoomSpec => []AppliedOnce
  <1>1. PaymentInv => AppliedOnce
    BY DEF PaymentInv, OnceInv
  <1> QED
    BY <1>1, PaymentInvHolds, PTL

\* The transaction row is what its log says, entry by entry.
THEOREM LogsExplain == RoomSpec => []LogExplains
  <1>1. PaymentInv => LogExplains
    BY DEF PaymentInv, LogInv
  <1> QED
    BY <1>1, PaymentInvHolds, PTL

\* No payment starts on a deal that has not been at its stage, however stale the read.
THEOREM PaymentsStartAtTheirStage == RoomSpec => []PaymentsReachedStage
  <1>1. PaymentInv => PaymentsReachedStage
    BY DEF PaymentInv, StageInv, PaymentsReachedStage
  <1> QED
    BY <1>1, PaymentInvHolds, PTL

-----------------------------------------------------------------------------
(* The rows of the room and its handlers: their types. *)

\* The handlers of the services, as parts of Handler.
LEMMA HandlerParts ==
    /\ Idle \in Handler
    /\ EventHandler \subseteq Handler
    /\ DealHandler \subseteq Handler
    /\ DiligenceHandler \subseteq Handler
    /\ AgreementHandler \subseteq Handler
    /\ PaymentHandler \subseteq Handler
    /\ DocumentHandler \subseteq Handler
  BY DEF Handler

\* What a handler remembers at each step of the shared follow-ups and of DealsService ...
LEMMA DealHandlerFields ==
    ASSUME NEW h \in Handler
    PROVE  /\ h.at \in {"event", "findOthers"} =>
                  h \in [at : {"event", "findOthers"}, user : User, event : RoomEvent, tell : BOOLEAN]
           /\ h.at = "notify" => h \in [at : {"notify"}, event : RoomEvent, others : SUBSET User]
           /\ h.at \in {"readStatus", "writeStatus"} =>
                  h \in [at : {"readStatus", "writeStatus"}, user : User, to : DealStatus]
           /\ h.at = "upsert" => h \in [at : {"upsert"}, user : User, whom : User, role : Role]
           /\ h.at = "insertTask" => h \in [at : {"insertTask"}, user : User]
           /\ h.at = "writeTask" =>
                  h \in [at : {"writeTask"}, user : User, task : Task, to : TaskStatus]
  BY DEF Handler, Idle, EventHandler, DealHandler, DiligenceHandler, AgreementHandler,
         PaymentHandler, DocumentHandler

\* ... of DueDiligenceService and AgreementsService ...
LEMMA PaperHandlerFields ==
    ASSUME NEW h \in Handler
    PROVE  /\ h.at = "insertRequest" => h \in [at : {"insertRequest"}, user : User]
           /\ h.at = "writeItem" =>
                  h \in [at : {"writeItem"}, user : User, item : DiligenceRequest, to : ItemStatus]
           /\ h.at = "insertAgreement" => h \in [at : {"insertAgreement"}, user : User]
           /\ h.at = "readLatest" => h \in [at : {"readLatest"}, user : User, of : Agreement]
           /\ h.at \in {"insertVersion", "writePending"} =>
                  h \in [at : {"insertVersion", "writePending"}, user : User, of : Agreement,
                         number : Nat \ {0}]
           /\ h.at \in {"upsertSignature", "countParties"} =>
                  h \in [at : {"upsertSignature", "countParties"}, user : User, of : Agreement,
                         version : AnyVersion]
           /\ h.at = "countSignatures" =>
                  h \in [at : {"countSignatures"}, user : User, of : Agreement,
                         version : AnyVersion, parties : Nat]
           /\ h.at = "writeOutcome" =>
                  h \in [at : {"writeOutcome"}, user : User, of : Agreement, version : AnyVersion,
                         outcome : {"SIGNED", "PARTIALLY_SIGNED"}]
  BY DEF Handler, Idle, EventHandler, DealHandler, DiligenceHandler, AgreementHandler,
         PaymentHandler, DocumentHandler

\* ... and of the payment's services and DocumentsService.
LEMMA FileHandlerFields ==
    ASSUME NEW h \in Handler
    PROVE  /\ h.at \in {"readStage", "findPayment", "insertPayment"} =>
                  h \in [at : {"readStage", "findPayment", "insertPayment"}, user : User]
           /\ h.at \in {"recordEvent", "route", "apply", "tellCompleted"} =>
                  h \in [at : {"recordEvent", "route", "apply", "tellCompleted"}, event : EventId]
           /\ h.at = "putObject" => h \in [at : {"putObject"}, user : User, place : Place]
           /\ h.at = "insertDocument" =>
                  h \in [at : {"insertDocument"}, user : User, place : Place, document : Document]
           /\ h.at = "upsertGrant" =>
                  h \in [at : {"upsertGrant"}, user : User, document : Document, whom : User,
                         expiry : {"never", "later"}]
           /\ h.at = "writeRevoked" =>
                  h \in [at : {"writeRevoked"}, user : User, document : Document, whom : User]
           /\ h.at = "writeDeleted" =>
                  h \in [at : {"writeDeleted"}, user : User, document : Document]
           /\ h.at = "log" => h \in [at : {"log"}, entries : Seq(LogEntry) \ {<<>>}]
  BY DEF Handler, Idle, EventHandler, DealHandler, DiligenceHandler, AgreementHandler,
         PaymentHandler, DocumentHandler

\* Handlers that are typed fill their slots.
LEMMA HandlersFillSlots == ASSUME call \in [Request -> Handler] PROVE SlotsOK
  <1>1. \A h \in Handler : "at" \in DOMAIN h
    BY DEF Handler, Idle, EventHandler, DealHandler, DiligenceHandler, AgreementHandler,
           PaymentHandler, DocumentHandler
  <1> QED
    BY <1>1 DEF SlotsOK

\* A handler that goes on as one keeps the slots typed.
LEMMA GoTypes ==
    ASSUME call \in [Request -> Handler], NEW r \in Request, NEW h \in Handler,
           Go(r, h) \/ \E endpoint : Begin(r, endpoint, h)
    PROVE  call' \in [Request -> Handler]
  BY DEF Go, Begin

\* The events of the room, from what they are about.
LEMMA EventTypes ==
    /\ \A s \in DealStatus : StatusChanged(s) \in RoomEvent
    /\ \A u \in User, ro \in Role : ParticipantAdded(u, ro) \in RoomEvent
    /\ \A t \in Task : TaskCreated(t) \in RoomEvent /\ TaskCompleted(t) \in RoomEvent
    /\ \A q \in DiligenceRequest : Requested(q) \in RoomEvent
    /\ \A q \in DiligenceRequest, s \in ItemStatus : ItemUpdated(q, s) \in RoomEvent
    /\ \A a \in Agreement : Event("AGREEMENT_CREATED", a, "DRAFT") \in RoomEvent
    /\ \A a \in Agreement : Event("AGREEMENT_VERSION_ADDED", a, "PENDING_SIGNATURE") \in RoomEvent
    /\ \A v \in AnyVersion, u \in User : SignedEvent(v, u) \in RoomEvent
    /\ Started \in RoomEvent
    /\ Event("TRANSACTION_COMPLETED", "deal", "COMPLETED") \in RoomEvent
    /\ Event("OFFER_ACCEPTED", "deal", "INITIATED") \in RoomEvent
  BY MachineFacts DEF RoomEvent, Event, StatusChanged, ParticipantAdded, TaskCreated, TaskCompleted,
     Requested, ItemUpdated, SignedEvent, Started, TaskStatus, AgreementStatus, PaymentStatus

\* A handler about to record one.
LEMMA RecordTypes ==
    ASSUME NEW u \in User, NEW e \in RoomEvent
    PROVE  Record(u, e) \in Handler /\ RecordAndTell(u, e) \in Handler
  BY HandlerParts DEF Record, RecordAndTell, EventHandler

\* What is kept of an event is one.
LEMMA KeptTypes ==
    ASSUME NEW e \in RoomEvent
    PROVE  Kept(e) \subseteq RoomEvent
  BY DEF Kept


\* The rows that DealsService writes, and the handlers: what its steps keep typed.
SharedTypes ==
    /\ DealRowsOK
    /\ timeline \subseteq RoomEvent
    /\ notices \subseteq (User \X RoomEvent)
    /\ call \in [Request -> Handler]

\* DealsService and the follow-ups.
LEMMA DealKeepsTypes ==
    ASSUME RoomTypeOK, NEW r \in Request, DealArrive(r) \/ DealProceed(r)
    PROVE  SharedTypes' /\ scenario' = scenario
  <1> USE DEF SharedTypes
  <1>1. /\ SharedTypes /\ call[r] \in Handler
        /\ scenario.people \subseteq User /\ scenario.targets \subseteq DealStatus
        /\ scenario.given \subseteq Role
    BY CallAssumption DEF RoomTypeOK
  <1> USE <1>1
  <1> DEFINE h == call[r]
  <1>2. ASSUME NEW g \in Handler, Go(r, g) \/ \E endpoint : Begin(r, endpoint, g)
        PROVE  call' \in [Request -> Handler] /\ scenario' = scenario
    BY <1>2, GoTypes DEF Go, Begin
  <1>3. ASSUME NEW u \in scenario.people, NEW to \in scenario.targets, BeginUpdateStatus(r, u, to)
        PROVE  SharedTypes' /\ scenario' = scenario
    <2>1. [at |-> "readStatus", user |-> u, to |-> to] \in DealHandler
      BY DEF DealHandler
    <2> QED
      BY <1>2, <1>3, <2>1, HandlerParts DEF BeginUpdateStatus, dealVars, DealRowsOK
  <1>4. ASSUME NEW u \in scenario.people, NEW v \in scenario.people, NEW ro \in scenario.given,
               BeginAddParticipant(r, u, v, ro)
        PROVE  SharedTypes' /\ scenario' = scenario
    <2>1. [at |-> "upsert", user |-> u, whom |-> v, role |-> ro] \in DealHandler
      BY DEF DealHandler
    <2> QED
      BY <1>2, <1>4, <2>1, HandlerParts DEF BeginAddParticipant, dealVars, DealRowsOK
  <1>5. ASSUME NEW u \in scenario.people, BeginCreateTask(r, u)
        PROVE  SharedTypes' /\ scenario' = scenario
    <2>1. [at |-> "insertTask", user |-> u] \in DealHandler
      BY DEF DealHandler
    <2> QED
      BY <1>2, <1>5, <2>1, HandlerParts DEF BeginCreateTask, dealVars, DealRowsOK
  <1>6. ASSUME NEW u \in scenario.people, NEW t \in Task, NEW to \in TaskStatus,
               BeginUpdateTask(r, u, t, to)
        PROVE  SharedTypes' /\ scenario' = scenario
    <2>1. [at |-> "writeTask", user |-> u, task |-> t, to |-> to] \in DealHandler
      BY DEF DealHandler
    <2> QED
      BY <1>2, <1>6, <2>1, HandlerParts DEF BeginUpdateTask, dealVars, DealRowsOK
  <1>7. CASE ReadStatus(r)
    <2>1. h \in [at : {"readStatus", "writeStatus"}, user : User, to : DealStatus]
      BY <1>7, DealHandlerFields DEF ReadStatus, At
    <2>2. [h EXCEPT !.at = "writeStatus"] \in DealHandler
      BY <2>1 DEF DealHandler
    <2> QED
      BY <1>2, <1>7, <2>2, HandlerParts DEF ReadStatus, dealVars, DealRowsOK
  <1>8. CASE WriteStatus(r)
    <2>1. h \in [at : {"readStatus", "writeStatus"}, user : User, to : DealStatus]
      BY <1>8, DealHandlerFields DEF WriteStatus, At
    <2>2. RecordAndTell(h.user, StatusChanged(h.to)) \in Handler
      BY <2>1, RecordTypes, EventTypes
    <2> QED
      BY <1>2, <1>8, <2>1, <2>2 DEF WriteStatus, DealRowsOK
  <1>9. CASE UpsertParticipant(r)
    <2>1. h \in [at : {"upsert"}, user : User, whom : User, role : Role]
      BY <1>9, DealHandlerFields DEF UpsertParticipant, At
    <2>2. Record(h.user, ParticipantAdded(h.whom, h.role)) \in Handler
      BY <2>1, RecordTypes, EventTypes
    <2> QED
      BY <1>2, <1>9, <2>1, <2>2 DEF UpsertParticipant, DealRowsOK
  <1>10. ASSUME NEW t \in Task, InsertTask(r, t)
         PROVE  SharedTypes' /\ scenario' = scenario
    <2>1. h \in [at : {"insertTask"}, user : User]
      BY <1>10, DealHandlerFields DEF InsertTask, At
    <2>2. Record(h.user, TaskCreated(t)) \in Handler
      BY <2>1, RecordTypes, EventTypes
    <2> QED
      BY <1>2, <1>10, <2>2 DEF InsertTask, DealRowsOK, TaskStatus
  <1>11. CASE WriteTask(r)
    <2>1. h \in [at : {"writeTask"}, user : User, task : Task, to : TaskStatus]
      BY <1>11, DealHandlerFields DEF WriteTask, At
    <2>2. Record(h.user, TaskCompleted(h.task)) \in Handler
      BY <2>1, RecordTypes, EventTypes
    <2>3. call' \in [Request -> Handler] /\ scenario' = scenario
      BY <1>2, <1>11, <2>2, HandlerParts DEF WriteTask
    <2> QED
      BY <1>11, <2>1, <2>3 DEF WriteTask, DealRowsOK
  <1>12. CASE WriteEvent(r)
    <2>1. h \in [at : {"event", "findOthers"}, user : User, event : RoomEvent, tell : BOOLEAN]
      BY <1>12, DealHandlerFields DEF WriteEvent, At
    <2>2. [h EXCEPT !.at = "findOthers"] \in EventHandler
      BY <2>1 DEF EventHandler
    <2>3. call' \in [Request -> Handler] /\ scenario' = scenario
      BY <1>2, <1>12, <2>2, HandlerParts DEF WriteEvent
    <2>4. timeline' \subseteq RoomEvent
      BY <1>12, <2>1, KeptTypes DEF WriteEvent
    <2> QED
      BY <1>12, <2>3, <2>4 DEF WriteEvent, DealRowsOK
  <1>13. CASE FindOthers(r)
    <2>1. h \in [at : {"event", "findOthers"}, user : User, event : RoomEvent, tell : BOOLEAN]
      BY <1>13, DealHandlerFields DEF FindOthers, At
    <2>2. [at |-> "notify", event |-> h.event, others |-> Participants \ {h.user}] \in EventHandler
      BY <2>1 DEF EventHandler, Participants
    <2> QED
      BY <1>2, <1>13, <2>2, HandlerParts DEF FindOthers, dealVars, DealRowsOK
  <1>14. CASE NotifyOne(r)
    <2>1. h \in [at : {"notify"}, event : RoomEvent, others : SUBSET User]
      BY <1>14, DealHandlerFields DEF NotifyOne, At
    <2>2. PICK u \in h.others : /\ notices' = notices \cup ({u} \X Kept(h.event))
                                /\ Go(r, [h EXCEPT !.others = @ \ {u}])
      BY <1>14 DEF NotifyOne
    <2>3. [h EXCEPT !.others = @ \ {u}] \in EventHandler
      BY <2>1 DEF EventHandler
    <2>4. notices' \subseteq (User \X RoomEvent)
      BY <2>1, <2>2, KeptTypes
    <2> QED
      BY <1>2, <1>14, <2>2, <2>3, <2>4, HandlerParts DEF NotifyOne, DealRowsOK
  <1>15. CASE NotifiedAll(r)
    BY <1>2, <1>15, HandlerParts DEF NotifiedAll, dealVars, DealRowsOK
  <1> QED
    BY <1>3, <1>4, <1>5, <1>6, <1>7, <1>8, <1>9, <1>10, <1>11, <1>12, <1>13, <1>14, <1>15
       DEF DealArrive, DealProceed

\* DueDiligenceService.
LEMMA DiligenceKeepsTypes ==
    ASSUME RoomTypeOK, NEW r \in Request, DiligenceArrive(r) \/ DiligenceProceed(r)
    PROVE  /\ DiligenceRowsOK' /\ UNCHANGED <<scenario, dealVars>>
           /\ call' \in [Request -> Handler]
  <1> DEFINE Goal == /\ DiligenceRowsOK' /\ UNCHANGED <<scenario, dealVars>>
                     /\ call' \in [Request -> Handler]
             h    == call[r]
  <1>1. /\ call \in [Request -> Handler] /\ h \in Handler /\ DiligenceRowsOK /\ DealRowsOK
        /\ scenario.people \subseteq User
    BY CallAssumption DEF RoomTypeOK
  <1> USE <1>1
  <1>2. ASSUME NEW g \in Handler, Go(r, g) \/ \E endpoint : Begin(r, endpoint, g)
        PROVE  call' \in [Request -> Handler] /\ scenario' = scenario
    BY <1>2, GoTypes DEF Go, Begin
  <1>3. ASSUME NEW u \in scenario.people, BeginRequest(r, u)
        PROVE  Goal
    <2>1. [at |-> "insertRequest", user |-> u] \in DiligenceHandler
      BY DEF DiligenceHandler
    <2> QED
      BY <1>2, <1>3, <2>1, HandlerParts DEF BeginRequest, diligenceVars, DiligenceRowsOK
  <1>4. ASSUME NEW u \in scenario.people, NEW q \in DiligenceRequest, NEW to \in ItemStatus,
               BeginUpdateItem(r, u, q, to)
        PROVE  Goal
    <2>1. [at |-> "writeItem", user |-> u, item |-> q, to |-> to] \in DiligenceHandler
      BY DEF DiligenceHandler
    <2> QED
      BY <1>2, <1>4, <2>1, HandlerParts DEF BeginUpdateItem, diligenceVars, DiligenceRowsOK
  <1>5. ASSUME NEW q \in DiligenceRequest, InsertRequest(r, q)
        PROVE  Goal
    <2>1. h \in [at : {"insertRequest"}, user : User]
      BY <1>5, PaperHandlerFields DEF InsertRequest, At
    <2>2. RecordAndTell(h.user, Requested(q)) \in Handler
      BY <2>1, RecordTypes, EventTypes
    <2>3. Participants \ {h.user} \in SUBSET User
      BY DEF Participants
    <2> QED
      BY <1>2, <1>5, <2>2, <2>3 DEF InsertRequest, DiligenceRowsOK
  <1>6. CASE WriteItem(r)
    <2>1. h \in [at : {"writeItem"}, user : User, item : DiligenceRequest, to : ItemStatus]
      BY <1>6, PaperHandlerFields DEF WriteItem, At
    <2>2. Record(h.user, ItemUpdated(h.item, h.to)) \in Handler
      BY <2>1, RecordTypes, EventTypes
    <2> QED
      BY <1>2, <1>6, <2>1, <2>2 DEF WriteItem, DiligenceRowsOK
  <1> QED
    BY <1>3, <1>4, <1>5, <1>6 DEF DiligenceArrive, DiligenceProceed

\* AgreementsService; people and versions can be counted.
LEMMA AgreementKeepsTypes ==
    ASSUME RoomTypeOK, IsFiniteSet(Participants), \A a \in Agreement : Latest(a) \in Nat,
           NEW r \in Request, AgreementArrive(r) \/ AgreementProceed(r)
    PROVE  /\ AgreementRowsOK' /\ UNCHANGED <<scenario, dealVars>>
           /\ call' \in [Request -> Handler]
  <1> DEFINE Goal == /\ AgreementRowsOK' /\ UNCHANGED <<scenario, dealVars>>
                     /\ call' \in [Request -> Handler]
             h    == call[r]
  <1>1. /\ call \in [Request -> Handler] /\ h \in Handler /\ AgreementRowsOK
        /\ scenario.people \subseteq User
    BY CallAssumption DEF RoomTypeOK
  <1> USE <1>1
  <1>2. ASSUME NEW g \in Handler, Go(r, g) \/ \E endpoint : Begin(r, endpoint, g)
        PROVE  call' \in [Request -> Handler] /\ scenario' = scenario
    BY <1>2, GoTypes DEF Go, Begin
  <1>3. UNCHANGED agreementVars => AgreementRowsOK'
    BY DEF agreementVars, AgreementRowsOK
  <1>4. ASSUME NEW u \in scenario.people, BeginAgreement(r, u)
        PROVE  Goal
    <2>1. [at |-> "insertAgreement", user |-> u] \in AgreementHandler
      BY DEF AgreementHandler
    <2> QED
      BY <1>2, <1>3, <1>4, <2>1, HandlerParts DEF BeginAgreement
  <1>5. ASSUME NEW u \in scenario.people, NEW a \in Agreement, BeginVersion(r, u, a)
        PROVE  Goal
    <2>1. [at |-> "readLatest", user |-> u, of |-> a] \in AgreementHandler
      BY DEF AgreementHandler
    <2> QED
      BY <1>2, <1>3, <1>5, <2>1, HandlerParts DEF BeginVersion
  <1>6. ASSUME NEW u \in scenario.people, NEW a \in Agreement, NEW v \in AnyVersion,
               BeginSign(r, u, a, v)
        PROVE  Goal
    <2>1. [at |-> "upsertSignature", user |-> u, of |-> a, version |-> v] \in AgreementHandler
      BY DEF AgreementHandler
    <2> QED
      BY <1>2, <1>3, <1>6, <2>1, HandlerParts DEF BeginSign
  <1>7. ASSUME NEW a \in Agreement, InsertAgreement(r, a)
        PROVE  Goal
    <2>1. h \in [at : {"insertAgreement"}, user : User]
      BY <1>7, PaperHandlerFields DEF InsertAgreement, At
    <2>2. Record(h.user, Event("AGREEMENT_CREATED", a, "DRAFT")) \in Handler
      BY <2>1, RecordTypes, EventTypes
    <2> QED
      BY <1>2, <1>7, <2>2 DEF InsertAgreement, AgreementRowsOK, AgreementStatus
  <1>8. CASE ReadLatest(r)
    <2>1. h \in [at : {"readLatest"}, user : User, of : Agreement]
      BY <1>8, PaperHandlerFields DEF ReadLatest, At
    <2>2. Latest(h.of) + 1 \in Nat \ {0}
      BY <2>1
    <2>3. [at |-> "insertVersion", user |-> h.user, of |-> h.of, number |-> Latest(h.of) + 1]
              \in AgreementHandler
      BY <2>1, <2>2 DEF AgreementHandler
    <2> QED
      BY <1>2, <1>3, <1>8, <2>3, HandlerParts DEF ReadLatest
  <1>9. CASE InsertVersion(r)
    <2>1. h \in [at : {"insertVersion", "writePending"}, user : User, of : Agreement,
                 number : Nat \ {0}]
      BY <1>9, PaperHandlerFields DEF InsertVersion, At
    <2>2. [h EXCEPT !.at = "writePending"] \in AgreementHandler
      BY <2>1 DEF AgreementHandler
    <2>3. [of |-> h.of, number |-> h.number] \in Version
      BY <2>1 DEF Version
    <2>4. PICK w : version' = [version EXCEPT ![w] = [of |-> h.of, number |-> h.number]]
      BY <1>9 DEF InsertVersion, Insert
    <2>5. version' \in [VersionId -> Version \cup {NoVersion}]
      BY <2>3, <2>4 DEF AgreementRowsOK
    <2> QED
      BY <1>2, <1>9, <2>2, <2>5, HandlerParts DEF InsertVersion, AgreementRowsOK
  <1>10. CASE VersionTaken(r)
    BY <1>2, <1>3, <1>10, HandlerParts DEF VersionTaken
  <1>11. CASE WritePending(r)
    <2>1. h \in [at : {"insertVersion", "writePending"}, user : User, of : Agreement,
                 number : Nat \ {0}]
      BY <1>11, PaperHandlerFields DEF WritePending, At
    <2>2. Record(h.user, Event("AGREEMENT_VERSION_ADDED", h.of, "PENDING_SIGNATURE")) \in Handler
      BY <2>1, RecordTypes, EventTypes
    <2> QED
      BY <1>2, <1>11, <2>1, <2>2 DEF WritePending, AgreementRowsOK, AgreementStatus
  <1>12. CASE UpsertSignature(r)
    <2>1. h \in [at : {"upsertSignature", "countParties"}, user : User, of : Agreement,
                 version : AnyVersion]
      BY <1>12, PaperHandlerFields DEF UpsertSignature, At
    <2>2. [h EXCEPT !.at = "countParties"] \in AgreementHandler
      BY <2>1 DEF AgreementHandler
    <2> QED
      BY <1>2, <1>12, <2>1, <2>2, HandlerParts DEF UpsertSignature, AgreementRowsOK
  <1>13. CASE CountParties(r)
    <2>1. h \in [at : {"upsertSignature", "countParties"}, user : User, of : Agreement,
                 version : AnyVersion]
      BY <1>13, PaperHandlerFields DEF CountParties, At
    <2>2. Cardinality(Parties) \in Nat
      <3>1. Parties \subseteq Participants
        BY DEF Parties, Participants, Participant
      <3> QED
        BY <3>1, FS_Subset, FS_CardinalityType
    <2>3. [at |-> "countSignatures", user |-> h.user, of |-> h.of, version |-> h.version,
           parties |-> Cardinality(Parties)] \in AgreementHandler
      BY <2>1, <2>2 DEF AgreementHandler
    <2> QED
      BY <1>2, <1>3, <1>13, <2>3, HandlerParts DEF CountParties
  <1>14. CASE CountSignatures(r)
    <2>1. h \in [at : {"countSignatures"}, user : User, of : Agreement, version : AnyVersion,
                 parties : Nat]
      BY <1>14, PaperHandlerFields DEF CountSignatures, At
    <2>2. PICK o \in {"SIGNED", "PARTIALLY_SIGNED"} :
              Go(r, [at |-> "writeOutcome", user |-> h.user, of |-> h.of, version |-> h.version,
                     outcome |-> o])
      BY <1>14 DEF CountSignatures
    <2>3. [at |-> "writeOutcome", user |-> h.user, of |-> h.of, version |-> h.version,
           outcome |-> o] \in AgreementHandler
      BY <2>1 DEF AgreementHandler
    <2> QED
      BY <1>2, <1>3, <1>14, <2>2, <2>3, HandlerParts DEF CountSignatures
  <1>15. CASE WriteOutcome(r)
    <2>1. h \in [at : {"writeOutcome"}, user : User, of : Agreement, version : AnyVersion,
                 outcome : {"SIGNED", "PARTIALLY_SIGNED"}]
      BY <1>15, PaperHandlerFields DEF WriteOutcome, At
    <2>2. Record(h.user, SignedEvent(h.version, h.user)) \in Handler
      BY <2>1, RecordTypes, EventTypes
    <2> QED
      BY <1>2, <1>15, <2>1, <2>2 DEF WriteOutcome, AgreementRowsOK, AgreementStatus
  <1> QED
    BY <1>4, <1>5, <1>6, <1>7, <1>8, <1>9, <1>10, <1>11, <1>12, <1>13, <1>14, <1>15
       DEF AgreementArrive, AgreementProceed

\* The services of the payment, and the insert of an event that fails.  What is applied is known
\* to the table of event types, by the invariant of the payment.
LEMMA PaymentKeepsTypes ==
    ASSUME RoomTypeOK, NEW r \in Request, At(r, "apply") => Routed(call[r].event),
           PaymentArrive(r) \/ PaymentProceed(r) \/ DismissOnError(r)
    PROVE  /\ PaymentRowsOK' /\ UNCHANGED <<scenario, status, role, task, notices, visited>>
           /\ call' \in [Request -> Handler] /\ timeline' \subseteq RoomEvent
  <1> DEFINE Kind == /\ UNCHANGED <<scenario, status, role, task, notices, visited>>
                     /\ call' \in [Request -> Handler] /\ timeline' \subseteq RoomEvent
             Goal == PaymentRowsOK' /\ Kind
             h    == call[r]
  <1>1. /\ call \in [Request -> Handler] /\ h \in Handler /\ PaymentRowsOK
        /\ timeline \subseteq RoomEvent /\ scenario.people \subseteq User
    BY CallAssumption DEF RoomTypeOK
  <1> USE <1>1
  <1>2. ASSUME NEW g \in Handler, Go(r, g) \/ \E endpoint : Begin(r, endpoint, g), UNCHANGED dealVars
        PROVE  Kind
    BY <1>2, GoTypes DEF Go, Begin, dealVars
  <1>3. UNCHANGED paymentVars => PaymentRowsOK'
    BY DEF paymentVars, PaymentRowsOK
  <1>4. ASSUME NEW u \in scenario.people, BeginPay(r, u)
        PROVE  Goal
    <2>1. [at |-> "readStage", user |-> u] \in PaymentHandler
      BY DEF PaymentHandler
    <2> QED
      BY <1>2, <1>3, <1>4, <2>1, HandlerParts DEF BeginPay
  <1>5. ASSUME NEW e \in EventId, Deliver(r, e)
        PROVE  Goal
    <2>1. [at |-> "recordEvent", event |-> e] \in PaymentHandler
      BY DEF PaymentHandler
    <2> QED
      BY <1>2, <1>3, <1>5, <2>1, HandlerParts DEF Deliver
  <1>6. ASSUME h.at \in {"readStage", "findPayment", "insertPayment"}
        PROVE  /\ h.user \in User
               /\ \A step \in {"findPayment", "insertPayment"} : [h EXCEPT !.at = step] \in Handler
               /\ Record(h.user, Started) \in Handler
    <2>1. h \in [at : {"readStage", "findPayment", "insertPayment"}, user : User]
      BY <1>6, FileHandlerFields
    <2>2. \A step \in {"findPayment", "insertPayment"} : [h EXCEPT !.at = step] \in PaymentHandler
      BY <2>1 DEF PaymentHandler
    <2> QED
      BY <2>1, <2>2, HandlerParts, RecordTypes, EventTypes
  <1>7. CASE ReadStage(r)
    BY <1>2, <1>3, <1>6, <1>7, HandlerParts DEF ReadStage, At
  <1>8. CASE FindPayment(r)
    BY <1>2, <1>3, <1>6, <1>8, HandlerParts DEF FindPayment, At
  <1>9. CASE InsertPayment(r)
    <2> DEFINE row == [status |-> "PENDING", ref |-> FALSE]
    <2>1. "PENDING" \in PaymentStatus /\ row \in [status : PaymentStatus, ref : BOOLEAN]
      BY DEF PaymentStatus
    <2>2. payment' = row /\ history' = Append(history, "PENDING")
      BY <1>9 DEF InsertPayment
    <2>3. payment' \in [status : PaymentStatus, ref : BOOLEAN] /\ history' \in Seq(PaymentStatus)
      BY <2>1, <2>2 DEF PaymentRowsOK
    <2> QED
      BY <1>2, <1>6, <1>9, <2>3 DEF InsertPayment, At, PaymentRowsOK
  <1>10. CASE PaymentTaken(r)
    BY <1>2, <1>3, <1>10, HandlerParts DEF PaymentTaken
  <1>11. ASSUME h.at \in {"recordEvent", "route", "apply", "tellCompleted"}
         PROVE  /\ h.event \in EventId
                /\ \A step \in {"route", "apply", "tellCompleted"} : [h EXCEPT !.at = step] \in Handler
    <2>1. h \in [at : {"recordEvent", "route", "apply", "tellCompleted"}, event : EventId]
      BY <1>11, FileHandlerFields
    <2>2. \A step \in {"route", "apply", "tellCompleted"} : [h EXCEPT !.at = step] \in PaymentHandler
      BY <2>1 DEF PaymentHandler
    <2> QED
      BY <2>1, <2>2, HandlerParts
  <1>12. CASE RecordEvent(r)
    BY <1>2, <1>11, <1>12 DEF RecordEvent, At, PaymentRowsOK
  <1>13. CASE DismissDuplicate(r) \/ DismissOnError(r)
    <2>1. /\ h.event \in EventId /\ Go(r, Idle) /\ UNCHANGED dealVars
          /\ answered' = answered \cup {h.event}
          /\ recorded' \subseteq recorded \cup {h.event}
          /\ UNCHANGED <<payment, history, sent, applied>>
      BY <1>11, <1>13 DEF DismissDuplicate, DismissOnError, Acknowledge, At
    <2> QED
      BY <1>2, <2>1, HandlerParts DEF PaymentRowsOK
  <1>14. CASE Route(r)
    BY <1>2, <1>11, <1>14, HandlerParts DEF Route, Acknowledge, At, PaymentRowsOK
  <1>15. CASE Apply(r)
    <2> DEFINE new == STATUS_BY_EVENT_TYPE[Says[h.event]]
    <2>1. /\ h.event \in EventId
          /\ payment' = [payment EXCEPT !.status = new]
          /\ history' = Append(history, new)
          /\ applied' = Append(applied, h.event)
          /\ answered' \subseteq answered \cup {h.event}
          /\ UNCHANGED <<dealVars, recorded, sent>>
          /\ Go(r, [h EXCEPT !.at = "tellCompleted"]) \/ Go(r, Idle)
      BY <1>11, <1>15 DEF Apply, Acknowledge, At
    <2>2. new \in PaymentStatus
      BY <1>15 DEF Apply, Routed, STATUS_BY_EVENT_TYPE, PaymentStatus
    <2>3. Kind
      BY <1>2, <1>11, <1>15, <2>1, HandlerParts DEF Apply, At
    <2>4. payment' \in [status : PaymentStatus, ref : BOOLEAN] /\ history' \in Seq(PaymentStatus)
      <3> HIDE DEF new
      <3>1. payment' \in [status : PaymentStatus, ref : BOOLEAN]
        BY <2>1, <2>2 DEF PaymentRowsOK
      <3>2. history' \in Seq(PaymentStatus)
        BY <2>1, <2>2, AppendProperties DEF PaymentRowsOK
      <3> QED
        BY <3>1, <3>2
    <2>5. applied' \in Seq(EventId) /\ answered' \subseteq EventId
      BY <2>1 DEF PaymentRowsOK
    <2> QED
      BY <2>1, <2>3, <2>4, <2>5 DEF PaymentRowsOK
  <1>16. CASE TellCompleted(r)
    <2>1. h.event \in EventId
      BY <1>11, <1>16 DEF TellCompleted, At
    <2>2. call' \in [Request -> Handler] /\ scenario' = scenario
      BY <1>16, GoTypes, HandlerParts DEF TellCompleted, Acknowledge, Go
    <2>3. timeline' \subseteq RoomEvent
      BY <1>16, KeptTypes, EventTypes DEF TellCompleted
    <2> QED
      BY <1>16, <2>1, <2>2, <2>3 DEF TellCompleted, Acknowledge, PaymentRowsOK
  <1> QED
    BY <1>4, <1>5, <1>7, <1>8, <1>9, <1>10, <1>12, <1>13, <1>14, <1>15, <1>16
       DEF PaymentArrive, PaymentProceed

\* The provider.
LEMMA ProviderKeepsTypes ==
    ASSUME RoomTypeOK, Provider
    PROVE  PaymentRowsOK' /\ UNCHANGED roomVars
  <1>1. PaymentRowsOK
    BY DEF RoomTypeOK
  <1>2. CASE Wire
    BY <1>1, <1>2 DEF Wire, PaymentRowsOK
  <1>3. CASE Send
    <2>1. Len(Says) \in Nat
      BY SaysAssumption
    <2> QED
      BY <1>1, <1>3, <2>1 DEF Send, PaymentRowsOK
  <1> QED
    BY <1>2, <1>3 DEF Provider
\* The rest of a log that is not done is one.
LEMMA RestOfLog ==
    ASSUME NEW S, NEW s \in Seq(S), s # <<>>
    PROVE  /\ Head(s) \in S /\ Len(s) \in Nat \ {0}
           /\ DOMAIN s = 1 .. Len(s)
           /\ Tail(s) \in Seq(S) /\ Len(Tail(s)) = Len(s) - 1
           /\ \A i \in 2 .. Len(s) : i - 1 \in DOMAIN Tail(s) /\ Tail(s)[i - 1] = s[i]
           /\ \A i \in DOMAIN Tail(s) : i + 1 \in DOMAIN s /\ Tail(s)[i] = s[i + 1]
           /\ Len(s) # 1 => Tail(s) # <<>>
  <1>1. Len(s) \in Nat /\ Len(s) # 0
    OBVIOUS
  <1>2. Tail(s) \in Seq(S) /\ Len(Tail(s)) = Len(s) - 1
    BY <1>1
  <1>3. Len(s) # 1 => Tail(s) # <<>>
    <2>1. ASSUME Tail(s) = <<>>
          PROVE  Len(Tail(s)) = 0
      BY <2>1, EmptySeq, Zenon
    <2> QED
      BY <1>1, <1>2, <2>1
  <1> QED
    BY <1>1, <1>2, <1>3

\* DocumentsService.
LEMMA DocumentKeepsTypes ==
    ASSUME RoomTypeOK, NEW r \in Request, DocumentArrive(r) \/ DocumentProceed(r)
    PROVE  /\ DocumentRowsOK' /\ UNCHANGED <<scenario, dealVars>>
           /\ call' \in [Request -> Handler]
  <1> DEFINE Goal == /\ DocumentRowsOK' /\ UNCHANGED <<scenario, dealVars>>
                     /\ call' \in [Request -> Handler]
             h    == call[r]
  <1>1. /\ call \in [Request -> Handler] /\ h \in Handler /\ DocumentRowsOK
        /\ scenario.people \subseteq User
    BY CallAssumption DEF RoomTypeOK
  <1> USE <1>1
  <1>2. ASSUME NEW g \in Handler, Go(r, g) \/ \E endpoint : Begin(r, endpoint, g)
        PROVE  call' \in [Request -> Handler] /\ scenario' = scenario
    BY <1>2, GoTypes DEF Go, Begin
  <1>3. UNCHANGED documentVars => DocumentRowsOK'
    BY DEF documentVars, DocumentRowsOK
  <1>4. ASSUME NEW entries \in Seq(LogEntry), entries # <<>>
        PROVE  Logging(entries) \in Handler
    BY <1>4, HandlerParts DEF Logging, DocumentHandler
  <1>5. ASSUME NEW d \in Document, NEW u \in User,
               NEW action \in {"UPLOADED", "DOCUMENT_UPLOADED", "DOWNLOADED", "ACCESS_GRANTED",
                               "ACCESS_REVOKED", "DELETED"}
        PROVE  /\ <<action, d, u>> \in LogEntry
               /\ Logging(<< <<action, d, u>> >>) \in Handler
    <2>1. <<action, d, u>> \in LogEntry
      BY DEF LogEntry
    <2> DEFINE e == <<action, d, u>>
    <2> HIDE DEF e
    <2>2. e \in LogEntry => <<e>> \in Seq(LogEntry) /\ <<e>> # <<>>
      OBVIOUS
    <2>3. e \in LogEntry => Logging(<<e>>) \in Handler
      BY <1>4, <2>2
    <2> QED
      BY <2>1, <2>3 DEF e
  <1>6. ASSUME NEW u \in scenario.people, NEW place \in Place, BeginUpload(r, u, place)
        PROVE  Goal
    <2>1. [at |-> "putObject", user |-> u, place |-> place] \in DocumentHandler
      BY DEF DocumentHandler
    <2> QED
      BY <1>2, <1>3, <1>6, <2>1, HandlerParts DEF BeginUpload
  <1>7. ASSUME NEW u \in scenario.people, NEW d \in Document, BeginDownload(r, u, d)
        PROVE  Goal
    BY <1>2, <1>3, <1>5, <1>7 DEF BeginDownload
  <1>8. ASSUME NEW u \in scenario.people, NEW d \in Document, BeginRemove(r, u, d)
        PROVE  Goal
    <2>1. [at |-> "writeDeleted", user |-> u, document |-> d] \in DocumentHandler
      BY DEF DocumentHandler
    <2> QED
      BY <1>2, <1>3, <1>8, <2>1, HandlerParts DEF BeginRemove
  <1>9. ASSUME NEW u \in scenario.people, NEW d \in Document, NEW v \in scenario.people,
               BeginRevoke(r, u, d, v)
        PROVE  Goal
    <2>1. [at |-> "writeRevoked", user |-> u, document |-> d, whom |-> v] \in DocumentHandler
      BY DEF DocumentHandler
    <2> QED
      BY <1>2, <1>3, <1>9, <2>1, HandlerParts DEF BeginRevoke
  <1>10. ASSUME NEW u \in scenario.people, NEW d \in Document, NEW v \in scenario.people,
                NEW expiry \in {"never", "later"}, BeginGrant(r, u, d, v, expiry)
         PROVE  Goal
    <2>1. [at |-> "upsertGrant", user |-> u, document |-> d, whom |-> v, expiry |-> expiry]
              \in DocumentHandler
      BY DEF DocumentHandler
    <2> QED
      BY <1>2, <1>3, <1>10, <2>1, HandlerParts DEF BeginGrant
  <1>11. ASSUME NEW d \in Document, PutObject(r, d)
         PROVE  Goal
    <2>1. h \in [at : {"putObject"}, user : User, place : Place]
      BY <1>11, FileHandlerFields DEF PutObject, At
    <2>2. [at |-> "insertDocument", user |-> h.user, place |-> h.place, document |-> d]
              \in DocumentHandler
      BY <2>1 DEF DocumentHandler
    <2> QED
      BY <1>2, <1>11, <2>2, HandlerParts DEF PutObject, DocumentRowsOK
  <1>12. CASE InsertDocument(r)
    <2>1. h \in [at : {"insertDocument"}, user : User, place : Place, document : Document]
      BY <1>12, FileHandlerFields DEF InsertDocument, At
    <2>2. Logging(<< <<"UPLOADED", h.document, h.user>>,
                     <<"DOCUMENT_UPLOADED", h.document, h.user>> >>) \in Handler
      <3> DEFINE e == <<"UPLOADED", h.document, h.user>>
                 f == <<"DOCUMENT_UPLOADED", h.document, h.user>>
      <3>1. e \in LogEntry /\ f \in LogEntry
        BY <1>5, <2>1
      <3> HIDE DEF e, f
      <3>2. <<e, f>> \in Seq(LogEntry) /\ <<e, f>> # <<>>
        BY <3>1
      <3>3. Logging(<<e, f>>) \in Handler
        BY <1>4, <3>2
      <3> QED
        BY <3>3 DEF e, f
    <2>3. [by |-> h.user, place |-> h.place, deleted |-> FALSE]
              \in [by : User, place : Place, deleted : BOOLEAN]
      BY <2>1
    <2>4. document' \in [Document -> {NoDocument} \cup [by : User, place : Place, deleted : BOOLEAN]]
      BY <1>12, <2>1, <2>3 DEF InsertDocument, DocumentRowsOK
    <2> QED
      BY <1>2, <1>12, <2>2, <2>4 DEF InsertDocument, DocumentRowsOK
  <1>13. CASE UpsertGrant(r)
    <2>1. h \in [at : {"upsertGrant"}, user : User, document : Document, whom : User,
                 expiry : {"never", "later"}]
      BY <1>13, FileHandlerFields DEF UpsertGrant, At
    <2>2. PICK x : /\ x \in {h.expiry, grant[h.document][h.whom].expiry}
                   /\ grant' = [grant EXCEPT ![h.document][h.whom] = [revoked |-> FALSE, expiry |-> x]]
      BY <1>13 DEF UpsertGrant
    <2>3. [revoked |-> FALSE, expiry |-> x]
              \in [expiry : {"absent", "never", "later", "passed"}, revoked : BOOLEAN]
      BY <2>1, <2>2 DEF DocumentRowsOK
    <2>4. grant' \in [Document -> [User -> [expiry : {"absent", "never", "later", "passed"},
                                            revoked : BOOLEAN]]]
      BY <2>1, <2>2, <2>3 DEF DocumentRowsOK
    <2> QED
      BY <1>2, <1>5, <1>13, <2>1, <2>4 DEF UpsertGrant, DocumentRowsOK
  <1>14. CASE WriteRevoked(r)
    <2>1. h \in [at : {"writeRevoked"}, user : User, document : Document, whom : User]
      BY <1>14, FileHandlerFields DEF WriteRevoked, At
    <2>2. grant' \in [Document -> [User -> [expiry : {"absent", "never", "later", "passed"},
                                            revoked : BOOLEAN]]]
      <3>1. CASE grant[h.document][h.whom] = NoGrant
        BY <1>14, <3>1 DEF WriteRevoked, DocumentRowsOK
      <3>2. CASE grant[h.document][h.whom] # NoGrant
        <4>1. grant' = [grant EXCEPT ![h.document][h.whom].revoked = TRUE]
          BY <1>14, <3>2 DEF WriteRevoked
        <4>2. [grant[h.document][h.whom] EXCEPT !.revoked = TRUE]
                  \in [expiry : {"absent", "never", "later", "passed"}, revoked : BOOLEAN]
          <5>1. \A g \in [expiry : {"absent", "never", "later", "passed"}, revoked : BOOLEAN] :
                    [g EXCEPT !.revoked = TRUE]
                        \in [expiry : {"absent", "never", "later", "passed"}, revoked : BOOLEAN]
            OBVIOUS
          <5>2. grant[h.document][h.whom]
                    \in [expiry : {"absent", "never", "later", "passed"}, revoked : BOOLEAN]
            BY <2>1 DEF DocumentRowsOK
          <5> QED
            BY <5>1, <5>2
        <4>3. [grant[h.document] EXCEPT ![h.whom].revoked = TRUE]
                  \in [User -> [expiry : {"absent", "never", "later", "passed"}, revoked : BOOLEAN]]
          BY <2>1, <4>2 DEF DocumentRowsOK
        <4> QED
          BY <2>1, <4>1, <4>3 DEF DocumentRowsOK
      <3> QED
        BY <3>1, <3>2
    <2> QED
      BY <1>2, <1>5, <1>14, <2>1, <2>2 DEF WriteRevoked, DocumentRowsOK
  <1>15. CASE WriteDeleted(r)
    <2>1. h \in [at : {"writeDeleted"}, user : User, document : Document]
      BY <1>15, FileHandlerFields DEF WriteDeleted, At
    <2>2. document' = [document EXCEPT ![h.document].deleted = TRUE]
      BY <1>15 DEF WriteDeleted
    <2>3. [document[h.document] EXCEPT !.deleted = TRUE]
              \in {NoDocument} \cup [by : User, place : Place, deleted : BOOLEAN]
      <3>1. CASE document[h.document] = NoDocument
        <4>1. [NoDocument EXCEPT !.deleted = TRUE] = NoDocument
          BY DEF NoDocument
        <4> QED
          BY <3>1, <4>1
      <3>2. CASE document[h.document] \in [by : User, place : Place, deleted : BOOLEAN]
        BY <3>2
      <3> QED
        BY <2>1, <3>1, <3>2 DEF DocumentRowsOK
    <2>4. document' \in [Document -> {NoDocument} \cup [by : User, place : Place, deleted : BOOLEAN]]
      BY <2>1, <2>2, <2>3 DEF DocumentRowsOK
    <2> QED
      BY <1>2, <1>5, <1>15, <2>1, <2>4 DEF WriteDeleted, DocumentRowsOK
  <1>16. CASE LogAccess(r)
    <2>1. h.entries \in Seq(LogEntry) /\ h.entries # <<>>
      BY <1>16, FileHandlerFields DEF LogAccess, At
    <2>2. Head(h.entries) \in LogEntry
      BY <2>1, RestOfLog
    <2>3. Len(h.entries) # 1 => Tail(h.entries) \in Seq(LogEntry) /\ Tail(h.entries) # <<>>
      BY <2>1, RestOfLog
    <2>4. accessLog' \subseteq LogEntry
      BY <1>16, <2>2 DEF LogAccess, KeptEntry, DocumentRowsOK
    <2> QED
      BY <1>2, <1>4, <1>16, <2>3, <2>4, HandlerParts DEF LogAccess, DocumentRowsOK
  <1> QED
    BY <1>6, <1>7, <1>8, <1>9, <1>10, <1>11, <1>12, <1>13, <1>14, <1>15, <1>16
       DEF DocumentArrive, DocumentProceed

\* The time of a grant.
LEMMA TimeKeepsTypes ==
    ASSUME RoomTypeOK, DocumentTime
    PROVE  DocumentRowsOK' /\ UNCHANGED roomVars
  <1>1. PICK d \in Document, u \in User : ExpireGrant(d, u)
    BY DEF DocumentTime
  <1>2. grant' \in [Document -> [User -> [expiry : {"absent", "never", "later", "passed"},
                                          revoked : BOOLEAN]]]
    BY <1>1 DEF ExpireGrant, RoomTypeOK, DocumentRowsOK
  <1> QED
    BY <1>1, <1>2 DEF ExpireGrant, RoomTypeOK, DocumentRowsOK

-----------------------------------------------------------------------------
(* The people of the room, and the versions of its agreements. *)

\* Roles are given by addParticipant, and are never taken back.
LEMMA RolesGiven ==
    ASSUME RoomTypeOK, NEW r \in Request, DealArrive(r) \/ DealProceed(r)
    PROVE  \/ role' = role
           \/ /\ At(r, "upsert")
              /\ \E u \in User, ro \in Role : role' = [role EXCEPT ![u] = ro]
  <1>1. CASE UpsertParticipant(r)
    <2>1. call[r] \in [at : {"upsert"}, user : User, whom : User, role : Role]
      BY <1>1, DealHandlerFields DEF UpsertParticipant, At, RoomTypeOK
    <2> QED
      BY <1>1, <2>1 DEF UpsertParticipant
  <1>2. CASE DealArrive(r) \/ (DealProceed(r) /\ ~ UpsertParticipant(r))
    BY <1>2 DEF DealArrive, DealProceed, BeginUpdateStatus, BeginAddParticipant, BeginCreateTask,
                BeginUpdateTask, ReadStatus, WriteStatus, InsertTask, WriteTask, WriteEvent,
                FindOthers, NotifyOne, NotifiedAll, dealVars
  <1> QED
    BY <1>1, <1>2

\* Nobody leaves a room.
LEMMA ParticipantsStay ==
    ASSUME RoomTypeOK, [RoomNext]_roomStateVars
    PROVE  /\ \A u \in User : Participant(u) => Participant(u)'
           /\ IsFiniteSet(Participants) => IsFiniteSet(Participants)'
  <1>1. SlotsOK
    BY HandlersFillSlots DEF RoomTypeOK
  <1>2. CASE role' = role
    BY <1>2 DEF Participants, Participant
  <1>3. ASSUME NEW w \in User, NEW ro \in Role, role' = [role EXCEPT ![w] = ro]
        PROVE  /\ \A u \in User : Participant(u) => Participant(u)'
               /\ IsFiniteSet(Participants) => IsFiniteSet(Participants)'
    <2>1. ro # "NONE" /\ role \in [User -> Role \cup {"NONE"}]
      BY DEF Role, MANAGE_ROLES, RoomTypeOK, DealRowsOK
    <2>2. \A u \in User : Participant(u)' <=> Participant(u) \/ u = w
      BY <1>3, <2>1 DEF Participant
    <2>3. Participants' = Participants \cup {w}
      BY <2>2 DEF Participants
    <2> QED
      BY <2>2, <2>3, FS_AddElement
  <1>4. role' = role \/ \E w \in User, ro \in Role : role' = [role EXCEPT ![w] = ro]
    BY <1>1, DealCases, RolesGiven
  <1> QED
    BY <1>2, <1>3, <1>4

\* A step of the room is one of AgreementsService, or a signature from another deal, or it
\* leaves the agreements and the handlers of that service alone.
LEMMA AgreementCases ==
    ASSUME SlotsOK, [RoomNext]_roomStateVars
    PROVE  \/ \E r \in Request : AgreementArrive(r) \/ AgreementProceed(r)
           \/ AgreementOutside
           \/ UNCHANGED agreementVars /\ Apart(AgreementSteps)
  <1>1. ASSUME NEW r \in Request,
               \/ DealArrive(r) \/ DealProceed(r)
               \/ DiligenceArrive(r) \/ DiligenceProceed(r)
               \/ PaymentArrive(r) \/ PaymentProceed(r)
               \/ DocumentArrive(r) \/ DocumentProceed(r)
        PROVE  Apart(AgreementSteps)
    <2>1. \E steps : /\ call[r].at \in steps \cup CommonSteps
                     /\ Moves(r, steps \cup CommonSteps)
                     /\ (steps \cup CommonSteps) \cap AgreementSteps = {}
      <3>1. /\ (DiligenceSteps \cup CommonSteps) \cap AgreementSteps = {}
            /\ (PaymentSteps \cup CommonSteps) \cap AgreementSteps = {}
            /\ (DealSteps \cup CommonSteps) \cap AgreementSteps = {}
            /\ (DocumentSteps \cup CommonSteps) \cap AgreementSteps = {}
            /\ "idle" \in CommonSteps
        BY DEF DiligenceSteps, AgreementSteps, PaymentSteps, DocumentSteps, DealSteps, CommonSteps
      <3> QED
        BY <1>1, <3>1, OwnSteps, DealMoves, DiligenceMoves, PaymentMoves, DocumentMoves
    <2> QED
      BY <2>1, MovesApart
  <1>2. ASSUME NEW r \in Request, Fail(r) \/ DismissOnError(r)
        PROVE  Apart(AgreementSteps)
    <2>1. scenario.fails /\ Moves(r, {"idle"})
      BY <1>2, FailMoves DEF Fail, DismissOnError
    <2> QED
      BY <2>1 DEF Moves, Apart, Untouched, AgreementSteps
  <1>3. ASSUME RoomOutside \/ UNCHANGED roomStateVars, ~ AgreementOutside
        PROVE  Apart(AgreementSteps) /\ UNCHANGED agreementVars
    <2>1. UNCHANGED <<call, scenario>> /\ UNCHANGED agreementVars
      BY <1>3 DEF RoomOutside, Provider, Wire, Send, DocumentTime, ExpireGrant, roomStateVars,
                  roomVars, handlerVars
    <2> QED
      BY <2>1 DEF SlotsOK, Apart, Untouched
  <1> QED
    BY <1>1, <1>2, <1>3 DEF RoomNext, RoomArrive, RoomProceed, RoomFail

\* A signature from another deal leaves everything else alone.
LEMMA SignedElsewhere ==
    ASSUME AgreementOutside
    PROVE  /\ UNCHANGED <<call, scenario, agreement, version, dealVars>>
           /\ \E u \in scenario.elsewhere, v \in AnyVersion :
                  signature' = signature \cup {<<v, u>>}
  BY DEF AgreementOutside, SignElsewhere, handlerVars

\* The rows of versions.
Existing == {v \in VersionId : Exists(v)}

\* The numbers of an agreement are the first ones, every version has one of its own, and an
\* insert in flight skips none.
Numbering ==
    /\ IsFiniteSet(Existing)
    /\ \A a \in Agreement : \E n \in Nat : Numbers(a) = 1 .. n
    /\ \A v, w \in Existing : version[v] = version[w] => v = w
    /\ \A r \in Request, a \in Agreement :
           At(r, "insertVersion") /\ call[r].of = a =>
               \A m \in 1 .. (call[r].number - 1) : m \in Numbers(a)

\* So the latest number is how many there are.
LEMMA LatestIsLast ==
    ASSUME NEW a, NEW n \in Nat, Numbers(a) = 1 .. n
    PROVE  Latest(a) = n
  <1>1. CASE n = 0
    <2>1. Numbers(a) = {}
      BY <1>1
    <2> QED
      BY <1>1, <2>1 DEF Latest
  <1>2. CASE n # 0
    <2>1. n \in Numbers(a) /\ \A m \in Numbers(a) : m <= n
      BY <1>2
    <2>2. \A k \in Numbers(a) : (\A m \in Numbers(a) : m <= k) => k = n
      BY <2>1
    <2>3. Latest(a) = CHOOSE k \in Numbers(a) : \A m \in Numbers(a) : m <= k
      BY <2>1 DEF Latest
    <2> QED
      BY <2>1, <2>2, <2>3
  <1> QED
    BY <1>1, <1>2

\* What a step of AgreementsService does to the versions.
LEMMA VersionEffects ==
    ASSUME SlotsOK, NEW r \in Request, AgreementArrive(r) \/ AgreementProceed(r)
    PROVE  \/ version' = version /\ call'[r].at # "insertVersion"
           \/ ReadLatest(r)
           \/ InsertVersion(r)
  <1> DEFINE Quiet == version' = version /\ call'[r].at # "insertVersion"
  <1>1. ASSUME NEW u, BeginAgreement(r, u)
        PROVE  Quiet
    BY <1>1, BeginMoves DEF BeginAgreement, agreementVars
  <1>2. ASSUME NEW u, NEW a, BeginVersion(r, u, a)
        PROVE  Quiet
    BY <1>2, BeginMoves DEF BeginVersion, agreementVars
  <1>3. ASSUME NEW u, NEW a, NEW v, BeginSign(r, u, a, v)
        PROVE  Quiet
    BY <1>3, BeginMoves DEF BeginSign, agreementVars
  <1>4. ASSUME NEW a, InsertAgreement(r, a)
        PROVE  Quiet
    BY <1>4, GoMoves DEF InsertAgreement, Record
  <1>5. CASE VersionTaken(r)
    BY <1>5, GoMoves DEF VersionTaken, Idle, agreementVars
  <1>6. CASE WritePending(r)
    BY <1>6, GoMoves DEF WritePending, Record
  <1>7. CASE UpsertSignature(r)
    BY <1>7, GoMoves, AtMoves DEF UpsertSignature
  <1>8. CASE CountParties(r)
    BY <1>8, GoMoves DEF CountParties, agreementVars
  <1>9. CASE CountSignatures(r)
    BY <1>9, GoMoves DEF CountSignatures, agreementVars
  <1>10. CASE WriteOutcome(r)
    BY <1>10, GoMoves DEF WriteOutcome, Record
  <1> QED
    BY <1>1, <1>2, <1>3, <1>4, <1>5, <1>6, <1>7, <1>8, <1>9, <1>10
       DEF AgreementArrive, AgreementProceed

\* Within the bound on versions there is an id left for another one.
LEMMA FreshVersion ==
    ASSUME RoomTypeOK, Numbering, RoomForVersion
    PROVE  \E v \in VersionId : ~ Exists(v)
  <1>1. SUFFICES ASSUME Existing = VersionId
                 PROVE  FALSE
    BY DEF Existing
  <1>2. /\ scenario.versions \in Nat /\ scenario.versions <= Cardinality(VersionId)
        /\ Cardinality(VersionId) \in Nat
    BY <1>1, VersionsAssumption, FS_CardinalityType DEF RoomTypeOK, Numbering
  <1>3. Cardinality(VersionId) < scenario.versions
    BY <1>1 DEF RoomForVersion, Existing
  <1> QED
    BY <1>2, <1>3

\* An insert takes the next number.
LEMMA InsertKeepsNumbering ==
    ASSUME RoomTypeOK, Numbering, NEW r \in Request, InsertVersion(r)
    PROVE  Numbering'
  <1> DEFINE h   == call[r]
             row == [of |-> h.of, number |-> h.number]
  <1>1. /\ h \in [at : {"insertVersion", "writePending"}, user : User, of : Agreement,
                  number : Nat \ {0}]
        /\ At(r, "insertVersion")
        /\ h.number \notin Numbers(h.of)
        /\ version \in [VersionId -> Version \cup {NoVersion}]
        /\ SlotsOK
    BY PaperHandlerFields, HandlersFillSlots
       DEF InsertVersion, At, RoomTypeOK, AgreementRowsOK
  <1>2. PICK v \in VersionId : ~ Exists(v) /\ version' = [version EXCEPT ![v] = row]
    BY FreshVersion DEF InsertVersion, Insert
  <1>3. row # NoVersion /\ row.of = h.of /\ row.number = h.number
    BY <1>1 DEF NoVersion
  <1>4. /\ version'[v] = row
        /\ \A w \in VersionId : w # v => version'[w] = version[w]
    BY <1>1, <1>2
  <1> HIDE DEF row
  <1>5. Existing' = Existing \cup {v} /\ v \notin Existing
    BY <1>2, <1>3, <1>4 DEF Existing, Exists
  <1>6. \A a : /\ a # h.of => VersionsOf(a)' = VersionsOf(a)
               /\ a = h.of => VersionsOf(a)' = VersionsOf(a) \cup {v}
               /\ v \notin VersionsOf(a)
    BY <1>2, <1>3, <1>4 DEF VersionsOf, Exists
  <1>7. \A a : /\ a # h.of => Numbers(a)' = Numbers(a)
               /\ a = h.of => Numbers(a)' = Numbers(a) \cup {h.number}
    <2>1. \A a : \A w \in VersionsOf(a) : version'[w].number = version[w].number
      BY <1>4, <1>6 DEF VersionsOf
    <2> QED
      BY <1>3, <1>4, <1>6, <2>1 DEF Numbers
  <1>8. IsFiniteSet(Existing')
    BY <1>5, FS_AddElement DEF Numbering
  <1>9. ASSUME NEW a \in Agreement
        PROVE  \E n \in Nat : Numbers(a)' = 1 .. n
    <2>1. PICK n \in Nat : Numbers(a) = 1 .. n
      BY DEF Numbering
    <2>2. CASE a # h.of
      BY <1>7, <2>1, <2>2
    <2>3. CASE a = h.of
      <3>1. h.number \in Nat \ {0} /\ h.number \notin 1 .. n
        BY <1>1, <2>1, <2>3
      <3>2. \A m \in 1 .. (h.number - 1) : m \in 1 .. n
        BY <1>1, <2>1, <2>3 DEF Numbering
      <3>3. h.number = n + 1
        <4>1. h.number > n
          BY <3>1
        <4>2. CASE h.number - 1 = 0
          BY <4>1, <4>2, <3>1
        <4>3. CASE h.number - 1 # 0
          <5>1. h.number - 1 \in 1 .. (h.number - 1)
            BY <3>1, <4>3
          <5>2. h.number - 1 \in 1 .. n
            BY <3>2, <5>1
          <5> QED
            BY <3>1, <4>1, <5>2
        <4> QED
          BY <4>2, <4>3
      <3>4. Numbers(a)' = 1 .. (n + 1)
        <4>1. (1 .. n) \cup {n + 1} = 1 .. (n + 1)
          OBVIOUS
        <4>2. Numbers(a)' = Numbers(a) \cup {h.number}
          BY <1>7, <2>3
        <4> QED
          BY <2>1, <3>3, <4>1, <4>2
      <3> QED
        BY <3>4
    <2> QED
      BY <2>2, <2>3
  <1>10. ASSUME NEW w \in Existing', NEW x \in Existing', version'[w] = version'[x]
         PROVE  w = x
    <2>1. \A y \in Existing : version[y] # row
      <3>1. SUFFICES ASSUME NEW y \in Existing, version[y] = row
                     PROVE  FALSE
        OBVIOUS
      <3>2. y \in VersionsOf(h.of) /\ version[y].number = h.number
        BY <1>3, <3>1 DEF Existing, VersionsOf
      <3> QED
        BY <1>1, <3>2 DEF Numbers
    <2>2. \A y \in Existing : y # v /\ version'[y] = version[y]
      BY <1>4, <1>5 DEF Existing
    <2> QED
      BY <1>4, <1>5, <1>10, <2>1, <2>2 DEF Numbering
  <1>11. /\ \A q \in Request : q # r => call'[q] = call[q]
         /\ call'[r].at = "writePending"
    BY <1>1, GoMoves, AtMoves DEF InsertVersion
  <1>12. ASSUME NEW q \in Request, NEW a \in Agreement, At(q, "insertVersion")', call'[q].of = a
         PROVE  \A m \in 1 .. (call'[q].number - 1) : m \in Numbers(a)'
    <2>1. q # r /\ call'[q] = call[q] /\ At(q, "insertVersion")
      BY <1>11, <1>12 DEF At
    <2>2. Numbers(a) \subseteq Numbers(a)'
      BY <1>7
    <2> QED
      BY <1>12, <2>1, <2>2 DEF Numbering
  <1> QED
    BY <1>8, <1>9, <1>10, <1>12 DEF Numbering

\* A read of the latest number skips none either.
LEMMA ReadKeepsNumbering ==
    ASSUME RoomTypeOK, Numbering, NEW r \in Request, ReadLatest(r)
    PROVE  Numbering'
  <1>1. /\ call[r] \in [at : {"readLatest"}, user : User, of : Agreement] /\ SlotsOK
        /\ version' = version
    BY PaperHandlerFields, HandlersFillSlots DEF ReadLatest, At, RoomTypeOK, agreementVars
  <1>2. PICK n \in Nat : Numbers(call[r].of) = 1 .. n
    BY <1>1 DEF Numbering
  <1>3. Latest(call[r].of) = n
    BY <1>2, LatestIsLast
  <1>4. /\ call'[r].at = "insertVersion" /\ call'[r].of = call[r].of /\ call'[r].number = n + 1
        /\ \A q \in Request : q # r => call'[q] = call[q]
    BY <1>1, <1>3, GoMoves DEF ReadLatest
  <1>5. ASSUME NEW q \in Request, NEW a \in Agreement, At(q, "insertVersion")', call'[q].of = a
        PROVE  \A m \in 1 .. (call'[q].number - 1) : m \in Numbers(a)
    <2>1. CASE q = r
      BY <1>2, <1>4, <1>5, <2>1
    <2>2. CASE q # r
      BY <1>4, <1>5, <2>2 DEF At, Numbering
    <2> QED
      BY <2>1, <2>2
  <1> QED
    BY <1>1, <1>5 DEF Numbering, Existing, Numbers, VersionsOf, Exists

\* The versions stay numbered, whatever happens in the room.
LEMMA NumberingNext ==
    ASSUME RoomTypeOK, Numbering, [RoomNext]_roomStateVars
    PROVE  Numbering'
  <1>1. SlotsOK
    BY HandlersFillSlots DEF RoomTypeOK
  <1>2. ASSUME version' = version,
               \A q \in Request : call'[q] = call[q] \/ call'[q].at # "insertVersion"
        PROVE  Numbering'
    BY <1>2 DEF Numbering, Existing, Numbers, VersionsOf, Exists, At
  <1>3. CASE UNCHANGED agreementVars /\ Apart(AgreementSteps)
    BY <1>2, <1>3 DEF agreementVars, Apart, Untouched, AgreementSteps
  <1>4. ASSUME NEW r \in Request, AgreementArrive(r) \/ AgreementProceed(r)
        PROVE  Numbering'
    <2>1. \A q \in Request : q # r => call'[q] = call[q]
      BY <1>1, <1>4, AgreementMoves DEF Moves
    <2> QED
      BY <1>1, <1>2, <1>4, <2>1, VersionEffects, ReadKeepsNumbering, InsertKeepsNumbering
  <1>5. CASE AgreementOutside
    BY <1>2, <1>5, SignedElsewhere
  <1> QED
    BY <1>1, <1>3, <1>4, <1>5, AgreementCases

\* Everything in the room has its type, the people in it can be counted, and the versions are
\* numbered.
RoomRows ==
    /\ RoomTypeOK
    /\ IsFiniteSet(Participants)
    /\ Numbering

\* A new room has two people and nothing else.
LEMMA RoomRowsInit == ASSUME RoomInit PROVE RoomRows
  <1>1. scenario \in Scenario /\ call \in [Request -> Handler]
    BY HandlerParts DEF RoomInit, HandlerInit
  <1>2. DealRowsOK /\ timeline \subseteq RoomEvent /\ notices \subseteq (User \X RoomEvent)
    <2>1. timeline \subseteq RoomEvent
      BY EventTypes DEF RoomInit, DealInit
    <2> QED
      BY <2>1, MachineFacts DEF RoomInit, DealInit, DealRowsOK, Role, MANAGE_ROLES
  <1>3. DiligenceRowsOK
    BY DEF RoomInit, DiligenceInit, DiligenceRowsOK
  <1>4. AgreementRowsOK
    BY DEF RoomInit, AgreementInit, AgreementRowsOK, AgreementStatus
  <1>5. PaymentRowsOK
    <2>1. Len(Says) \in Nat
      BY SaysAssumption
    <2> QED
      BY <2>1 DEF RoomInit, PaymentInit, PaymentRowsOK, NoPayment, PaymentStatus
  <1>6. DocumentRowsOK
    <2>1. NoGrant \in [expiry : {"absent", "never", "later", "passed"}, revoked : BOOLEAN]
      BY DEF NoGrant
    <2> QED
      BY <2>1 DEF RoomInit, DocumentInit, DocumentRowsOK
  <1>7. IsFiniteSet(Participants)
    <2>1. Participants \subseteq {Buyer} \cup {Seller}
      BY DEF RoomInit, DealInit, Participants, Participant
    <2> QED
      BY <2>1, FS_EmptySet, FS_AddElement, FS_Subset, FS_Singleton
  <1>8. Existing = {} /\ \A a : Numbers(a) = {}
    BY DEF RoomInit, AgreementInit, Existing, Exists, Numbers, VersionsOf
  <1>9. Numbering
    <2>1. 1 .. 0 = {}
      OBVIOUS
    <2>2. \A r \in Request : ~ At(r, "insertVersion")
      BY DEF RoomInit, HandlerInit, Idle, At
    <2> QED
      BY <1>8, <2>1, <2>2, FS_EmptySet DEF Numbering
  <1> QED
    BY <1>1, <1>2, <1>3, <1>4, <1>5, <1>6, <1>7, <1>9 DEF RoomRows, RoomTypeOK

\* And it stays so, as far as the payments do.
LEMMA RoomRowsNext ==
    ASSUME RoomRows, PaymentInv, [RoomNext]_roomStateVars
    PROVE  RoomRows'
  <1> USE DEF RoomRows
  <1>1. \A a \in Agreement : Latest(a) \in Nat
    BY LatestIsLast DEF Numbering
  <1>2. \A r \in Request : At(r, "apply") => Routed(call[r].event)
    BY DEF PaymentInv, LogInv
  <1>3. /\ scenario \in Scenario /\ DealRowsOK /\ DiligenceRowsOK /\ AgreementRowsOK
        /\ PaymentRowsOK /\ DocumentRowsOK /\ timeline \subseteq RoomEvent
        /\ notices \subseteq (User \X RoomEvent) /\ call \in [Request -> Handler]
    BY DEF RoomTypeOK
  <1>4. UNCHANGED dealVars =>
            DealRowsOK' /\ timeline' \subseteq RoomEvent /\ notices' \subseteq (User \X RoomEvent)
    BY <1>3 DEF dealVars, DealRowsOK
  <1>5. /\ UNCHANGED diligenceVars => DiligenceRowsOK'
        /\ UNCHANGED agreementVars => AgreementRowsOK'
        /\ UNCHANGED paymentVars => PaymentRowsOK'
        /\ UNCHANGED documentVars => DocumentRowsOK'
    BY <1>3 DEF diligenceVars, DiligenceRowsOK, agreementVars, AgreementRowsOK, paymentVars,
                PaymentRowsOK, documentVars, DocumentRowsOK
  <1>6. UNCHANGED roomVars =>
            /\ DealRowsOK' /\ timeline' \subseteq RoomEvent /\ notices' \subseteq (User \X RoomEvent)
            /\ scenario' = scenario /\ call' \in [Request -> Handler]
    BY <1>3, <1>4 DEF roomVars, handlerVars
  <1>7. RoomTypeOK'
    <2>1. ASSUME NEW r \in Request, DealArrive(r) \/ DealProceed(r),
                 UNCHANGED <<diligenceVars, agreementVars, paymentVars, documentVars>>
          PROVE  RoomTypeOK'
      BY <1>3, <1>5, <2>1, DealKeepsTypes DEF RoomTypeOK, SharedTypes
    <2>2. ASSUME NEW r \in Request, DiligenceArrive(r) \/ DiligenceProceed(r),
                 UNCHANGED <<agreementVars, paymentVars, documentVars>>
          PROVE  RoomTypeOK'
      BY <1>3, <1>4, <1>5, <2>2, DiligenceKeepsTypes DEF RoomTypeOK
    <2>3. ASSUME NEW r \in Request, AgreementArrive(r) \/ AgreementProceed(r),
                 UNCHANGED <<diligenceVars, paymentVars, documentVars>>
          PROVE  RoomTypeOK'
      BY <1>1, <1>3, <1>4, <1>5, <2>3, AgreementKeepsTypes DEF RoomTypeOK
    <2>4. ASSUME NEW r \in Request,
                 PaymentArrive(r) \/ PaymentProceed(r) \/ DismissOnError(r),
                 UNCHANGED <<diligenceVars, agreementVars, documentVars>>
          PROVE  RoomTypeOK'
      <3>1. DealRowsOK'
        BY <1>2, <1>3, <2>4, PaymentKeepsTypes DEF DealRowsOK
      <3> QED
        BY <1>2, <1>3, <1>5, <2>4, <3>1, PaymentKeepsTypes DEF RoomTypeOK
    <2>5. ASSUME NEW r \in Request, DocumentArrive(r) \/ DocumentProceed(r),
                 UNCHANGED <<diligenceVars, agreementVars, paymentVars>>
          PROVE  RoomTypeOK'
      BY <1>3, <1>4, <1>5, <2>5, DocumentKeepsTypes DEF RoomTypeOK
    <2>6. ASSUME NEW r \in Request, Fail(r),
                 UNCHANGED <<dealVars, diligenceVars, agreementVars, paymentVars, documentVars>>
          PROVE  RoomTypeOK'
      <3>1. call' \in [Request -> Handler] /\ scenario' = scenario
        BY <1>3, <2>6, GoTypes, HandlerParts DEF Fail, Go
      <3> QED
        BY <1>3, <1>4, <1>5, <2>6, <3>1 DEF RoomTypeOK
    <2>7. CASE RoomOutside
      <3>1. CASE AgreementOutside /\ UNCHANGED <<diligenceVars, paymentVars, documentVars>>
        <4>1. scenario.elsewhere \subseteq User
          BY <1>3, CallAssumption
        <4>2. AgreementRowsOK'
          BY <1>3, <3>1, <4>1, SignedElsewhere DEF AgreementRowsOK
        <4> QED
          BY <1>3, <1>4, <1>5, <3>1, <4>2, SignedElsewhere DEF RoomTypeOK
      <3> QED
        BY <1>3, <1>5, <1>6, <2>7, <3>1, ProviderKeepsTypes, TimeKeepsTypes
           DEF RoomOutside, RoomTypeOK
    <2>8. CASE UNCHANGED roomStateVars
      BY <1>3, <1>5, <1>6, <2>8 DEF roomStateVars, RoomTypeOK
    <2> QED
      BY <2>1, <2>2, <2>3, <2>4, <2>5, <2>6, <2>7, <2>8
         DEF RoomNext, RoomArrive, RoomProceed, RoomFail
  <1> QED
    BY <1>7, ParticipantsStay, NumberingNext

\* Whatever overlaps in the room.
THEOREM RoomRowsHold == RoomSpec => []RoomRows
  BY RoomRowsInit, RoomRowsNext, PaymentInvHolds, PTL DEF RoomSpec

\* Every row of the room has its type, and every handler remembers what its next step needs:
\* no status, role or count that a call passes on is ever outside of what the schema declares.
THEOREM RoomTypesHold == RoomSpec => []RoomTypeOK
  <1>1. RoomRows => RoomTypeOK
    BY DEF RoomRows
  <1> QED
    BY <1>1, RoomRowsHold, PTL

\* The versions of an agreement are numbered 1, 2, 3 ... without a gap or a duplicate, however
\* many calls compute the same next number and wherever they die.
THEOREM VersionsAreNumbered == RoomSpec => []VersionsNumbered
  <1>1. ASSUME RoomRows
        PROVE  VersionsNumbered
    <2>1. ASSUME NEW a \in Agreement, NEW v \in VersionsOf(a), NEW w \in VersionsOf(a),
                 version[v].number = version[w].number
          PROVE  v = w
      <3>1. version[v] \in Version /\ version[w] \in Version
        BY <1>1 DEF RoomRows, RoomTypeOK, AgreementRowsOK, VersionsOf, Exists
      <3>2. version[v] = version[w]
        BY <2>1, <3>1 DEF VersionsOf, Version
      <3> QED
        BY <1>1, <3>2 DEF RoomRows, Numbering, VersionsOf, Existing
    <2>2. ASSUME NEW a \in Agreement, NEW v \in VersionsOf(a)
          PROVE  \A m \in 1 .. version[v].number : m \in Numbers(a)
      <3>1. PICK n \in Nat : Numbers(a) = 1 .. n
        BY <1>1 DEF RoomRows, Numbering
      <3>2. version[v].number \in 1 .. n
        BY <3>1 DEF Numbers
      <3> QED
        BY <3>1, <3>2
    <2> QED
      BY <2>1, <2>2 DEF VersionsNumbered
  <1> QED
    BY <1>1, RoomRowsHold, PTL

-----------------------------------------------------------------------------
(* Signatures, in a room of just the buyer and the seller. *)

TheTwo == {Buyer, Seller}

\* Past the upsert.
HasSigned(r) == call[r].at \in {"countParties", "countSignatures"}

\* Nobody else is or gets into the room, both are counted on, only they and people of other
\* deals have signed, and a call that counts is one of theirs and has signed: whoever is about
\* to write SIGNED has seen one of them and somebody else.
SigningInv ==
    JustTheTwo =>
        /\ \A r \in Request : ~ At(r, "upsert")
        /\ \A u \in User : Participant(u) <=> u \in TheTwo
        /\ Parties = TheTwo
        /\ \A v \in AnyVersion : Signers(v) \subseteq TheTwo \cup scenario.elsewhere
        /\ \A r \in Request :
               /\ At(r, "upsertSignature") \/ HasSigned(r) => call[r].user \in TheTwo
               /\ HasSigned(r) => <<call[r].version, call[r].user>> \in signature
               /\ At(r, "countSignatures") => call[r].parties = 2
               /\ At(r, "writeOutcome") /\ call[r].outcome = "SIGNED" =>
                      \A v \in AnyVersion : call[r].version = v => SignedByTwo(v)
        /\ \A a \in Agreement : agreement[a] = "SIGNED" => \E v \in AnyVersion : SignedByTwo(v)

\* The buyer and the seller are two.
LEMMA TwoInTheRoom == Cardinality(TheTwo) = 2
  <1>1. IsFiniteSet({Buyer}) /\ Cardinality({Buyer}) = 1
    BY FS_Singleton
  <1>2. TheTwo = {Buyer} \cup {Seller} /\ Seller \notin {Buyer}
    BY UserAssumption DEF TheTwo
  <1> QED
    BY <1>1, <1>2, FS_AddElement

\* Where two have signed, somebody has whom the first does not know of.
LEMMA AnotherOne ==
    ASSUME NEW S, NEW u \in S, Cardinality(S) >= 2
    PROVE  \E w \in S : w # u
  <1>1. SUFFICES ASSUME S \subseteq {u} PROVE FALSE
    OBVIOUS
  <1>2. IsFiniteSet({u}) /\ Cardinality({u}) = 1
    BY FS_Singleton
  <1>3. Cardinality(S) <= 1 /\ Cardinality(S) \in Nat
    BY <1>1, <1>2, FS_Subset, FS_CardinalityType
  <1> QED
    BY <1>3

\* The calls of sign.
SignSteps == {"upsertSignature", "countParties", "countSignatures", "writeOutcome"}

\* The handler goes on about the same version for the same user.
SameSigner(r) == call'[r].version = call[r].version /\ call'[r].user = call[r].user

\* What a step of AgreementsService does to the signatures and to the calls that sign.
SignEffect(r) ==
    \/ /\ UNCHANGED signature
       /\ \A a \in Agreement : agreement'[a] = "SIGNED" => agreement[a] = "SIGNED"
       /\ call'[r].at \notin SignSteps
    \/ /\ UNCHANGED <<signature, agreement>>
       /\ call'[r].at = "upsertSignature" /\ call'[r].user \in User /\ Participant(call'[r].user)
    \/ /\ At(r, "upsertSignature") /\ call[r].user \in User
       /\ signature' = signature \cup {<<call[r].version, call[r].user>>}
       /\ UNCHANGED agreement
       /\ call'[r].at = "countParties" /\ SameSigner(r)
    \/ /\ At(r, "countParties")
       /\ UNCHANGED <<signature, agreement>>
       /\ call'[r].at = "countSignatures" /\ SameSigner(r)
       /\ call'[r].parties = Cardinality(Parties)
    \/ /\ At(r, "countSignatures")
       /\ UNCHANGED <<signature, agreement>>
       /\ call'[r].at = "writeOutcome" /\ SameSigner(r) /\ call[r].version \in AnyVersion
       /\ call'[r].outcome = "SIGNED" => Cardinality(Signers(call[r].version)) >= call[r].parties
    \/ /\ At(r, "writeOutcome") /\ call[r].version \in AnyVersion
       /\ UNCHANGED signature
       /\ \A a \in Agreement :
              agreement'[a] = "SIGNED" => agreement[a] = "SIGNED" \/ call[r].outcome = "SIGNED"
       /\ call'[r].at = "event"

\* And that is all it does.
LEMMA SignEffects ==
    ASSUME RoomTypeOK, NEW r \in Request, AgreementArrive(r) \/ AgreementProceed(r)
    PROVE  SignEffect(r)
  <1>1. /\ SlotsOK /\ call[r] \in Handler /\ scenario.people \subseteq User
        /\ agreement \in [Agreement -> AgreementStatus]
    BY HandlersFillSlots, CallAssumption DEF RoomTypeOK, AgreementRowsOK
  <1> USE <1>1
  <1>2. ASSUME NEW u, BeginAgreement(r, u)
        PROVE  SignEffect(r)
    BY <1>2, BeginMoves DEF BeginAgreement, SignEffect, SignSteps, agreementVars
  <1>3. ASSUME NEW u, NEW a, BeginVersion(r, u, a)
        PROVE  SignEffect(r)
    BY <1>3, BeginMoves DEF BeginVersion, SignEffect, SignSteps, agreementVars
  <1>4. ASSUME NEW u \in scenario.people, NEW a, NEW v, BeginSign(r, u, a, v)
        PROVE  SignEffect(r)
    <2>1. call'[r] = [at |-> "upsertSignature", user |-> u, of |-> a, version |-> v]
      BY <1>4, BeginMoves DEF BeginSign
    <2>2. call'[r].at = "upsertSignature" /\ call'[r].user = u /\ u \in User /\ Participant(u)
      BY <1>4, <2>1 DEF BeginSign
    <2>3. UNCHANGED <<signature, agreement>>
      BY <1>4 DEF BeginSign, agreementVars
    <2> QED
      BY <2>2, <2>3 DEF SignEffect
  <1>5. ASSUME NEW a \in Agreement, InsertAgreement(r, a)
        PROVE  SignEffect(r)
    BY <1>5, GoMoves DEF InsertAgreement, Record, SignEffect, SignSteps
  <1>6. CASE ReadLatest(r)
    BY <1>6, GoMoves DEF ReadLatest, SignEffect, SignSteps, agreementVars
  <1>7. CASE InsertVersion(r)
    BY <1>7, GoMoves, AtMoves DEF InsertVersion, SignEffect, SignSteps
  <1>8. CASE VersionTaken(r)
    BY <1>8, GoMoves DEF VersionTaken, Idle, SignEffect, SignSteps, agreementVars
  <1>9. CASE WritePending(r)
    BY <1>9, GoMoves DEF WritePending, Record, SignEffect, SignSteps
  <1>10. CASE UpsertSignature(r)
    <2>1. call[r] \in [at : {"upsertSignature", "countParties"}, user : User, of : Agreement,
                       version : AnyVersion]
      BY <1>10, PaperHandlerFields DEF UpsertSignature, At
    <2>2. call'[r] = [call[r] EXCEPT !.at = "countParties"]
      BY <1>10, GoMoves, AtMoves DEF UpsertSignature
    <2>3. call'[r].at = "countParties" /\ SameSigner(r) /\ call[r].user \in User
      BY <2>1, <2>2 DEF SameSigner
    <2> QED
      BY <1>10, <2>3 DEF UpsertSignature, SignEffect
  <1>11. CASE CountParties(r)
    BY <1>11, GoMoves DEF CountParties, SignEffect, SameSigner, agreementVars
  <1>12. CASE CountSignatures(r)
    <2> DEFINE c == Cardinality(Signers(call[r].version))
               o == IF c >= call[r].parties THEN "SIGNED" ELSE "PARTIALLY_SIGNED"
               g == [at |-> "writeOutcome", user |-> call[r].user, of |-> call[r].of,
                     version |-> call[r].version, outcome |-> o]
    <2>1. At(r, "countSignatures") /\ call'[r] = g /\ UNCHANGED <<signature, agreement>>
      BY <1>12, GoMoves DEF CountSignatures, agreementVars
    <2>2. call[r].version \in AnyVersion
      BY <2>1, PaperHandlerFields DEF At
    <2>3. o = "SIGNED" => c >= call[r].parties
      OBVIOUS
    <2>4. /\ g.at = "writeOutcome" /\ g.version = call[r].version /\ g.user = call[r].user
          /\ g.outcome = o
      OBVIOUS
    <2> HIDE DEF o, g
    <2> QED
      BY <2>1, <2>2, <2>3, <2>4 DEF SignEffect, SameSigner
  <1>13. CASE WriteOutcome(r)
    <2>1. call[r].version \in AnyVersion
      BY <1>13, PaperHandlerFields DEF WriteOutcome, At
    <2>2. \A a \in Agreement :
              agreement'[a] = "SIGNED" => agreement[a] = "SIGNED" \/ call[r].outcome = "SIGNED"
      BY <1>13 DEF WriteOutcome
    <2>3. call'[r].at = "event"
      BY <1>13, GoMoves DEF WriteOutcome, Record
    <2> QED
      BY <1>13, <2>1, <2>2, <2>3 DEF WriteOutcome, SignEffect
  <1> QED
    BY <1>2, <1>3, <1>4, <1>5, <1>6, <1>7, <1>8, <1>9, <1>10, <1>11, <1>12, <1>13
       DEF AgreementArrive, AgreementProceed

\* A new room has the two in it and no signature.
LEMMA SigningInvInit == ASSUME RoomInit PROVE SigningInv
  BY UserAssumption
     DEF RoomInit, HandlerInit, DealInit, AgreementInit, SigningInv, Idle, At, HasSigned,
         Participant, Parties, TheTwo, Signers

\* What two have signed stays signed.
LEMMA SignaturesStay ==
    ASSUME signature \subseteq signature', scenario' = scenario, NEW v, SignedByTwo(v)
    PROVE  SignedByTwo(v)'
  BY DEF SignedByTwo, Signers

\* The invariant of the signatures is inductive.
LEMMA SigningInvNext ==
    ASSUME RoomTypeOK, DealInv, SigningInv, [RoomNext]_roomStateVars
    PROVE  SigningInv'
  <1>1. SlotsOK /\ scenario' = scenario
    <2>1. SlotsOK
      BY DEF DealInv
    <2> QED
      BY <2>1, AgreementCases, AgreementMoves, SignedElsewhere DEF Moves, Apart, Untouched
  <1>2. SUFFICES ASSUME JustTheTwo PROVE SigningInv'
    BY <1>1 DEF SigningInv, JustTheTwo
  <1>3. /\ \A r \in Request : ~ At(r, "upsert")
        /\ \A u \in User : Participant(u) <=> u \in TheTwo
        /\ Parties = TheTwo
        /\ \A v \in AnyVersion : Signers(v) \subseteq TheTwo \cup scenario.elsewhere
        /\ \A r \in Request : At(r, "upsertSignature") \/ HasSigned(r) => call[r].user \in TheTwo
        /\ \A r \in Request : HasSigned(r) => <<call[r].version, call[r].user>> \in signature
        /\ \A r \in Request : At(r, "countSignatures") => call[r].parties = 2
        /\ \A r \in Request :
               At(r, "writeOutcome") /\ call[r].outcome = "SIGNED" =>
                   \A v \in AnyVersion : call[r].version = v => SignedByTwo(v)
        /\ \A a \in Agreement : agreement[a] = "SIGNED" => \E v \in AnyVersion : SignedByTwo(v)
    BY <1>2 DEF SigningInv
  <1>4. role' = role /\ \A r \in Request : ~ At(r, "upsert")'
    <2>1. CASE UNCHANGED <<status, role, task, visited>> /\ Untouched(DealSteps)
      BY <1>3, <2>1 DEF Untouched, DealSteps, At
    <2>2. ASSUME NEW r \in Request, DealArrive(r) \/ DealProceed(r)
          PROVE  role' = role /\ \A q \in Request : ~ At(q, "upsert")'
      BY <1>1, <1>2, <1>3, <2>2, RoleEffects, DealMoves DEF Moves, At, JustTheTwo
    <2> QED
      BY <1>1, <2>1, <2>2, DealCases
  <1>5. /\ \A u \in User : Participant(u)' <=> u \in TheTwo
        /\ Parties' = TheTwo
    BY <1>3, <1>4 DEF Participant, Parties
  <1>6. signature \subseteq signature' => \A v : SignedByTwo(v) => SignedByTwo(v)'
    BY <1>1, SignaturesStay
  <1>7. ASSUME UNCHANGED agreement, signature \subseteq signature',
               \A v \in AnyVersion : Signers(v)' \subseteq TheTwo \cup scenario.elsewhere,
               \A r \in Request : call'[r] = call[r] \/ call'[r].at \notin SignSteps
        PROVE  SigningInv'
    <2>1. ASSUME NEW r \in Request
          PROVE  /\ (At(r, "upsertSignature") \/ HasSigned(r))' => call'[r].user \in TheTwo
                 /\ HasSigned(r)' => <<call'[r].version, call'[r].user>> \in signature'
                 /\ At(r, "countSignatures")' => call'[r].parties = 2
                 /\ At(r, "writeOutcome")' /\ call'[r].outcome = "SIGNED" =>
                        \A v \in AnyVersion : call'[r].version = v => SignedByTwo(v)'
      BY <1>3, <1>6, <1>7 DEF HasSigned, At, SignSteps
    <2> QED
      BY <1>1, <1>3, <1>4, <1>5, <1>6, <1>7, <2>1 DEF SigningInv
  <1>8. CASE UNCHANGED agreementVars /\ Apart(AgreementSteps)
    <2>1. /\ UNCHANGED <<agreement, signature>>
          /\ \A r \in Request : call'[r] = call[r] \/ call'[r].at \notin SignSteps
      BY <1>8 DEF agreementVars, Apart, Untouched, AgreementSteps, SignSteps
    <2> QED
      BY <1>3, <1>7, <2>1 DEF Signers
  <1>9. CASE AgreementOutside
    BY <1>3, <1>7, <1>9, SignedElsewhere DEF Signers
  <1>10. ASSUME NEW r \in Request, AgreementArrive(r) \/ AgreementProceed(r)
         PROVE  SigningInv'
    <2>1. SignEffect(r) /\ \A q \in Request : q # r => call'[q] = call[q]
      BY <1>1, <1>10, SignEffects, AgreementMoves DEF Moves
    <2>2. signature \subseteq signature'
      BY <2>1 DEF SignEffect
    <2>3. ASSUME NEW v \in AnyVersion
          PROVE  Signers(v)' \subseteq TheTwo \cup scenario.elsewhere
      BY <1>3, <2>1 DEF SignEffect, Signers
    <2>4. ASSUME NEW q \in Request, q # r
          PROVE  /\ (At(q, "upsertSignature") \/ HasSigned(q))' => call'[q].user \in TheTwo
                 /\ HasSigned(q)' => <<call'[q].version, call'[q].user>> \in signature'
                 /\ At(q, "countSignatures")' => call'[q].parties = 2
                 /\ At(q, "writeOutcome")' /\ call'[q].outcome = "SIGNED" =>
                        \A v \in AnyVersion : call'[q].version = v => SignedByTwo(v)'
      BY <1>3, <1>6, <2>1, <2>2, <2>4 DEF HasSigned, At
    <2>5. /\ (At(r, "upsertSignature") \/ HasSigned(r))' => call'[r].user \in TheTwo
          /\ HasSigned(r)' => <<call'[r].version, call'[r].user>> \in signature'
          /\ At(r, "countSignatures")' => call'[r].parties = 2
      <3>1. CASE call'[r].at = "upsertSignature"
        BY <1>3, <2>1, <3>1 DEF SignEffect, SignSteps, HasSigned, At
      <3>2. CASE call'[r].at = "countParties"
        BY <1>3, <2>1, <3>2 DEF SignEffect, SignSteps, SameSigner, HasSigned, Signers, At
      <3>3. CASE call'[r].at = "countSignatures"
        BY <1>3, <2>1, <3>3, TwoInTheRoom
           DEF SignEffect, SignSteps, SameSigner, HasSigned, Signers, At
      <3> QED
        BY <3>1, <3>2, <3>3 DEF HasSigned, At
    <2>6. ASSUME NEW v \in AnyVersion, At(r, "writeOutcome")', call'[r].outcome = "SIGNED",
                 call'[r].version = v
          PROVE  SignedByTwo(v)'
      <3> DEFINE u == call[r].user
      <3>1. /\ At(r, "countSignatures") /\ call[r].version = v
            /\ Cardinality(Signers(v)) >= call[r].parties
        BY <2>1, <2>6 DEF SignEffect, SignSteps, SameSigner, At
      <3>2. u \in TheTwo /\ u \in Signers(v) /\ Cardinality(Signers(v)) >= 2
        <4>1. HasSigned(r) /\ call[r].parties = 2
          BY <1>3, <3>1 DEF HasSigned, At
        <4>2. TheTwo \subseteq User
          BY UserAssumption DEF TheTwo
        <4> QED
          BY <1>3, <3>1, <4>1, <4>2 DEF Signers
      <3>3. PICK w \in Signers(v) : w # u
        BY <3>2, AnotherOne
      <3>4. SignedByTwo(v)
        BY <1>3, <3>1, <3>2, <3>3 DEF SignedByTwo, TheTwo
      <3> QED
        BY <1>6, <2>2, <3>1, <3>4
    <2>7. ASSUME NEW a \in Agreement, agreement'[a] = "SIGNED"
          PROVE  \E v \in AnyVersion : SignedByTwo(v)'
      <3>1. \/ agreement[a] = "SIGNED"
            \/ At(r, "writeOutcome") /\ call[r].version \in AnyVersion /\ call[r].outcome = "SIGNED"
        BY <2>1, <2>7 DEF SignEffect
      <3>2. PICK v \in AnyVersion : SignedByTwo(v)
        BY <1>3, <3>1
      <3> QED
        BY <1>6, <2>2, <3>2
    <2> QED
      BY <1>1, <1>4, <1>5, <2>3, <2>4, <2>5, <2>6, <2>7 DEF SigningInv
  <1> QED
    BY <1>1, <1>8, <1>9, <1>10, AgreementCases

\* Whatever overlaps in the room.
THEOREM SigningInvHolds == RoomSpec => []SigningInv
  BY SigningInvInit, SigningInvNext, DealInvHolds, RoomTypesHold, PTL DEF RoomSpec

\* As long as only the buyer and the seller are in the room, an agreement reads SIGNED only if one
\* of them and somebody else, the other of them or somebody of another deal, have signed one and
\* the same version, however counts and writes of other calls overlap.
THEOREM SigningTakesTwo == RoomSpec => []SignedMeansTwo
  <1>1. SigningInv => SignedMeansTwo
    BY DEF SigningInv, SignedMeansTwo
  <1> QED
    BY <1>1, SigningInvHolds, PTL

-----------------------------------------------------------------------------
(* Documents. *)

\* A step of the room is one of DocumentsService, or a grant expires, or it leaves the documents
\* and the handlers of that service alone.
LEMMA DocumentCases ==
    ASSUME SlotsOK, [RoomNext]_roomStateVars
    PROVE  \/ \E r \in Request : DocumentArrive(r) \/ DocumentProceed(r)
           \/ DocumentTime /\ UNCHANGED roomVars
           \/ UNCHANGED documentVars /\ Apart(DocumentSteps)
  <1>1. ASSUME NEW r \in Request,
               \/ DealArrive(r) \/ DealProceed(r)
               \/ DiligenceArrive(r) \/ DiligenceProceed(r)
               \/ AgreementArrive(r) \/ AgreementProceed(r)
               \/ PaymentArrive(r) \/ PaymentProceed(r)
        PROVE  Apart(DocumentSteps)
    <2>1. \E steps : /\ call[r].at \in steps \cup CommonSteps
                     /\ Moves(r, steps \cup CommonSteps)
                     /\ (steps \cup CommonSteps) \cap DocumentSteps = {}
      <3>1. /\ (DiligenceSteps \cup CommonSteps) \cap DocumentSteps = {}
            /\ (PaymentSteps \cup CommonSteps) \cap DocumentSteps = {}
            /\ (DealSteps \cup CommonSteps) \cap DocumentSteps = {}
            /\ (AgreementSteps \cup CommonSteps) \cap DocumentSteps = {}
            /\ "idle" \in CommonSteps
        BY DEF DiligenceSteps, AgreementSteps, PaymentSteps, DocumentSteps, DealSteps, CommonSteps
      <3> QED
        BY <1>1, <3>1, OwnSteps, DealMoves, DiligenceMoves, AgreementMoves, PaymentMoves
    <2> QED
      BY <2>1, MovesApart
  <1>2. ASSUME NEW r \in Request, Fail(r) \/ DismissOnError(r)
        PROVE  Apart(DocumentSteps)
    <2>1. scenario.fails /\ Moves(r, {"idle"})
      BY <1>2, FailMoves DEF Fail, DismissOnError
    <2> QED
      BY <2>1 DEF Moves, Apart, Untouched, DocumentSteps
  <1>3. ASSUME Provider \/ AgreementOutside \/ UNCHANGED roomStateVars
        PROVE  Apart(DocumentSteps)
    <2>1. UNCHANGED <<call, scenario>>
      BY <1>3, SignedElsewhere DEF Provider, Wire, Send, roomStateVars, roomVars, handlerVars
    <2> QED
      BY <2>1 DEF SlotsOK, Apart, Untouched
  <1>4. DocumentTime => UNCHANGED roomVars
    BY DEF DocumentTime, ExpireGrant
  <1> QED
    BY <1>1, <1>2, <1>3, <1>4
       DEF RoomNext, RoomArrive, RoomProceed, RoomFail, RoomOutside, roomStateVars

\* A grant that was given is one.
GrantInv ==
    \A d \in Document, u \in User : grant[d][u].expiry = "absent" => grant[d][u] = NoGrant

\* A document row has its object; an upload about to insert the row has the object for itself.
StoreInv ==
    /\ \A d \in Document : DocumentExists(d) => d \in stored
    /\ \A r \in Request, d \in Document :
           At(r, "insertDocument") /\ call[r].document = d => d \in stored /\ ~ DocumentExists(d)
    /\ \A q, r \in Request :
           /\ At(q, "insertDocument") /\ At(r, "insertDocument")
           /\ call[q].document = call[r].document
           => q = r
    /\ ~ scenario.fails =>
           \A d \in stored : \/ DocumentExists(d)
                             \/ \E r \in Request : At(r, "insertDocument") /\ call[r].document = d

\* Why somebody may download a document.
Reason(d, u) ==
    \/ OwnsDocuments(u)
    \/ DocumentExists(d) /\ document[d].by = u
    \/ DocumentExists(d) /\ InRoom(document[d].place, u)
    \/ grant[d][u] # NoGrant

\* A handler is about to log this entry.
Logs(r, entry) == At(r, "log") /\ \E i \in DOMAIN call[r].entries : call[r].entries[i] = entry

\* Every download that is logged, or about to be, has a reason.
ReasonInv ==
    \A d \in Document, u \in User :
        \/ <<"DOWNLOADED", d, u>> \in accessLog
        \/ \E r \in Request : Logs(r, <<"DOWNLOADED", d, u>>)
        => Reason(d, u)

DocumentInv == GrantInv /\ StoreInv /\ ReasonInv

\* No document, nothing in storage, no grant.
LEMMA DocumentInvInit == ASSUME RoomInit PROVE DocumentInv
  BY DEF RoomInit, HandlerInit, DocumentInit, DocumentInv, GrantInv, StoreInv, ReasonInv, Logs,
         DocumentExists, Idle, At

\* A row of a document is not the absence of one.
LEMMA RowsAreDocuments ==
    \A row \in [by : User, place : Place, deleted : BOOLEAN] : row # NoDocument
  <1>1. ASSUME NEW row \in [by : User, place : Place, deleted : BOOLEAN], row = NoDocument
        PROVE  FALSE
    <2>1. "deleted" \in DOMAIN row
      BY <1>1
    <2>2. "deleted" \notin DOMAIN NoDocument
      BY DEF NoDocument
    <2> QED
      BY <1>1, <2>1, <2>2
  <1> QED
    BY <1>1

\* The rows keep who uploaded them and where.
SameRows ==
    \A d \in Document : /\ DocumentExists(d)' <=> DocumentExists(d)
                        /\ DocumentExists(d) => /\ document'[d].by = document[d].by
                                                /\ document'[d].place = document[d].place

\* What a step of DocumentsService does to the rows and the storage.
StoreEffect(r) ==
    \/ /\ SameRows /\ UNCHANGED stored
       /\ ~ At(r, "insertDocument") /\ ~ At(r, "insertDocument")'
    \/ \E d \in Document \ stored :
           /\ SameRows /\ stored' = stored \cup {d}
           /\ ~ At(r, "insertDocument") /\ At(r, "insertDocument")' /\ call'[r].document = d
    \/ \E d \in Document, row \in [by : User, place : Place, deleted : BOOLEAN] :
           /\ At(r, "insertDocument") /\ ~ At(r, "insertDocument")' /\ call[r].document = d
           /\ document' = [document EXCEPT ![d] = row] /\ UNCHANGED stored

\* And that is all it does.
LEMMA StoreEffects ==
    ASSUME RoomTypeOK, NEW r \in Request, DocumentArrive(r) \/ DocumentProceed(r)
    PROVE  StoreEffect(r)
  <1>1. /\ SlotsOK /\ call[r] \in Handler
        /\ document \in [Document -> {NoDocument} \cup [by : User, place : Place, deleted : BOOLEAN]]
    BY HandlersFillSlots DEF RoomTypeOK, DocumentRowsOK
  <1> USE <1>1
  <1>2. ASSUME UNCHANGED <<document, stored>>, call[r].at # "insertDocument",
               call'[r].at # "insertDocument"
        PROVE  StoreEffect(r)
    BY <1>2 DEF StoreEffect, SameRows, DocumentExists, At
  <1>3. \A endpoint, h : Begin(r, endpoint, h) => call[r].at = "idle"
    BY DEF Begin, Idle
  <1>4. ASSUME NEW u, NEW place, BeginUpload(r, u, place)
        PROVE  StoreEffect(r)
    BY <1>2, <1>3, <1>4, BeginMoves DEF BeginUpload, documentVars
  <1>5. ASSUME NEW u, NEW d, BeginDownload(r, u, d)
        PROVE  StoreEffect(r)
    BY <1>2, <1>3, <1>5, BeginMoves DEF BeginDownload, Logging, documentVars
  <1>6. ASSUME NEW u, NEW d, BeginRemove(r, u, d)
        PROVE  StoreEffect(r)
    BY <1>2, <1>3, <1>6, BeginMoves DEF BeginRemove, documentVars
  <1>7. ASSUME NEW u, NEW d, NEW v, BeginRevoke(r, u, d, v)
        PROVE  StoreEffect(r)
    BY <1>2, <1>3, <1>7, BeginMoves DEF BeginRevoke, documentVars
  <1>8. ASSUME NEW u, NEW d, NEW v, NEW expiry, BeginGrant(r, u, d, v, expiry)
        PROVE  StoreEffect(r)
    BY <1>2, <1>3, <1>8, BeginMoves DEF BeginGrant, documentVars
  <1>9. ASSUME NEW d \in Document, PutObject(r, d)
        PROVE  StoreEffect(r)
    <2>1. /\ d \notin stored /\ stored' = stored \cup {d} /\ document' = document
          /\ call[r].at = "putObject"
          /\ call'[r].at = "insertDocument" /\ call'[r].document = d
      BY <1>9, GoMoves DEF PutObject, At
    <2> QED
      BY <2>1 DEF StoreEffect, SameRows, DocumentExists, At
  <1>10. CASE InsertDocument(r)
    <2>1. call[r] \in [at : {"insertDocument"}, user : User, place : Place, document : Document]
      BY <1>10, FileHandlerFields DEF InsertDocument, At
    <2> DEFINE d   == call[r].document
               row == [by |-> call[r].user, place |-> call[r].place, deleted |-> FALSE]
    <2>2. d \in Document /\ row \in [by : User, place : Place, deleted : BOOLEAN]
      BY <2>1
    <2>3. document' = [document EXCEPT ![d] = row] /\ UNCHANGED stored
      BY <1>10 DEF InsertDocument
    <2>4. call'[r].at = "log"
      BY <1>10, GoMoves DEF InsertDocument, Logging
    <2> QED
      BY <2>1, <2>2, <2>3, <2>4 DEF StoreEffect, At
  <1>11. CASE UpsertGrant(r)
    BY <1>2, <1>11, GoMoves DEF UpsertGrant, Logging, At
  <1>12. CASE WriteRevoked(r)
    BY <1>2, <1>12, GoMoves DEF WriteRevoked, Logging, At
  <1>13. CASE WriteDeleted(r)
    <2>1. call[r] \in [at : {"writeDeleted"}, user : User, document : Document]
      BY <1>13, FileHandlerFields DEF WriteDeleted, At
    <2>2. document' = [document EXCEPT ![call[r].document].deleted = TRUE] /\ UNCHANGED stored
      BY <1>13 DEF WriteDeleted
    <2>3. ASSUME NEW d \in Document
          PROVE  /\ DocumentExists(d)' <=> DocumentExists(d)
                 /\ DocumentExists(d) => /\ document'[d].by = document[d].by
                                         /\ document'[d].place = document[d].place
      <3>1. CASE d # call[r].document
        BY <2>2, <3>1 DEF DocumentExists
      <3>2. CASE d = call[r].document /\ document[d] = NoDocument
        BY <2>2, <3>2 DEF DocumentExists, NoDocument
      <3>3. CASE d = call[r].document /\ document[d] # NoDocument
        <4>1. document[d] \in [by : User, place : Place, deleted : BOOLEAN]
          BY <3>3
        <4>2. document'[d] = [document[d] EXCEPT !.deleted = TRUE]
          BY <2>2, <3>3
        <4>3. /\ document'[d] \in [by : User, place : Place, deleted : BOOLEAN]
              /\ document'[d].by = document[d].by /\ document'[d].place = document[d].place
          BY <4>1, <4>2
        <4> QED
          BY <3>3, <4>3, RowsAreDocuments DEF DocumentExists
      <3> QED
        BY <3>1, <3>2, <3>3
    <2>4. call'[r].at = "log"
      BY <1>13, GoMoves DEF WriteDeleted, Logging
    <2> QED
      BY <2>1, <2>2, <2>3, <2>4 DEF StoreEffect, SameRows, At
  <1>14. CASE LogAccess(r)
    BY <1>2, <1>14, GoMoves DEF LogAccess, Logging, Idle, At
  <1> QED
    BY <1>4, <1>5, <1>6, <1>7, <1>8, <1>9, <1>10, <1>11, <1>12, <1>13, <1>14
       DEF DocumentArrive, DocumentProceed

\* The storage and the rows stay in step.
LEMMA StoreInvNext ==
    ASSUME RoomTypeOK, StoreInv, [RoomNext]_roomStateVars
    PROVE  /\ StoreInv'
           /\ \A d \in Document :
                  DocumentExists(d) => /\ DocumentExists(d)'
                                       /\ document'[d].by = document[d].by
                                       /\ document'[d].place = document[d].place
  <1> DEFINE RowStays(d) == DocumentExists(d) => /\ DocumentExists(d)'
                                              /\ document'[d].by = document[d].by
                                              /\ document'[d].place = document[d].place
  <1>1. SlotsOK /\ document \in [Document -> {NoDocument} \cup [by : User, place : Place, deleted : BOOLEAN]]
    BY HandlersFillSlots DEF RoomTypeOK, DocumentRowsOK
  <1>2. CASE UNCHANGED <<document, stored>> /\ Apart(DocumentSteps)
    <2>1. /\ scenario' = scenario
          /\ \A q \in Request : At(q, "insertDocument")' => call'[q] = call[q]
          /\ scenario.fails \/ \A q \in Request : At(q, "insertDocument") => call'[q] = call[q]
      BY <1>2 DEF Apart, Untouched, DocumentSteps, At
    <2> QED
      BY <1>2, <2>1 DEF StoreInv, DocumentExists, At
  <1>3. CASE DocumentTime /\ UNCHANGED roomVars
    BY <1>3 DEF DocumentTime, ExpireGrant, roomVars, handlerVars, StoreInv, DocumentExists, At
  <1>4. ASSUME NEW r \in Request, DocumentArrive(r) \/ DocumentProceed(r)
        PROVE  StoreInv' /\ \A d \in Document : RowStays(d)
    <2>1. /\ StoreEffect(r) /\ scenario' = scenario
          /\ \A q \in Request : q # r => call'[q] = call[q]
      BY <1>1, <1>4, StoreEffects, DocumentMoves DEF Moves
    <2>2. CASE /\ SameRows /\ UNCHANGED stored
               /\ ~ At(r, "insertDocument") /\ ~ At(r, "insertDocument")'
      <3>1. \A q \in Request : /\ At(q, "insertDocument")' <=> At(q, "insertDocument")
                               /\ At(q, "insertDocument")' => call'[q] = call[q]
        BY <2>1, <2>2 DEF At
      <3>2. \A d \in Document : DocumentExists(d)' => d \in stored'
        BY <2>2 DEF StoreInv, SameRows
      <3>3. \A q \in Request, d \in Document :
                At(q, "insertDocument")' /\ call'[q].document = d => d \in stored' /\ ~ DocumentExists(d)'
        BY <2>2, <3>1 DEF StoreInv, SameRows
      <3>4. \A p, q \in Request :
                /\ At(p, "insertDocument")' /\ At(q, "insertDocument")'
                /\ call'[p].document = call'[q].document
                => p = q
        BY <3>1 DEF StoreInv
      <3>5. ASSUME ~ scenario'.fails, NEW d \in stored'
            PROVE  \/ DocumentExists(d)'
                   \/ \E q \in Request : At(q, "insertDocument")' /\ call'[q].document = d
        <4>1. d \in stored /\ d \in Document
          BY <2>2 DEF RoomTypeOK, DocumentRowsOK
        <4>2. \/ DocumentExists(d)
              \/ \E q \in Request : At(q, "insertDocument") /\ call[q].document = d
          BY <2>1, <3>5, <4>1 DEF StoreInv
        <4> QED
          BY <2>2, <3>1, <4>1, <4>2 DEF SameRows
      <3> QED
        BY <2>2, <3>2, <3>3, <3>4, <3>5 DEF StoreInv, SameRows
    <2>3. ASSUME NEW d \in Document \ stored,
                 SameRows, stored' = stored \cup {d},
                 ~ At(r, "insertDocument"), At(r, "insertDocument")', call'[r].document = d
          PROVE  StoreInv' /\ \A e \in Document : RowStays(e)
      <3>1. \A q \in Request : q # r /\ At(q, "insertDocument") => call[q].document # d
        BY <2>3 DEF StoreInv
      <3>2. ~ DocumentExists(d)
        BY <2>3 DEF StoreInv
      <3>3. \A q \in Request : q # r => /\ At(q, "insertDocument")' <=> At(q, "insertDocument")
                                        /\ call'[q] = call[q]
        BY <2>1 DEF At
      <3>4. \A e \in Document : DocumentExists(e)' => e \in stored'
        BY <2>3 DEF StoreInv, SameRows
      <3>5. ASSUME NEW q \in Request, NEW e \in Document, At(q, "insertDocument")',
                   call'[q].document = e
            PROVE  e \in stored' /\ ~ DocumentExists(e)'
        BY <2>3, <3>2, <3>3, <3>5 DEF StoreInv, SameRows
      <3>6. ASSUME NEW p \in Request, NEW q \in Request, At(p, "insertDocument")',
                   At(q, "insertDocument")', call'[p].document = call'[q].document
            PROVE  p = q
        BY <2>3, <3>1, <3>3, <3>6 DEF StoreInv
      <3>7. ASSUME ~ scenario'.fails, NEW e \in stored'
            PROVE  \/ DocumentExists(e)'
                   \/ \E q \in Request : At(q, "insertDocument")' /\ call'[q].document = e
        <4>1. CASE e = d
          BY <2>3, <4>1
        <4>2. CASE e # d
          <5>1. e \in stored /\ e \in Document
            BY <2>3, <4>2 DEF RoomTypeOK, DocumentRowsOK
          <5>2. \/ DocumentExists(e)
                \/ \E q \in Request : At(q, "insertDocument") /\ call[q].document = e
            BY <2>1, <3>7, <5>1 DEF StoreInv
          <5> QED
            BY <2>3, <3>3, <5>1, <5>2 DEF SameRows
        <4> QED
          BY <4>1, <4>2
      <3> QED
        BY <2>3, <3>4, <3>5, <3>6, <3>7 DEF StoreInv, SameRows
    <2>4. ASSUME NEW d \in Document, NEW row \in [by : User, place : Place, deleted : BOOLEAN],
                 At(r, "insertDocument"), ~ At(r, "insertDocument")', call[r].document = d,
                 document' = [document EXCEPT ![d] = row], UNCHANGED stored
          PROVE  StoreInv' /\ \A e \in Document : RowStays(e)
      <3>1. d \in stored /\ ~ DocumentExists(d)
        BY <2>4 DEF StoreInv
      <3>2. row # NoDocument
        BY RowsAreDocuments
      <3>3. /\ DocumentExists(d)'
            /\ \A e \in Document : e # d => document'[e] = document[e]
        BY <1>1, <2>4, <3>2 DEF DocumentExists
      <3>4. \A e \in Document : e # d => (DocumentExists(e)' <=> DocumentExists(e))
        BY <3>3 DEF DocumentExists
      <3>5. \A q \in Request : At(q, "insertDocument")' =>
                q # r /\ call'[q] = call[q] /\ At(q, "insertDocument") /\ call[q].document # d
        BY <2>1, <2>4 DEF At, StoreInv
      <3>6. \A e \in Document : RowStays(e)
        BY <3>1, <3>3, <3>4
      <3>7. ASSUME ~ scenario'.fails, NEW e \in stored'
            PROVE  \/ DocumentExists(e)'
                   \/ \E q \in Request : At(q, "insertDocument")' /\ call'[q].document = e
        <4>1. CASE e = d
          BY <3>3, <4>1
        <4>2. CASE e # d
          <5>1. e \in stored /\ e \in Document
            BY <2>4 DEF RoomTypeOK, DocumentRowsOK
          <5>2. \/ DocumentExists(e)
                \/ \E q \in Request : At(q, "insertDocument") /\ call[q].document = e
            BY <2>1, <3>7, <5>1 DEF StoreInv
          <5>3. \A q \in Request : q # r => (At(q, "insertDocument")' <=> At(q, "insertDocument"))
            BY <2>1 DEF At
          <5> QED
            BY <2>1, <2>4, <3>4, <4>2, <5>1, <5>2, <5>3
        <4> QED
          BY <4>1, <4>2
      <3>8. \A e \in Document : DocumentExists(e)' => e \in stored'
        BY <2>4, <3>1, <3>4 DEF StoreInv
      <3>9. \A q \in Request, e \in Document :
                At(q, "insertDocument")' /\ call'[q].document = e => e \in stored' /\ ~ DocumentExists(e)'
        BY <2>4, <3>4, <3>5 DEF StoreInv
      <3>10. \A p, q \in Request :
                 /\ At(p, "insertDocument")' /\ At(q, "insertDocument")'
                 /\ call'[p].document = call'[q].document
                 => p = q
        BY <3>5 DEF StoreInv
      <3> QED
        BY <3>6, <3>7, <3>8, <3>9, <3>10 DEF StoreInv
    <2> QED
      BY <2>1, <2>2, <2>3, <2>4 DEF StoreEffect, SameRows
  <1> QED
    BY <1>1, <1>2, <1>3, <1>4, DocumentCases DEF documentVars

\* A grant, once given, stays one: it is revoked or expires in place.
LEMMA GrantInvNext ==
    ASSUME RoomTypeOK, GrantInv, [RoomNext]_roomStateVars
    PROVE  /\ GrantInv'
           /\ \A d \in Document, u \in User : grant[d][u] # NoGrant => grant'[d][u] # NoGrant
  <1> DEFINE Goal == /\ GrantInv'
                     /\ \A d \in Document, u \in User : grant[d][u] # NoGrant => grant'[d][u] # NoGrant
             G == [expiry : {"absent", "never", "later", "passed"}, revoked : BOOLEAN]
  <1>1. SlotsOK /\ grant \in [Document -> [User -> G]]
    BY HandlersFillSlots DEF RoomTypeOK, DocumentRowsOK
  <1>2. CASE UNCHANGED grant
    BY <1>2 DEF GrantInv
  <1>3. ASSUME NEW d \in Document, NEW u \in User, NEW g \in G, g.expiry # "absent",
               grant' = [grant EXCEPT ![d][u] = g]
        PROVE  Goal
    <2>1. g # NoGrant
      BY <1>3 DEF NoGrant
    <2>2. /\ grant'[d][u] = g
          /\ \A e \in Document, v \in User : e # d \/ v # u => grant'[e][v] = grant[e][v]
      BY <1>1, <1>3
    <2> QED
      BY <1>3, <2>1, <2>2 DEF GrantInv
  <1>4. ASSUME NEW r \in Request, DocumentArrive(r) \/ DocumentProceed(r)
        PROVE  Goal
    <2>1. CASE UpsertGrant(r)
      <3> DEFINE d == call[r].document
                 u == call[r].whom
                 keeps == call[r].expiry = "never" /\ grant[d][u] # NoGrant
                 x == IF keeps THEN grant[d][u].expiry ELSE call[r].expiry
                 g == [revoked |-> FALSE, expiry |-> x]
      <3>1. call[r] \in [at : {"upsertGrant"}, user : User, document : Document, whom : User,
                         expiry : {"never", "later"}]
        BY <2>1, FileHandlerFields DEF UpsertGrant, At, RoomTypeOK
      <3>2. grant' = [grant EXCEPT ![d][u] = g]
        BY <2>1 DEF UpsertGrant
      <3>3. d \in Document /\ u \in User /\ call[r].expiry \in {"never", "later"}
        BY <3>1
      <3>4. grant[d][u] \in G
        BY <1>1, <3>3
      <3>5. x \in {"never", "later", "passed"}
        BY <3>3, <3>4 DEF GrantInv
      <3>6. g \in G /\ g.expiry # "absent"
        <4> HIDE DEF x
        <4> QED
          BY <3>5
      <3> HIDE DEF g
      <3> QED
        BY <1>3, <3>2, <3>3, <3>6
    <2>2. CASE WriteRevoked(r)
      <3> DEFINE d == call[r].document
                 u == call[r].whom
                 g == [grant[d][u] EXCEPT !.revoked = TRUE]
      <3>1. d \in Document /\ u \in User
        BY <2>2, FileHandlerFields DEF WriteRevoked, At, RoomTypeOK
      <3>2. grant[d][u] \in G
        BY <1>1, <3>1
      <3>3. CASE grant[d][u] = NoGrant
        BY <1>2, <2>2, <3>3 DEF WriteRevoked
      <3>4. CASE grant[d][u] # NoGrant
        <4>1. grant' = [grant EXCEPT ![d][u] = g]
          BY <2>2, <3>4 DEF WriteRevoked
        <4>2. g \in G /\ g.expiry = grant[d][u].expiry
          BY <3>2
        <4>3. g.expiry # "absent"
          BY <3>1, <3>4, <4>2 DEF GrantInv
        <4> HIDE DEF g
        <4> QED
          BY <1>3, <3>1, <4>1, <4>2, <4>3
      <3> QED
        BY <3>3, <3>4
    <2>3. CASE DocumentArrive(r) \/ (DocumentProceed(r) /\ ~ UpsertGrant(r) /\ ~ WriteRevoked(r))
      <3>1. UNCHANGED grant
        BY <2>3 DEF DocumentArrive, DocumentProceed, BeginUpload, BeginDownload, BeginRemove,
                    BeginRevoke, BeginGrant, PutObject, InsertDocument, WriteDeleted, LogAccess,
                    documentVars
      <3> QED
        BY <1>2, <3>1
    <2> QED
      BY <1>4, <2>1, <2>2, <2>3
  <1>5. CASE DocumentTime
    <2>1. PICK d \in Document, u \in User : ExpireGrant(d, u)
      BY <1>5 DEF DocumentTime
    <2> DEFINE g == [grant[d][u] EXCEPT !.expiry = "passed"]
    <2>2. grant' = [grant EXCEPT ![d][u] = g]
      BY <2>1 DEF ExpireGrant
    <2>3. grant[d][u] \in G
      BY <1>1
    <2>4. g \in G /\ g.expiry # "absent"
      BY <2>3
    <2> HIDE DEF g
    <2> QED
      BY <1>3, <2>2, <2>4
  <1> QED
    BY <1>1, <1>2, <1>4, <1>5, DocumentCases DEF documentVars

\* A handler that is about to log a single entry.
LEMMA LogsOne ==
    ASSUME NEW r \in Request, NEW e, call'[r] = Logging(<<e>>)
    PROVE  \A f : Logs(r, f)' <=> f = e
  <1>1. DOMAIN <<e>> = {1} /\ <<e>>[1] = e
    OBVIOUS
  <1>2. call'[r].at = "log" /\ call'[r].entries = <<e>>
    BY DEF Logging
  <1> QED
    BY <1>1, <1>2 DEF Logs, At

\* The handler of the log writes the first of its entries and goes on with the others.
LEMMA LogEffects ==
    ASSUME RoomTypeOK, NEW r \in Request, LogAccess(r)
    PROVE  /\ Head(call[r].entries) \in LogEntry
           /\ accessLog' = accessLog \cup KeptEntry(Head(call[r].entries))
           /\ \A f : Logs(r, f) <=> f = Head(call[r].entries) \/ Logs(r, f)'
  <1> DEFINE s == call[r].entries
  <1>1. At(r, "log") /\ s \in Seq(LogEntry) /\ s # <<>> /\ SlotsOK
    BY FileHandlerFields, HandlersFillSlots DEF LogAccess, At, RoomTypeOK
  <1>2. /\ Head(s) \in LogEntry /\ Len(s) \in Nat \ {0}
        /\ DOMAIN s = 1 .. Len(s)
        /\ \A i \in 2 .. Len(s) : i - 1 \in DOMAIN Tail(s) /\ Tail(s)[i - 1] = s[i]
        /\ \A i \in DOMAIN Tail(s) : i + 1 \in DOMAIN s /\ Tail(s)[i] = s[i + 1]
    BY <1>1, RestOfLog
  <1>3. Head(s) = s[1] /\ 1 \in DOMAIN s
    BY <1>1, <1>2
  <1>4. call'[r] = IF Len(s) = 1 THEN Idle ELSE Logging(Tail(s))
    BY <1>1, GoMoves DEF LogAccess, Logging, Idle
  <1>5. \A f : Logs(r, f) <=> f = Head(s) \/ \E i \in 2 .. Len(s) : s[i] = f
    <2>1. DOMAIN s = {1} \cup (2 .. Len(s))
      BY <1>2
    <2> QED
      BY <1>1, <1>3, <2>1 DEF Logs
  <1>6. \A f : Logs(r, f)' <=> \E i \in 2 .. Len(s) : s[i] = f
    <2>1. CASE Len(s) = 1
      <3>1. 2 .. Len(s) = {} /\ ~ At(r, "log")'
        BY <1>4, <2>1 DEF Idle, At
      <3> QED
        BY <3>1 DEF Logs
    <2>2. CASE Len(s) # 1
      <3>1. call'[r].at = "log" /\ call'[r].entries = Tail(s)
        BY <1>4, <2>2 DEF Logging
      <3>2. \A f : Logs(r, f)' <=> \E i \in DOMAIN Tail(s) : Tail(s)[i] = f
        BY <3>1 DEF Logs, At
      <3>3. ASSUME NEW f, NEW i \in DOMAIN Tail(s), Tail(s)[i] = f
            PROVE  \E j \in 2 .. Len(s) : s[j] = f
        <4>1. i \in Nat /\ i >= 1
          <5>1. Tail(s) \in Seq(LogEntry)
            BY <1>1, RestOfLog
          <5> QED
            BY <5>1
        <4>2. i + 1 \in 2 .. Len(s) /\ s[i + 1] = f
          BY <1>2, <3>3, <4>1
        <4> QED
          BY <4>2
      <3>4. \A f : \A j \in 2 .. Len(s) : s[j] = f => \E i \in DOMAIN Tail(s) : Tail(s)[i] = f
        BY <1>2
      <3> QED
        BY <3>2, <3>3, <3>4
    <2> QED
      BY <2>1, <2>2
  <1>7. accessLog' = accessLog \cup KeptEntry(Head(s))
    BY DEF LogAccess
  <1> QED
    BY <1>2, <1>5, <1>6, <1>7

\* What a step of DocumentsService makes of the downloads.
LEMMA DownloadEffects ==
    ASSUME RoomTypeOK, NEW r \in Request, DocumentArrive(r) \/ DocumentProceed(r),
           NEW d \in Document, NEW u \in User
    PROVE  /\ Logs(r, <<"DOWNLOADED", d, u>>)' => Logs(r, <<"DOWNLOADED", d, u>>) \/ Accessible(d, u)
           /\ <<"DOWNLOADED", d, u>> \in accessLog' =>
                  <<"DOWNLOADED", d, u>> \in accessLog \/ Logs(r, <<"DOWNLOADED", d, u>>)
  <1> DEFINE e == <<"DOWNLOADED", d, u>>
             Goal == /\ Logs(r, e)' => Logs(r, e) \/ Accessible(d, u)
                     /\ e \in accessLog' => e \in accessLog \/ Logs(r, e)
  <1>1. SlotsOK
    BY HandlersFillSlots DEF RoomTypeOK
  <1>2. ASSUME call'[r].at # "log", UNCHANGED accessLog
        PROVE  Goal
    BY <1>2 DEF Logs, At
  <1>3. ASSUME NEW f, f # e, call'[r] = Logging(<<f>>), UNCHANGED accessLog
        PROVE  Goal
    BY <1>3, LogsOne
  <1>4. \A action, c, w : action # "DOWNLOADED" => <<action, c, w>> # e
    OBVIOUS
  <1>5. ASSUME NEW w, NEW place, BeginUpload(r, w, place)
        PROVE  Goal
    BY <1>1, <1>2, <1>5, BeginMoves DEF BeginUpload, documentVars
  <1>6. ASSUME NEW w, NEW c, BeginDownload(r, w, c)
        PROVE  Goal
    <2> DEFINE f == <<"DOWNLOADED", c, w>>
    <2>1. call'[r] = Logging(<<f>>) /\ UNCHANGED accessLog /\ Accessible(c, w)
      BY <1>1, <1>6, BeginMoves DEF BeginDownload, Logging, documentVars
    <2>2. CASE c = d /\ w = u
      BY <2>1, <2>2
    <2>3. CASE ~ (c = d /\ w = u)
      <3>1. f # e
        BY <2>3
      <3> HIDE DEF f, e
      <3> QED
        BY <1>3, <2>1, <3>1
    <2> QED
      BY <2>2, <2>3
  <1>7. ASSUME NEW w, NEW c, BeginRemove(r, w, c)
        PROVE  Goal
    BY <1>1, <1>2, <1>7, BeginMoves DEF BeginRemove, documentVars
  <1>8. ASSUME NEW w, NEW c, NEW v, BeginRevoke(r, w, c, v)
        PROVE  Goal
    BY <1>1, <1>2, <1>8, BeginMoves DEF BeginRevoke, documentVars
  <1>9. ASSUME NEW w, NEW c, NEW v, NEW expiry, BeginGrant(r, w, c, v, expiry)
        PROVE  Goal
    BY <1>1, <1>2, <1>9, BeginMoves DEF BeginGrant, documentVars
  <1>10. ASSUME NEW c, PutObject(r, c)
         PROVE  Goal
    BY <1>1, <1>2, <1>10, GoMoves DEF PutObject
  <1>11. CASE InsertDocument(r)
    <2>1. PICK c, w : /\ call'[r] = Logging(<< <<"UPLOADED", c, w>>, <<"DOCUMENT_UPLOADED", c, w>> >>)
                      /\ UNCHANGED accessLog
      <3> DEFINE h == Logging(<< <<"UPLOADED", call[r].document, call[r].user>>,
                                 <<"DOCUMENT_UPLOADED", call[r].document, call[r].user>> >>)
      <3>1. Go(r, h) /\ UNCHANGED accessLog /\ "at" \in DOMAIN h
        BY <1>11 DEF InsertDocument, Logging
      <3>2. call'[r] = h
        BY <1>1, <3>1, GoMoves
      <3> QED
        BY <3>1, <3>2
    <2> DEFINE f == <<"UPLOADED", c, w>>
               g == <<"DOCUMENT_UPLOADED", c, w>>
    <2>2. f # e /\ g # e
      BY <1>4
    <2>3. call'[r] = Logging(<<f, g>>)
      BY <2>1
    <2> HIDE DEF f, g, e
    <2>4. DOMAIN <<f, g>> = {1, 2} /\ <<f, g>>[1] = f /\ <<f, g>>[2] = g
      OBVIOUS
    <2>5. call'[r].entries = <<f, g>>
      BY <2>3 DEF Logging
    <2>6. ~ Logs(r, e)'
      BY <2>2, <2>4, <2>5 DEF Logs
    <2> QED
      BY <2>1, <2>6 DEF e
  <1>12. CASE UpsertGrant(r)
    <2>1. PICK c, w : call'[r] = Logging(<< <<"ACCESS_GRANTED", c, w>> >>) /\ UNCHANGED accessLog
      <3> DEFINE h == Logging(<< <<"ACCESS_GRANTED", call[r].document, call[r].user>> >>)
      <3>1. Go(r, h) /\ UNCHANGED accessLog /\ "at" \in DOMAIN h
        BY <1>12 DEF UpsertGrant, Logging
      <3>2. call'[r] = h
        BY <1>1, <3>1, GoMoves
      <3> QED
        BY <3>1, <3>2
    <2> DEFINE f == <<"ACCESS_GRANTED", c, w>>
    <2>2. f # e
      BY <1>4
    <2>3. call'[r] = Logging(<<f>>) /\ UNCHANGED accessLog
      BY <2>1
    <2> HIDE DEF f, e
    <2> QED
      BY <1>3, <2>2, <2>3 DEF e
  <1>13. CASE WriteRevoked(r)
    <2>1. PICK c, w : call'[r] = Logging(<< <<"ACCESS_REVOKED", c, w>> >>) /\ UNCHANGED accessLog
      <3> DEFINE h == Logging(<< <<"ACCESS_REVOKED", call[r].document, call[r].user>> >>)
      <3>1. Go(r, h) /\ UNCHANGED accessLog /\ "at" \in DOMAIN h
        BY <1>13 DEF WriteRevoked, Logging
      <3>2. call'[r] = h
        BY <1>1, <3>1, GoMoves
      <3> QED
        BY <3>1, <3>2
    <2> DEFINE f == <<"ACCESS_REVOKED", c, w>>
    <2>2. f # e
      BY <1>4
    <2>3. call'[r] = Logging(<<f>>) /\ UNCHANGED accessLog
      BY <2>1
    <2> HIDE DEF f, e
    <2> QED
      BY <1>3, <2>2, <2>3 DEF e
  <1>14. CASE WriteDeleted(r)
    <2>1. PICK c, w : call'[r] = Logging(<< <<"DELETED", c, w>> >>) /\ UNCHANGED accessLog
      <3> DEFINE h == Logging(<< <<"DELETED", call[r].document, call[r].user>> >>)
      <3>1. Go(r, h) /\ UNCHANGED accessLog /\ "at" \in DOMAIN h
        BY <1>14 DEF WriteDeleted, Logging
      <3>2. call'[r] = h
        BY <1>1, <3>1, GoMoves
      <3> QED
        BY <3>1, <3>2
    <2> DEFINE f == <<"DELETED", c, w>>
    <2>2. f # e
      BY <1>4
    <2>3. call'[r] = Logging(<<f>>) /\ UNCHANGED accessLog
      BY <2>1
    <2> HIDE DEF f, e
    <2> QED
      BY <1>3, <2>2, <2>3 DEF e
  <1>15. CASE LogAccess(r)
    <2> HIDE DEF e
    <2>1. \A f : f \in KeptEntry(Head(call[r].entries)) => f = Head(call[r].entries)
      BY DEF KeptEntry
    <2> QED
      BY <1>15, <2>1, LogEffects
  <1> QED
    BY <1>5, <1>6, <1>7, <1>8, <1>9, <1>10, <1>11, <1>12, <1>13, <1>14, <1>15
       DEF DocumentArrive, DocumentProceed

\* Downloads keep their reasons.
LEMMA ReasonInvNext ==
    ASSUME RoomTypeOK, DocumentInv, [RoomNext]_roomStateVars
    PROVE  ReasonInv'
  <1>1. ASSUME NEW d \in Document, NEW u \in User, Reason(d, u)
        PROVE  Reason(d, u)'
    <2>1. /\ DocumentExists(d) => /\ DocumentExists(d)'
                                  /\ document'[d].by = document[d].by
                                  /\ document'[d].place = document[d].place
          /\ Participant(u) => Participant(u)'
          /\ scenario' = scenario
          /\ grant[d][u] # NoGrant => grant'[d][u] # NoGrant
      BY HandlersFillSlots, DealCases, DealMoves, StoreInvNext, GrantInvNext, ParticipantsStay
         DEF DocumentInv, RoomTypeOK, Moves, Untouched
    <2> QED
      BY <1>1, <2>1 DEF Reason, OwnsDocuments, InRoom
  <1>2. ASSUME NEW d \in Document, NEW u \in User, Accessible(d, u)
        PROVE  Reason(d, u)
    BY <1>2 DEF Accessible, Reason, Granted, NoGrant
  <1>3. ASSUME NEW d \in Document, NEW u \in User,
               \/ <<"DOWNLOADED", d, u>> \in accessLog'
               \/ \E q \in Request : Logs(q, <<"DOWNLOADED", d, u>>)'
        PROVE  Reason(d, u)'
    <2> DEFINE e == <<"DOWNLOADED", d, u>>
    <2>1. CASE e \in accessLog \/ \E q \in Request : Logs(q, e)
      BY <1>1, <2>1 DEF DocumentInv, ReasonInv
    <2>2. CASE ~ (e \in accessLog \/ \E q \in Request : Logs(q, e))
      <3>1. CASE UNCHANGED documentVars /\ Apart(DocumentSteps)
        <4>1. \A q \in Request : Logs(q, e)' => Logs(q, e)
          BY <3>1 DEF Apart, Untouched, DocumentSteps, Logs, At
        <4> QED
          BY <1>3, <2>2, <3>1, <4>1 DEF documentVars
      <3>2. CASE DocumentTime /\ UNCHANGED roomVars
        BY <1>3, <2>2, <3>2 DEF DocumentTime, ExpireGrant, roomVars, handlerVars, Logs, At
      <3>3. ASSUME NEW r \in Request, DocumentArrive(r) \/ DocumentProceed(r)
            PROVE  Reason(d, u)'
        <4>1. \A q \in Request : q # r => call'[q] = call[q]
          BY <3>3, HandlersFillSlots, DocumentMoves DEF Moves, RoomTypeOK
        <4>2. \A q \in Request : q # r => (Logs(q, e)' => Logs(q, e))
          BY <4>1 DEF Logs, At
        <4>3. /\ Logs(r, e)' => Accessible(d, u)
              /\ e \notin accessLog'
          BY <2>2, <3>3, DownloadEffects
        <4> QED
          BY <1>1, <1>2, <1>3, <2>2, <4>2, <4>3
      <3> QED
        BY <3>1, <3>2, <3>3, DocumentCases, HandlersFillSlots DEF RoomTypeOK
    <2> QED
      BY <2>1, <2>2
  <1> QED
    BY <1>3 DEF ReasonInv

\* Whatever overlaps in the room, its documents are as DocumentInv says.
THEOREM DocumentInvHolds == RoomSpec => []DocumentInv
  <1>1. DocumentInv /\ RoomTypeOK /\ [RoomNext]_roomStateVars => DocumentInv'
    BY StoreInvNext, GrantInvNext, ReasonInvNext DEF DocumentInv
  <1> QED
    BY <1>1, DocumentInvInit, RoomTypesHold, PTL DEF RoomSpec

\* A document that is listed has its object, wherever an upload dies; and whoever is on the log
\* for a download had a reason for it that is still there.
THEOREM DocumentsAreKept == RoomSpec => []DocumentsKept
  <1>1. DocumentInv => DocumentsKept
    BY DEF DocumentInv, StoreInv, ReasonInv, Reason, DocumentsKept, DocumentsStored,
           DownloadsExplained
  <1> QED
    BY <1>1, DocumentInvHolds, PTL

-----------------------------------------------------------------------------
(* What the timeline tells, without failures. *)

\* The handler in this slot is about to record this event.
Records(r, event) == At(r, "event") /\ call[r].event = event

\* An event is not lost between a write and the timeline, and the timeline loses none.
LEMMA EventCases ==
    ASSUME SlotsOK, ~ scenario.fails, [RoomNext]_roomStateVars
    PROVE  /\ scenario' = scenario
           /\ timeline \subseteq timeline'
           /\ \A q \in Request : At(q, "event") => call'[q] = call[q] \/ WriteEvent(q)
  <1>1. ASSUME NEW r \in Request,
               \/ DiligenceArrive(r) \/ DiligenceProceed(r)
               \/ AgreementArrive(r) \/ AgreementProceed(r)
               \/ PaymentArrive(r) \/ PaymentProceed(r)
               \/ DocumentArrive(r) \/ DocumentProceed(r)
        PROVE  /\ scenario' = scenario
               /\ \A q \in Request : At(q, "event") => call'[q] = call[q]
    <2>1. call[r].at # "event"
      BY <1>1, OwnSteps DEF DiligenceSteps, AgreementSteps, PaymentSteps, DocumentSteps
    <2>2. \E steps : Moves(r, steps)
      BY <1>1, DiligenceMoves, AgreementMoves, PaymentMoves, DocumentMoves
    <2> QED
      BY <2>1, <2>2 DEF Moves, At
  <1>2. ASSUME NEW r \in Request,
               \/ DiligenceArrive(r) \/ DiligenceProceed(r)
               \/ AgreementArrive(r) \/ AgreementProceed(r)
               \/ DocumentArrive(r) \/ DocumentProceed(r)
        PROVE  timeline \subseteq timeline'
    BY <1>2
       DEF DiligenceArrive, DiligenceProceed, BeginRequest, BeginUpdateItem, InsertRequest,
           WriteItem, AgreementArrive, AgreementProceed, BeginAgreement, BeginVersion, BeginSign,
           InsertAgreement, ReadLatest, InsertVersion, VersionTaken, WritePending,
           UpsertSignature, CountParties, CountSignatures, WriteOutcome, DocumentArrive,
           DocumentProceed, BeginUpload, BeginDownload, BeginRemove, BeginRevoke, BeginGrant,
           PutObject, InsertDocument, UpsertGrant, WriteRevoked, WriteDeleted, LogAccess, dealVars
  <1>3. ASSUME NEW r \in Request, PaymentArrive(r) \/ PaymentProceed(r)
        PROVE  timeline \subseteq timeline'
    BY <1>3 DEF PaymentArrive, PaymentProceed, BeginPay, Deliver, ReadStage, FindPayment,
                InsertPayment, PaymentTaken, RecordEvent, DismissDuplicate, Route, Apply,
                TellCompleted, dealVars
  <1>4. ASSUME NEW r \in Request, DealArrive(r) \/ DealProceed(r)
        PROVE  /\ scenario' = scenario
               /\ timeline \subseteq timeline'
               /\ \A q \in Request : At(q, "event") => call'[q] = call[q] \/ WriteEvent(q)
    <2>1. scenario' = scenario /\ \A q \in Request : q # r => call'[q] = call[q]
      BY <1>4, DealMoves DEF Moves
    <2>2. timeline \subseteq timeline'
      BY <1>4 DEF DealArrive, DealProceed, BeginUpdateStatus, BeginAddParticipant,
                  BeginCreateTask, BeginUpdateTask, ReadStatus, WriteStatus, UpsertParticipant,
                  InsertTask, WriteTask, WriteEvent, FindOthers, NotifyOne, NotifiedAll, dealVars
    <2>3. \A endpoint, h : Begin(r, endpoint, h) => call[r].at = "idle"
      BY DEF Begin, Idle
    <2>4. At(r, "event") => WriteEvent(r)
      BY <1>4, <2>3
         DEF DealArrive, DealProceed, BeginUpdateStatus, BeginAddParticipant, BeginCreateTask,
             BeginUpdateTask, ReadStatus, WriteStatus, UpsertParticipant, InsertTask, WriteTask,
             FindOthers, NotifyOne, NotifiedAll, At
    <2> QED
      BY <2>1, <2>2, <2>4
  <1>5. ~ \E r \in Request : RoomFail(r)
    BY DEF RoomFail, Fail, DismissOnError
  <1>6. CASE RoomOutside \/ UNCHANGED roomStateVars
    BY <1>6 DEF RoomOutside, Provider, Wire, Send, DocumentTime, ExpireGrant, AgreementOutside,
                SignElsewhere, roomStateVars, roomVars, handlerVars, dealVars
  <1> QED
    BY <1>1, <1>2, <1>3, <1>4, <1>5, <1>6 DEF RoomNext, RoomArrive, RoomProceed

\* What is told, or about to be, stays so.
LEMMA ToldStays ==
    ASSUME SlotsOK, ~ scenario.fails, [RoomNext]_roomStateVars, NEW e, Told(e)
    PROVE  Told(e)'
  <1>1. Kept(e)' = Kept(e)
    BY EventCases DEF Kept
  <1>2. CASE Kept(e) \subseteq timeline
    BY <1>1, <1>2, EventCases DEF Told
  <1>3. ASSUME NEW q \in Request, Records(q, e)
        PROVE  Told(e)'
    <2>1. CASE call'[q] = call[q]
      BY <1>3, <2>1 DEF Told, Recording, Records, At
    <2>2. CASE WriteEvent(q)
      BY <1>1, <1>3, <2>2 DEF WriteEvent, Told, Records
    <2> QED
      BY <1>3, <2>1, <2>2, EventCases DEF Records
  <1> QED
    BY <1>2, <1>3 DEF Told, Recording, Records

\* Everything that DealsService writes is recorded by the handler that wrote it.
DealTelling(r) ==
    /\ \A s \in DealStatus : status' = s => status = s \/ Records(r, StatusChanged(s))'
    /\ \A u \in User, ro \in Role :
           role'[u] = ro => role[u] = ro \/ Records(r, ParticipantAdded(u, ro))'
    /\ \A t \in Task :
           /\ task[t] # "ABSENT" => task'[t] # "ABSENT"
           /\ task'[t] # "ABSENT" => \/ task[t] # "ABSENT"
                                     \/ Records(r, TaskCreated(t))'
                                     \/ At(r, "writeTask") /\ call[r].task = t
           /\ task'[t] = "COMPLETED" => task[t] = "COMPLETED" \/ Records(r, TaskCompleted(t))'
           /\ At(r, "writeTask")' /\ call'[r].task = t => task[t] # "ABSENT"

LEMMA DealTells ==
    ASSUME RoomTypeOK, NEW r \in Request, DealArrive(r) \/ DealProceed(r)
    PROVE  DealTelling(r)
  <1>1. /\ SlotsOK /\ call[r] \in Handler /\ status \in DealStatus
        /\ role \in [User -> Role \cup {"NONE"}] /\ task \in [Task -> TaskStatus \cup {"ABSENT"}]
    BY HandlersFillSlots DEF RoomTypeOK, DealRowsOK
  <1> USE <1>1
  <1>2. ASSUME UNCHANGED <<status, role, task>>, call'[r].at # "writeTask"
        PROVE  DealTelling(r)
    BY <1>2 DEF DealTelling, At
  <1>3. ASSUME NEW u, NEW to, BeginUpdateStatus(r, u, to)
        PROVE  DealTelling(r)
    BY <1>2, <1>3, BeginMoves DEF BeginUpdateStatus, dealVars
  <1>4. ASSUME NEW u, NEW v, NEW ro, BeginAddParticipant(r, u, v, ro)
        PROVE  DealTelling(r)
    BY <1>2, <1>4, BeginMoves DEF BeginAddParticipant, dealVars
  <1>5. ASSUME NEW u, BeginCreateTask(r, u)
        PROVE  DealTelling(r)
    BY <1>2, <1>5, BeginMoves DEF BeginCreateTask, dealVars
  <1>6. ASSUME NEW u, NEW t, NEW to, BeginUpdateTask(r, u, t, to)
        PROVE  DealTelling(r)
    <2>1. UNCHANGED <<status, role, task>> /\ task[t] # "ABSENT" /\ call'[r].task = t
      BY <1>6, BeginMoves DEF BeginUpdateTask, dealVars
    <2> QED
      BY <2>1 DEF DealTelling
  <1>7. CASE ReadStatus(r)
    BY <1>2, <1>7, GoMoves, AtMoves DEF ReadStatus, Idle, dealVars
  <1>8. CASE WriteStatus(r)
    <2>1. /\ UNCHANGED <<role, task>>
          /\ call'[r].at = "event" /\ call'[r].event = StatusChanged(status')
      BY <1>8, GoMoves DEF WriteStatus, RecordAndTell
    <2> QED
      BY <2>1 DEF DealTelling, Records, At
  <1>9. CASE UpsertParticipant(r)
    <2>1. call[r] \in [at : {"upsert"}, user : User, whom : User, role : Role]
      BY <1>9, DealHandlerFields DEF UpsertParticipant, At
    <2>2. PICK w \in User, given \in Role : w = call[r].whom /\ given = call[r].role
      BY <2>1
    <2>3. /\ UNCHANGED <<status, task>> /\ role' = [role EXCEPT ![w] = given]
          /\ call'[r].at = "event" /\ call'[r].event = ParticipantAdded(w, given)
      BY <1>9, <2>2, GoMoves DEF UpsertParticipant, Record
    <2> QED
      BY <2>3 DEF DealTelling, Records, At
  <1>10. ASSUME NEW t \in Task, InsertTask(r, t)
         PROVE  DealTelling(r)
    <2>1. /\ UNCHANGED <<status, role>> /\ task' = [task EXCEPT ![t] = "TODO"]
          /\ call'[r].at = "event" /\ call'[r].event = TaskCreated(t)
      BY <1>10, GoMoves DEF InsertTask, Record
    <2> QED
      BY <2>1 DEF DealTelling, Records, At
  <1>11. CASE WriteTask(r)
    <2>1. call[r] \in [at : {"writeTask"}, user : User, task : Task, to : TaskStatus]
      BY <1>11, DealHandlerFields DEF WriteTask, At
    <2>2. PICK t \in Task, to \in TaskStatus : t = call[r].task /\ to = call[r].to
      BY <2>1
    <2>3. /\ UNCHANGED <<status, role>> /\ task' = [task EXCEPT ![t] = to]
          /\ call'[r].at \in {"idle", "event"}
          /\ to = "COMPLETED" => call'[r].at = "event" /\ call'[r].event = TaskCompleted(t)
      BY <1>11, <2>2, GoMoves DEF WriteTask, Record, Idle
    <2> QED
      BY <1>11, <2>2, <2>3 DEF DealTelling, Records, At, WriteTask, TaskStatus
  <1>12. CASE WriteEvent(r)
    BY <1>2, <1>12, GoMoves, AtMoves DEF WriteEvent, Idle
  <1>13. CASE FindOthers(r)
    BY <1>2, <1>13, GoMoves DEF FindOthers, dealVars
  <1>14. CASE NotifyOne(r) \/ NotifiedAll(r)
    <2>1. call'[r].at \in {"idle", "notify"}
      <3>1. CASE NotifyOne(r)
        <4>1. PICK u : Go(r, [call[r] EXCEPT !.others = @ \ {u}])
          BY <3>1 DEF NotifyOne
        <4>2. /\ "at" \in DOMAIN [call[r] EXCEPT !.others = @ \ {u}]
              /\ [call[r] EXCEPT !.others = @ \ {u}].at = "notify"
          BY <3>1 DEF SlotsOK, NotifyOne, At
        <4> QED
          BY <4>1, <4>2, GoMoves
      <3>2. CASE NotifiedAll(r)
        BY <3>2, GoMoves DEF NotifiedAll, Idle
      <3> QED
        BY <1>14, <3>1, <3>2
    <2> QED
      BY <1>2, <1>14, <2>1 DEF NotifyOne, NotifiedAll, dealVars
  <1> QED
    BY <1>3, <1>4, <1>5, <1>6, <1>7, <1>8, <1>9, <1>10, <1>11, <1>12, <1>13, <1>14
       DEF DealArrive, DealProceed

\* A step of the room is one of DueDiligenceService, or it leaves the requests and the handlers
\* of that service alone.
LEMMA DiligenceCases ==
    ASSUME SlotsOK, [RoomNext]_roomStateVars
    PROVE  \/ \E r \in Request : DiligenceArrive(r) \/ DiligenceProceed(r)
           \/ UNCHANGED diligenceVars /\ Apart(DiligenceSteps)
  <1>1. ASSUME NEW r \in Request,
               \/ DealArrive(r) \/ DealProceed(r)
               \/ AgreementArrive(r) \/ AgreementProceed(r)
               \/ PaymentArrive(r) \/ PaymentProceed(r)
               \/ DocumentArrive(r) \/ DocumentProceed(r)
        PROVE  Apart(DiligenceSteps)
    <2>1. \E steps : /\ call[r].at \in steps \cup CommonSteps
                     /\ Moves(r, steps \cup CommonSteps)
                     /\ (steps \cup CommonSteps) \cap DiligenceSteps = {}
      <3>1. /\ (AgreementSteps \cup CommonSteps) \cap DiligenceSteps = {}
            /\ (PaymentSteps \cup CommonSteps) \cap DiligenceSteps = {}
            /\ (DealSteps \cup CommonSteps) \cap DiligenceSteps = {}
            /\ (DocumentSteps \cup CommonSteps) \cap DiligenceSteps = {}
            /\ "idle" \in CommonSteps
        BY DEF DiligenceSteps, AgreementSteps, PaymentSteps, DocumentSteps, DealSteps, CommonSteps
      <3> QED
        BY <1>1, <3>1, OwnSteps, DealMoves, AgreementMoves, PaymentMoves, DocumentMoves
    <2> QED
      BY <2>1, MovesApart
  <1>2. ASSUME NEW r \in Request, Fail(r) \/ DismissOnError(r)
        PROVE  Apart(DiligenceSteps)
    <2>1. scenario.fails /\ Moves(r, {"idle"})
      BY <1>2, FailMoves DEF Fail, DismissOnError
    <2> QED
      BY <2>1 DEF Moves, Apart, Untouched, DiligenceSteps
  <1>3. ASSUME RoomOutside \/ UNCHANGED roomStateVars
        PROVE  Apart(DiligenceSteps) /\ UNCHANGED diligenceVars
    <2>1. UNCHANGED <<call, scenario>> /\ UNCHANGED diligenceVars
      BY <1>3 DEF RoomOutside, Provider, Wire, Send, DocumentTime, ExpireGrant, AgreementOutside,
                  SignElsewhere, roomStateVars, roomVars, handlerVars
    <2> QED
      BY <2>1 DEF SlotsOK, Apart, Untouched
  <1> QED
    BY <1>1, <1>2, <1>3 DEF RoomNext, RoomArrive, RoomProceed, RoomFail

\* Everything that DueDiligenceService writes is recorded by the handler that wrote it.
DiligenceTelling(r) ==
    \A q \in DiligenceRequest :
        /\ item[q] # "ABSENT" => item'[q] # "ABSENT"
        /\ item'[q] # "ABSENT" => \/ item[q] # "ABSENT"
                                  \/ Records(r, Requested(q))'
                                  \/ At(r, "writeItem") /\ call[r].item = q
        /\ \A s \in ItemStatus : item'[q] = s => item[q] = s \/ Records(r, ItemUpdated(q, s))'
        /\ At(r, "writeItem")' /\ call'[r].item = q => item[q] # "ABSENT"

LEMMA DiligenceTells ==
    ASSUME RoomTypeOK, NEW r \in Request, DiligenceArrive(r) \/ DiligenceProceed(r)
    PROVE  DiligenceTelling(r)
  <1>1. /\ SlotsOK /\ call[r] \in Handler
        /\ item \in [DiligenceRequest -> ItemStatus \cup {"ABSENT", "REQUESTED"}]
        /\ "ABSENT" \notin ItemStatus /\ "REQUESTED" \notin ItemStatus
    BY HandlersFillSlots DEF RoomTypeOK, DiligenceRowsOK, ItemStatus
  <1> USE <1>1
  <1>2. ASSUME NEW u, BeginRequest(r, u)
        PROVE  DiligenceTelling(r)
    <2>1. UNCHANGED item /\ call'[r].at = "insertRequest"
      BY <1>2, BeginMoves DEF BeginRequest, diligenceVars
    <2> QED
      BY <2>1 DEF DiligenceTelling, At
  <1>3. ASSUME NEW u, NEW q, NEW to, BeginUpdateItem(r, u, q, to)
        PROVE  DiligenceTelling(r)
    <2>1. UNCHANGED item /\ item[q] # "ABSENT" /\ call'[r].item = q
      BY <1>3, BeginMoves DEF BeginUpdateItem, diligenceVars
    <2> QED
      BY <2>1 DEF DiligenceTelling
  <1>4. ASSUME NEW q \in DiligenceRequest, InsertRequest(r, q)
        PROVE  DiligenceTelling(r)
    <2>1. /\ item' = [item EXCEPT ![q] = "REQUESTED"]
          /\ call'[r].at = "event" /\ call'[r].event = Requested(q)
      BY <1>4, GoMoves DEF InsertRequest, RecordAndTell
    <2> QED
      BY <2>1 DEF DiligenceTelling, Records, At
  <1>5. CASE WriteItem(r)
    <2>1. call[r] \in [at : {"writeItem"}, user : User, item : DiligenceRequest, to : ItemStatus]
      BY <1>5, PaperHandlerFields DEF WriteItem, At
    <2>2. PICK q \in DiligenceRequest, to \in ItemStatus : q = call[r].item /\ to = call[r].to
      BY <2>1
    <2>3. /\ item' = [item EXCEPT ![q] = to]
          /\ call'[r].at = "event" /\ call'[r].event = ItemUpdated(q, to)
      BY <1>5, <2>2, GoMoves DEF WriteItem, Record
    <2> QED
      BY <1>5, <2>2, <2>3 DEF DiligenceTelling, Records, At, WriteItem
  <1> QED
    BY <1>2, <1>3, <1>4, <1>5 DEF DiligenceArrive, DiligenceProceed

\* The deal and its requests are told, and a task or an item is only updated once it exists.
BookInv ==
    ~ scenario.fails =>
        /\ \A s \in DealStatus : status = s => s = "INITIATED" \/ Told(StatusChanged(s))
        /\ \A u \in User, ro \in Role :
               role[u] = ro => \/ u = Buyer /\ ro = "BUYER"
                               \/ u = Seller /\ ro = "SELLER"
                               \/ Told(ParticipantAdded(u, ro))
        /\ \A t \in Task :
               /\ task[t] # "ABSENT" => Told(TaskCreated(t))
               /\ task[t] = "COMPLETED" => Told(TaskCompleted(t))
               /\ \A r \in Request : At(r, "writeTask") /\ call[r].task = t => task[t] # "ABSENT"
        /\ \A q \in DiligenceRequest :
               /\ item[q] # "ABSENT" => Told(Requested(q))
               /\ \A s \in ItemStatus : item[q] = s => Told(ItemUpdated(q, s))
               /\ \A r \in Request : At(r, "writeItem") /\ call[r].item = q => item[q] # "ABSENT"

\* A new room has nothing to tell.
LEMMA BookInvInit == ASSUME RoomInit PROVE BookInv
  BY DEF RoomInit, HandlerInit, DealInit, DiligenceInit, BookInv, Idle, At, Role, MANAGE_ROLES,
         ItemStatus

\* The book stays complete.
LEMMA BookInvNext ==
    ASSUME RoomTypeOK, BookInv, [RoomNext]_roomStateVars
    PROVE  BookInv'
  <1>1. SlotsOK
    BY HandlersFillSlots DEF RoomTypeOK
  <1>2. scenario' = scenario
    BY <1>1, DealCases, DealMoves DEF Moves, Untouched
  <1>3. SUFFICES ASSUME ~ scenario.fails PROVE BookInv'
    BY <1>2 DEF BookInv
  <1>4. \A e : Told(e) => Told(e)'
    BY <1>1, <1>3, ToldStays
  <1>5. ASSUME NEW r \in Request, NEW e, Records(r, e)'
        PROVE  Told(e)'
    BY <1>5 DEF Records, Told, Recording
  <1> DEFINE DealTold ==
               /\ \A s \in DealStatus : status = s => s = "INITIATED" \/ Told(StatusChanged(s))
               /\ \A u \in User, ro \in Role :
                      role[u] = ro => \/ u = Buyer /\ ro = "BUYER"
                                      \/ u = Seller /\ ro = "SELLER"
                                      \/ Told(ParticipantAdded(u, ro))
               /\ \A t \in Task :
                      /\ task[t] # "ABSENT" => Told(TaskCreated(t))
                      /\ task[t] = "COMPLETED" => Told(TaskCompleted(t))
                      /\ \A r \in Request :
                             At(r, "writeTask") /\ call[r].task = t => task[t] # "ABSENT"
             RequestsTold ==
               \A q \in DiligenceRequest :
                   /\ item[q] # "ABSENT" => Told(Requested(q))
                   /\ \A s \in ItemStatus : item[q] = s => Told(ItemUpdated(q, s))
                   /\ \A r \in Request :
                          At(r, "writeItem") /\ call[r].item = q => item[q] # "ABSENT"
  <1>6. DealTold /\ RequestsTold
    BY <1>3 DEF BookInv
  <1>7. DealTold'
    <2>1. CASE UNCHANGED <<status, role, task, visited>> /\ Untouched(DealSteps)
      <3>1. \A r \in Request : At(r, "writeTask")' => call'[r] = call[r]
        BY <2>1 DEF Untouched, DealSteps, At
      <3> QED
        BY <1>4, <1>6, <2>1, <3>1 DEF At
    <2>2. ASSUME NEW r \in Request, DealArrive(r) \/ DealProceed(r)
          PROVE  DealTold'
      <3>1. DealTelling(r) /\ \A q \in Request : q # r => call'[q] = call[q]
        BY <1>1, <2>2, DealTells, DealMoves DEF Moves
      <3>2. ASSUME NEW s \in DealStatus, status' = s
            PROVE  s = "INITIATED" \/ Told(StatusChanged(s))'
        BY <1>4, <1>5, <1>6, <3>1, <3>2 DEF DealTelling
      <3>3. ASSUME NEW u \in User, NEW ro \in Role, role'[u] = ro
            PROVE  \/ u = Buyer /\ ro = "BUYER"
                   \/ u = Seller /\ ro = "SELLER"
                   \/ Told(ParticipantAdded(u, ro))'
        BY <1>4, <1>5, <1>6, <3>1, <3>3 DEF DealTelling
      <3>4. ASSUME NEW t \in Task
            PROVE  /\ task'[t] # "ABSENT" => Told(TaskCreated(t))'
                   /\ task'[t] = "COMPLETED" => Told(TaskCompleted(t))'
        BY <1>4, <1>5, <1>6, <3>1 DEF DealTelling
      <3>5. ASSUME NEW t \in Task, NEW q \in Request, At(q, "writeTask")', call'[q].task = t
            PROVE  task'[t] # "ABSENT"
        BY <1>6, <3>1, <3>5 DEF DealTelling, At
      <3> QED
        BY <3>2, <3>3, <3>4, <3>5
    <2> QED
      BY <1>1, <2>1, <2>2, DealCases
  <1>8. RequestsTold'
    <2>1. CASE UNCHANGED diligenceVars /\ Apart(DiligenceSteps)
      <3>1. item' = item /\ \A r \in Request : At(r, "writeItem")' => call'[r] = call[r]
        BY <2>1 DEF Apart, Untouched, DiligenceSteps, At, diligenceVars
      <3> QED
        BY <1>4, <1>6, <3>1 DEF At
    <2>2. ASSUME NEW r \in Request, DiligenceArrive(r) \/ DiligenceProceed(r)
          PROVE  RequestsTold'
      <3>1. DiligenceTelling(r) /\ \A q \in Request : q # r => call'[q] = call[q]
        BY <1>1, <2>2, DiligenceTells, DiligenceMoves DEF Moves
      <3>2. ASSUME NEW q \in DiligenceRequest
            PROVE  /\ item'[q] # "ABSENT" => Told(Requested(q))'
                   /\ \A s \in ItemStatus : item'[q] = s => Told(ItemUpdated(q, s))'
        BY <1>4, <1>5, <1>6, <3>1 DEF DiligenceTelling
      <3>3. ASSUME NEW q \in DiligenceRequest, NEW p \in Request, At(p, "writeItem")',
                   call'[p].item = q
            PROVE  item'[q] # "ABSENT"
        BY <1>6, <3>1, <3>3 DEF DiligenceTelling, At
      <3> QED
        BY <3>2, <3>3
    <2> QED
      BY <1>1, <2>1, <2>2, DiligenceCases
  <1> QED
    BY <1>7, <1>8 DEF BookInv

\* The handler in this slot has upserted this signature and has not recorded it yet.
Signing(r, v, u) ==
    /\ call[r].at \in {"countParties", "countSignatures", "writeOutcome"}
    /\ call[r].version = v /\ call[r].user = u

\* Every signature is recorded by the handler that upserted it, after the outcome.
SigningTelling(r) ==
    \A v \in AnyVersion, u \in User :
        /\ <<v, u>> \in signature' => <<v, u>> \in signature \/ Signing(r, v, u)'
        /\ Signing(r, v, u) => Signing(r, v, u)' \/ Records(r, SignedEvent(v, u))'

LEMMA SigningTells ==
    ASSUME RoomTypeOK, NEW r \in Request, AgreementArrive(r) \/ AgreementProceed(r)
    PROVE  SigningTelling(r)
  <1>1. SlotsOK /\ call[r] \in Handler
    BY HandlersFillSlots DEF RoomTypeOK
  <1> USE <1>1
  <1>2. ASSUME UNCHANGED signature,
               call[r].at \notin {"countParties", "countSignatures", "writeOutcome"}
        PROVE  SigningTelling(r)
    BY <1>2 DEF SigningTelling, Signing
  <1>3. \A endpoint, h : Begin(r, endpoint, h) => call[r].at = "idle"
    BY DEF Begin, Idle
  <1>4. CASE AgreementArrive(r)
    BY <1>2, <1>3, <1>4
       DEF AgreementArrive, BeginAgreement, BeginVersion, BeginSign, agreementVars
  <1>5. ASSUME NEW a, InsertAgreement(r, a)
        PROVE  SigningTelling(r)
    BY <1>2, <1>5 DEF InsertAgreement, At
  <1>6. CASE ReadLatest(r) \/ InsertVersion(r) \/ VersionTaken(r) \/ WritePending(r)
    BY <1>2, <1>6 DEF ReadLatest, InsertVersion, VersionTaken, WritePending, At, agreementVars
  <1>7. CASE UpsertSignature(r)
    <2>1. call[r] \in [at : {"upsertSignature", "countParties"}, user : User, of : Agreement,
                       version : AnyVersion]
      BY <1>7, PaperHandlerFields DEF UpsertSignature, At
    <2>2. call'[r] = [call[r] EXCEPT !.at = "countParties"]
      BY <1>7, GoMoves, AtMoves DEF UpsertSignature
    <2>3. /\ call'[r].at = "countParties" /\ call'[r].version = call[r].version
          /\ call'[r].user = call[r].user
      BY <2>1, <2>2
    <2>4. signature' = signature \cup {<<call[r].version, call[r].user>>}
      BY <1>7 DEF UpsertSignature
    <2> QED
      BY <1>7, <2>3, <2>4 DEF SigningTelling, Signing, UpsertSignature, At
  <1>8. CASE CountParties(r)
    <2>1. /\ call'[r].at = "countSignatures" /\ call'[r].version = call[r].version
          /\ call'[r].user = call[r].user /\ UNCHANGED signature
      BY <1>8, GoMoves DEF CountParties, agreementVars
    <2> QED
      BY <2>1 DEF SigningTelling, Signing
  <1>9. CASE CountSignatures(r)
    <2>1. /\ call'[r].at = "writeOutcome" /\ call'[r].version = call[r].version
          /\ call'[r].user = call[r].user /\ UNCHANGED signature
      BY <1>9, GoMoves DEF CountSignatures, agreementVars
    <2> QED
      BY <2>1 DEF SigningTelling, Signing
  <1>10. CASE WriteOutcome(r)
    <2>1. /\ call'[r].at = "event" /\ call'[r].event = SignedEvent(call[r].version, call[r].user)
          /\ UNCHANGED signature
      BY <1>10, GoMoves DEF WriteOutcome, Record
    <2>2. \A v, u : Signing(r, v, u) => Records(r, SignedEvent(v, u))'
      BY <2>1 DEF Signing, Records, At
    <2> QED
      BY <2>1, <2>2 DEF SigningTelling
  <1> QED
    BY <1>4, <1>5, <1>6, <1>7, <1>8, <1>9, <1>10 DEF AgreementProceed

\* Every signature of those who sign nowhere else is told, or its handler is on its way there.
SignedInv ==
    ~ scenario.fails =>
        \A v \in AnyVersion, u \in User \ scenario.elsewhere :
            <<v, u>> \in signature =>
                Told(SignedEvent(v, u)) \/ \E r \in Request : Signing(r, v, u)

\* No signature is lost on the way.
LEMMA SignedInvNext ==
    ASSUME RoomTypeOK, SignedInv, [RoomNext]_roomStateVars
    PROVE  SignedInv'
  <1>1. SlotsOK
    BY HandlersFillSlots DEF RoomTypeOK
  <1>2. scenario' = scenario
    BY <1>1, DealCases, DealMoves DEF Moves, Untouched
  <1>3. SUFFICES ASSUME ~ scenario.fails, NEW v \in AnyVersion,
                        NEW u \in User \ scenario.elsewhere, <<v, u>> \in signature'
                 PROVE  Told(SignedEvent(v, u))' \/ \E r \in Request : Signing(r, v, u)'
    BY <1>2 DEF SignedInv
  <1>4. Told(SignedEvent(v, u)) => Told(SignedEvent(v, u))'
    BY <1>1, <1>3, ToldStays
  <1>5. CASE UNCHANGED agreementVars /\ Apart(AgreementSteps)
    <2>1. \A r \in Request : Signing(r, v, u) => Signing(r, v, u)'
      BY <1>3, <1>5 DEF Apart, AgreementSteps, Signing
    <2> QED
      BY <1>3, <1>4, <1>5, <2>1 DEF SignedInv, agreementVars
  <1>6. ASSUME NEW r \in Request, AgreementArrive(r) \/ AgreementProceed(r)
        PROVE  Told(SignedEvent(v, u))' \/ \E q \in Request : Signing(q, v, u)'
    <2>1. SigningTelling(r) /\ \A q \in Request : q # r => call'[q] = call[q]
      BY <1>1, <1>6, SigningTells, AgreementMoves DEF Moves
    <2>2. Records(r, SignedEvent(v, u))' => Told(SignedEvent(v, u))'
      BY DEF Records, Told, Recording
    <2>3. CASE <<v, u>> \notin signature
      BY <1>3, <2>1, <2>3 DEF SigningTelling
    <2>4. CASE Told(SignedEvent(v, u))
      BY <1>4, <2>4
    <2>5. ASSUME NEW q \in Request, Signing(q, v, u)
          PROVE  Told(SignedEvent(v, u))' \/ \E p \in Request : Signing(p, v, u)'
      <3>1. CASE q = r
        BY <2>1, <2>2, <2>5, <3>1 DEF SigningTelling
      <3>2. CASE q # r
        BY <2>1, <2>5, <3>2 DEF Signing
      <3> QED
        BY <3>1, <3>2
    <2> QED
      BY <1>3, <2>3, <2>4, <2>5 DEF SignedInv
  <1>7. CASE AgreementOutside
    <2>1. <<v, u>> \in signature /\ call' = call
      BY <1>3, <1>7, SignedElsewhere
    <2>2. \A r \in Request : Signing(r, v, u) => Signing(r, v, u)'
      BY <2>1 DEF Signing
    <2> QED
      BY <1>3, <1>4, <2>1, <2>2 DEF SignedInv
  <1> QED
    BY <1>1, <1>5, <1>6, <1>7, AgreementCases

\* This entry is on the access log, or a handler is about to write it.
Written(entry) == KeptEntry(entry) \subseteq accessLog \/ \E r \in Request : Logs(r, entry)

\* A handler that is about to write entries does write them, one by one.
LEMMA LogCases ==
    ASSUME RoomTypeOK, NEW r \in Request, DocumentArrive(r) \/ DocumentProceed(r)
    PROVE  /\ accessLog \subseteq accessLog'
           /\ At(r, "log") => LogAccess(r)
  <1>1. \A endpoint, h : Begin(r, endpoint, h) => call[r].at = "idle"
    BY DEF Begin, Idle
  <1> QED
    BY <1>1 DEF DocumentArrive, DocumentProceed, BeginUpload, BeginDownload, BeginRemove,
                BeginRevoke, BeginGrant, PutObject, InsertDocument, UpsertGrant, WriteRevoked,
                WriteDeleted, LogAccess, At, documentVars

\* What is on the access log, or about to be, stays so.
LEMMA WrittenStays ==
    ASSUME RoomTypeOK, ~ scenario.fails, [RoomNext]_roomStateVars, NEW e, Written(e)
    PROVE  Written(e)'
  <1>1. SlotsOK
    BY HandlersFillSlots DEF RoomTypeOK
  <1>2. KeptEntry(e)' = KeptEntry(e)
    BY <1>1, EventCases DEF KeptEntry
  <1>3. CASE UNCHANGED documentVars /\ Apart(DocumentSteps)
    <2>1. \A q \in Request : Logs(q, e) => Logs(q, e)'
      BY <1>3 DEF Apart, DocumentSteps, Logs, At
    <2> QED
      BY <1>2, <1>3, <2>1 DEF Written, documentVars
  <1>4. CASE DocumentTime /\ UNCHANGED roomVars
    BY <1>2, <1>4 DEF DocumentTime, ExpireGrant, roomVars, handlerVars, Written, Logs, At
  <1>5. ASSUME NEW r \in Request, DocumentArrive(r) \/ DocumentProceed(r)
        PROVE  Written(e)'
    <2>1. accessLog \subseteq accessLog' /\ (At(r, "log") => LogAccess(r))
      BY <1>5, LogCases
    <2>2. \A q \in Request : q # r => call'[q] = call[q]
      BY <1>1, <1>5, DocumentMoves DEF Moves
    <2>3. CASE KeptEntry(e) \subseteq accessLog
      BY <1>2, <2>1, <2>3 DEF Written
    <2>4. ASSUME NEW q \in Request, q # r, Logs(q, e)
          PROVE  Written(e)'
      BY <2>2, <2>4 DEF Written, Logs, At
    <2>5. CASE Logs(r, e)
      <3>1. LogAccess(r)
        BY <2>1, <2>5 DEF Logs
      <3>2. CASE Logs(r, e)'
        BY <3>2 DEF Written
      <3>3. CASE e = Head(call[r].entries)
        <4>1. KeptEntry(e) \subseteq accessLog'
          BY <3>1, <3>3, LogEffects
        <4> QED
          BY <1>2, <4>1 DEF Written
      <3> QED
        BY <2>5, <3>1, <3>2, <3>3, LogEffects
    <2> QED
      BY <2>3, <2>4, <2>5 DEF Written
  <1> QED
    BY <1>1, <1>3, <1>4, <1>5, DocumentCases

\* The handler in this slot is about to log this action on this document.
WillLog(r, action, d) == \E u \in User : Logs(r, <<action, d, u>>)

\* Every upload, grant, revocation and deletion is logged by the handler that made it.
LogTelling(r) ==
    \A d \in Document :
        /\ DocumentExists(d)' => \/ DocumentExists(d)
                                 \/ WillLog(r, "UPLOADED", d)' /\ WillLog(r, "DOCUMENT_UPLOADED", d)'
        /\ DocumentExists(d)' /\ document'[d].deleted =>
               \/ DocumentExists(d) /\ document[d].deleted
               \/ WillLog(r, "DELETED", d)'
        /\ \A u \in User :
               /\ grant'[d][u] # NoGrant => grant[d][u] # NoGrant \/ WillLog(r, "ACCESS_GRANTED", d)'
               /\ grant'[d][u].revoked => grant[d][u].revoked \/ WillLog(r, "ACCESS_REVOKED", d)'

LEMMA LogTells ==
    ASSUME RoomTypeOK, NEW r \in Request, DocumentArrive(r) \/ DocumentProceed(r)
    PROVE  LogTelling(r)
  <1> DEFINE Row == [by : User, place : Place, deleted : BOOLEAN]
             G   == [expiry : {"absent", "never", "later", "passed"}, revoked : BOOLEAN]
  <1>1. /\ SlotsOK /\ call[r] \in Handler
        /\ document \in [Document -> {NoDocument} \cup Row]
        /\ grant \in [Document -> [User -> G]]
    BY HandlersFillSlots DEF RoomTypeOK, DocumentRowsOK
  <1>2. CASE UNCHANGED <<document, grant>>
    BY <1>2 DEF LogTelling, DocumentExists
  <1>3. CASE InsertDocument(r)
    <2>1. call[r] \in [at : {"insertDocument"}, user : User, place : Place, document : Document]
      BY <1>1, <1>3, FileHandlerFields DEF InsertDocument, At
    <2>2. PICK c \in Document, w \in User, place \in Place :
              c = call[r].document /\ w = call[r].user /\ place = call[r].place
      BY <2>1
    <2> DEFINE f   == <<"UPLOADED", c, w>>
               g   == <<"DOCUMENT_UPLOADED", c, w>>
               row == [by |-> w, place |-> place, deleted |-> FALSE]
    <2>3. Go(r, Logging(<<f, g>>)) /\ document' = [document EXCEPT ![c] = row] /\ UNCHANGED grant
      BY <1>3, <2>2 DEF InsertDocument
    <2>4. WillLog(r, "UPLOADED", c)' /\ WillLog(r, "DOCUMENT_UPLOADED", c)'
      <3>1. call'[r] = Logging(<<f, g>>)
        <4>1. "at" \in DOMAIN Logging(<<f, g>>)
          BY DEF Logging
        <4> QED
          BY <1>1, <2>3, <4>1, GoMoves
      <3>2. Logs(r, f)' /\ Logs(r, g)'
        <4> HIDE DEF f, g
        <4>1. DOMAIN <<f, g>> = {1, 2} /\ <<f, g>>[1] = f /\ <<f, g>>[2] = g
          OBVIOUS
        <4>2. call'[r].at = "log" /\ call'[r].entries = <<f, g>>
          BY <3>1 DEF Logging
        <4> QED
          BY <4>1, <4>2 DEF Logs, At
      <3> QED
        BY <3>2 DEF WillLog
    <2>5. /\ document'[c] = row /\ ~ document'[c].deleted
          /\ \A d \in Document : d # c => document'[d] = document[d]
      BY <1>1, <2>3
    <2> QED
      BY <2>3, <2>4, <2>5 DEF LogTelling, DocumentExists
  <1>4. CASE UpsertGrant(r)
    <2> DEFINE x == IF call[r].expiry = "never" /\ grant[call[r].document][call[r].whom] # NoGrant
                      THEN grant[call[r].document][call[r].whom].expiry
                      ELSE call[r].expiry
               h == [revoked |-> FALSE, expiry |-> x]
    <2>1. call[r] \in [at : {"upsertGrant"}, user : User, document : Document, whom : User,
                       expiry : {"never", "later"}]
      BY <1>1, <1>4, FileHandlerFields DEF UpsertGrant, At
    <2>2. PICK c \in Document, v \in User, w \in User :
              c = call[r].document /\ v = call[r].whom /\ w = call[r].user
      BY <2>1
    <2> DEFINE f == <<"ACCESS_GRANTED", c, w>>
    <2>3. Go(r, Logging(<<f>>)) /\ grant' = [grant EXCEPT ![c][v] = h] /\ UNCHANGED document
      BY <1>4, <2>2 DEF UpsertGrant
    <2>4. WillLog(r, "ACCESS_GRANTED", c)'
      <3>1. call'[r] = Logging(<<f>>)
        <4>1. "at" \in DOMAIN Logging(<<f>>)
          BY DEF Logging
        <4> QED
          BY <1>1, <2>3, <4>1, GoMoves
      <3>2. Logs(r, f)'
        BY <3>1, LogsOne
      <3> QED
        BY <3>2 DEF WillLog
    <2>5. ~ h.revoked
      OBVIOUS
    <2> HIDE DEF h
    <2>6. /\ ~ grant'[c][v].revoked
          /\ \A d \in Document, u \in User : d # c \/ u # v => grant'[d][u] = grant[d][u]
      BY <1>1, <2>3, <2>5
    <2> QED
      BY <2>3, <2>4, <2>6 DEF LogTelling, DocumentExists
  <1>5. CASE WriteRevoked(r)
    <2>1. call[r] \in [at : {"writeRevoked"}, user : User, document : Document, whom : User]
      BY <1>1, <1>5, FileHandlerFields DEF WriteRevoked, At
    <2>2. PICK c \in Document, v \in User, w \in User :
              c = call[r].document /\ v = call[r].whom /\ w = call[r].user
      BY <2>1
    <2> DEFINE f == <<"ACCESS_REVOKED", c, w>>
               h == [grant[c][v] EXCEPT !.revoked = TRUE]
    <2>3. /\ Go(r, Logging(<<f>>)) /\ UNCHANGED document
          /\ grant' = IF grant[c][v] = NoGrant THEN grant ELSE [grant EXCEPT ![c][v] = h]
      BY <1>5, <2>2 DEF WriteRevoked
    <2>4. WillLog(r, "ACCESS_REVOKED", c)'
      <3>1. call'[r] = Logging(<<f>>)
        <4>1. "at" \in DOMAIN Logging(<<f>>)
          BY DEF Logging
        <4> QED
          BY <1>1, <2>3, <4>1, GoMoves
      <3>2. Logs(r, f)'
        BY <3>1, LogsOne
      <3> QED
        BY <3>2 DEF WillLog
    <2>5. CASE grant[c][v] = NoGrant
      BY <1>2, <2>3, <2>5
    <2>6. CASE grant[c][v] # NoGrant
      <3> HIDE DEF h
      <3>1. \A d \in Document, u \in User : d # c \/ u # v => grant'[d][u] = grant[d][u]
        BY <1>1, <2>3, <2>6
      <3> QED
        BY <2>3, <2>4, <2>6, <3>1 DEF LogTelling, DocumentExists
    <2> QED
      BY <2>5, <2>6
  <1>6. CASE WriteDeleted(r)
    <2>1. call[r] \in [at : {"writeDeleted"}, user : User, document : Document]
      BY <1>1, <1>6, FileHandlerFields DEF WriteDeleted, At
    <2>2. PICK c \in Document, w \in User : c = call[r].document /\ w = call[r].user
      BY <2>1
    <2> DEFINE f == <<"DELETED", c, w>>
    <2>3. /\ Go(r, Logging(<<f>>)) /\ UNCHANGED <<grant, stored>>
          /\ document' = [document EXCEPT ![c].deleted = TRUE]
      BY <1>6, <2>2 DEF WriteDeleted
    <2>4. WillLog(r, "DELETED", c)'
      <3>1. call'[r] = Logging(<<f>>)
        <4>1. "at" \in DOMAIN Logging(<<f>>)
          BY DEF Logging
        <4> QED
          BY <1>1, <2>3, <4>1, GoMoves
      <3>2. Logs(r, f)'
        BY <3>1, LogsOne
      <3> QED
        BY <3>2 DEF WillLog
    <2>5. \A d \in Document : DocumentExists(d)' => DocumentExists(d)
      <3>1. \A d \in Document : d # c => document'[d] = document[d]
        BY <1>1, <2>3
      <3>2. document[c] = NoDocument => document'[c] = NoDocument
        BY <1>1, <2>3 DEF NoDocument
      <3> QED
        BY <3>1, <3>2 DEF DocumentExists
    <2>6. \A d \in Document : d # c => document'[d] = document[d]
      BY <1>1, <2>3
    <2> QED
      BY <2>3, <2>4, <2>5, <2>6 DEF LogTelling
  <1>7. CASE DocumentArrive(r)
    <2>1. UNCHANGED <<document, grant>>
      BY <1>7 DEF DocumentArrive, BeginUpload, BeginDownload, BeginRemove, BeginRevoke, BeginGrant,
                  documentVars
    <2> QED
      BY <1>2, <2>1
  <1>8. CASE LogAccess(r) \/ \E d \in Document : PutObject(r, d)
    <2>1. UNCHANGED <<document, grant>>
      BY <1>8 DEF LogAccess, PutObject
    <2> QED
      BY <1>2, <2>1
  <1> QED
    BY <1>3, <1>4, <1>5, <1>6, <1>7, <1>8 DEF DocumentProceed

\* This action on this document is on the access log, or a handler is about to write it there.
OnRecord(action, d) == \E u \in User : Written(<<action, d, u>>)

\* The access log is complete.
RecordInv ==
    ~ scenario.fails =>
        \A d \in Document :
            /\ DocumentExists(d) => OnRecord("UPLOADED", d) /\ OnRecord("DOCUMENT_UPLOADED", d)
            /\ DocumentExists(d) /\ document[d].deleted => OnRecord("DELETED", d)
            /\ \A u \in User :
                   /\ grant[d][u] # NoGrant => OnRecord("ACCESS_GRANTED", d)
                   /\ grant[d][u].revoked => OnRecord("ACCESS_REVOKED", d)

\* It stays so.
LEMMA RecordInvNext ==
    ASSUME RoomTypeOK, RecordInv, [RoomNext]_roomStateVars
    PROVE  RecordInv'
  <1>1. SlotsOK
    BY HandlersFillSlots DEF RoomTypeOK
  <1>2. scenario' = scenario
    BY <1>1, DealCases, DealMoves DEF Moves, Untouched
  <1>3. SUFFICES ASSUME ~ scenario.fails PROVE RecordInv'
    BY <1>2 DEF RecordInv
  <1>4. \A action, d : OnRecord(action, d) => OnRecord(action, d)'
    BY <1>3, WrittenStays DEF OnRecord
  <1>5. CASE UNCHANGED <<document, grant>>
    BY <1>3, <1>4, <1>5 DEF RecordInv, DocumentExists
  <1>6. ASSUME NEW r \in Request, DocumentArrive(r) \/ DocumentProceed(r)
        PROVE  RecordInv'
    <2>1. LogTelling(r)
      BY <1>6, LogTells
    <2>2. \A action, d : WillLog(r, action, d)' => OnRecord(action, d)'
      BY DEF WillLog, OnRecord, Written
    <2>3. ASSUME NEW d \in Document
          PROVE  /\ DocumentExists(d)' => OnRecord("UPLOADED", d)' /\ OnRecord("DOCUMENT_UPLOADED", d)'
                 /\ DocumentExists(d)' /\ document'[d].deleted => OnRecord("DELETED", d)'
      BY <1>3, <1>4, <2>1, <2>2 DEF LogTelling, RecordInv
    <2>4. ASSUME NEW d \in Document, NEW u \in User
          PROVE  /\ grant'[d][u] # NoGrant => OnRecord("ACCESS_GRANTED", d)'
                 /\ grant'[d][u].revoked => OnRecord("ACCESS_REVOKED", d)'
      BY <1>3, <1>4, <2>1, <2>2 DEF LogTelling, RecordInv
    <2> QED
      BY <2>3, <2>4 DEF RecordInv
  <1>7. CASE DocumentTime
    <2>1. PICK c \in Document, v \in User : ExpireGrant(c, v)
      BY <1>7 DEF DocumentTime
    <2> DEFINE g == [grant[c][v] EXCEPT !.expiry = "passed"]
    <2>2. /\ grant' = [grant EXCEPT ![c][v] = g] /\ UNCHANGED document
          /\ grant[c][v].expiry = "later"
      BY <2>1 DEF ExpireGrant
    <2>3. grant \in [Document -> [User -> [expiry : {"absent", "never", "later", "passed"},
                                           revoked : BOOLEAN]]]
      BY DEF RoomTypeOK, DocumentRowsOK
    <2>4. g.revoked = grant[c][v].revoked /\ grant[c][v] # NoGrant
      BY <2>2, <2>3 DEF NoGrant
    <2> HIDE DEF g
    <2>5. /\ grant'[c][v] = g
          /\ \A d \in Document, u \in User : d # c \/ u # v => grant'[d][u] = grant[d][u]
      BY <2>2, <2>3
    <2>6. ASSUME NEW d \in Document, NEW u \in User
          PROVE  /\ grant'[d][u] # NoGrant => grant[d][u] # NoGrant
                 /\ grant'[d][u].revoked => grant[d][u].revoked
      BY <2>4, <2>5
    <2> QED
      BY <1>3, <1>4, <2>2, <2>6 DEF RecordInv, DocumentExists
  <1> QED
    BY <1>1, <1>5, <1>6, <1>7, DocumentCases DEF documentVars

\* What is told of the whole room.
TellingInv == BookInv /\ SignedInv /\ RecordInv

\* Whatever overlaps in the room.
THEOREM TellingInvHolds == RoomSpec => []TellingInv
  <1>1. RoomInit => TellingInv
    BY BookInvInit
       DEF TellingInv, SignedInv, RecordInv, RoomInit, AgreementInit, DocumentInit, DocumentExists,
           NoGrant
  <1>2. TellingInv /\ RoomTypeOK /\ [RoomNext]_roomStateVars => TellingInv'
    BY BookInvNext, SignedInvNext, RecordInvNext DEF TellingInv
  <1> QED
    BY <1>1, <1>2, RoomTypesHold, PTL DEF RoomSpec

\* Without failures the timeline tells the status, every role, task, request, item and
\* signature of the room, and the access log every upload, grant, revocation and deletion, or a
\* handler is about to: whichever service wrote it and whoever overwrote whom meanwhile.
THEOREM TheRoomIsTold == RoomSpec => []RoomTold
  <1>1. ASSUME RoomTypeOK, TellingInv, ~ scenario.fails
        PROVE  RoomTold
    <2>1. TimelineTells
      <3>1. status \in DealStatus /\ role \in [User -> Role \cup {"NONE"}]
        BY <1>1 DEF RoomTypeOK, DealRowsOK
      <3> QED
        BY <1>1, <3>1 DEF TellingInv, BookInv, TimelineTells, Participant
    <2>2. DiligenceTold
      <3>1. item \in [DiligenceRequest -> ItemStatus \cup {"ABSENT", "REQUESTED"}]
        BY <1>1 DEF RoomTypeOK, DiligenceRowsOK
      <3> QED
        BY <1>1, <3>1 DEF TellingInv, BookInv, DiligenceTold
    <2>3. SignaturesTold
      BY <1>1 DEF TellingInv, SignedInv, SignaturesTold, Signing, Signers
    <2>4. DocumentsLogged
      <3>1. ASSUME NEW action, NEW d \in Document, OnRecord(action, d)
            PROVE  Logged(action, d)
        <4>1. PICK u \in User : Written(<<action, d, u>>)
          BY <3>1 DEF OnRecord
        <4>2. <<action, d, u>>[1] = action /\ <<action, d, u>>[2] = d
          OBVIOUS
        <4> DEFINE e == <<action, d, u>>
        <4>3. KeptEntry(e) \subseteq accessLog => Logged(action, d)
          BY DEF Logged
        <4>4. e[1] = action /\ e[2] = d
          BY <4>2
        <4>5. Written(e)
          BY <4>1
        <4> HIDE DEF e
        <4> QED
          BY <4>3, <4>4, <4>5 DEF Written, Logs, Logged
      <3> QED
        BY <1>1, <3>1 DEF TellingInv, RecordInv, DocumentsLogged
    <2> QED
      BY <2>1, <2>2, <2>3, <2>4 DEF RoomTold
  <1>2. RoomTypeOK /\ TellingInv => RoomTold
    BY <1>1 DEF RoomTold
  <1> QED
    BY <1>2, TellingInvHolds, RoomTypesHold, PTL

=============================================================================
