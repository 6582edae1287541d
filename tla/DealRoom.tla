------------------------------ MODULE DealRoom ------------------------------
(***************************************************************************)
(* One deal room with all of its services at once: the handlers of         *)
(* DealsService, DueDiligenceService, AgreementsService,                   *)
(* TransactionsService, WebhooksService and DocumentsService share the     *)
(* slots, the room's participants, its status and its timeline.            *)
(***************************************************************************)
EXTENDS DueDiligence, Agreements, Payments, Documents

roomStateVars == <<roomVars, diligenceVars, agreementVars, paymentVars, documentVars>>

RoomInit ==
    /\ HandlerInit
    /\ DealInit
    /\ DiligenceInit
    /\ AgreementInit
    /\ PaymentInit
    /\ DocumentInit

\* A client or the payment provider calls an endpoint.
RoomArrive(r) ==
    \/ DealArrive(r) /\ UNCHANGED <<diligenceVars, agreementVars, paymentVars, documentVars>>
    \/ DiligenceArrive(r) /\ UNCHANGED <<agreementVars, paymentVars, documentVars>>
    \/ AgreementArrive(r) /\ UNCHANGED <<diligenceVars, paymentVars, documentVars>>
    \/ PaymentArrive(r) /\ UNCHANGED <<diligenceVars, agreementVars, documentVars>>
    \/ DocumentArrive(r) /\ UNCHANGED <<diligenceVars, agreementVars, paymentVars>>

\* The server takes the next step of a handler.
RoomProceed(r) ==
    \/ DealProceed(r) /\ UNCHANGED <<diligenceVars, agreementVars, paymentVars, documentVars>>
    \/ DiligenceProceed(r) /\ UNCHANGED <<agreementVars, paymentVars, documentVars>>
    \/ AgreementProceed(r) /\ UNCHANGED <<diligenceVars, paymentVars, documentVars>>
    \/ PaymentProceed(r) /\ UNCHANGED <<diligenceVars, agreementVars, documentVars>>
    \/ DocumentProceed(r) /\ UNCHANGED <<diligenceVars, agreementVars, paymentVars>>

RoomFail(r) ==
    \/ Fail(r) /\ UNCHANGED <<dealVars, diligenceVars, agreementVars, paymentVars, documentVars>>
    \/ DismissOnError(r) /\ UNCHANGED <<diligenceVars, agreementVars, documentVars>>

\* What happens outside the server.
RoomOutside ==
    \/ Provider /\ UNCHANGED <<diligenceVars, agreementVars, documentVars>>
    \/ DocumentTime /\ UNCHANGED <<diligenceVars, agreementVars, paymentVars>>
    \/ AgreementOutside /\ UNCHANGED <<diligenceVars, paymentVars, documentVars>>

RoomNext ==
    \/ \E r \in Request : RoomArrive(r) \/ RoomProceed(r) \/ RoomFail(r)
    \/ RoomOutside

RoomSpec == RoomInit /\ [][RoomNext]_roomStateVars

\* The event loop returns to every handler whose await has settled, and the
\* provider keeps delivering an event it has no answer for whenever the server
\* can take it.  Nothing makes a client call.
FairRoomSpec ==
    /\ RoomSpec
    /\ \A r \in Request : WF_roomStateVars(RoomProceed(r))
    /\ \A e \in EventId : SF_roomStateVars(Redeliver(e) /\ UNCHANGED <<diligenceVars, agreementVars, documentVars>>)

-----------------------------------------------------------------------------
(* What holds of the whole room. *)

RoomEvent ==
    [type : {"OFFER_ACCEPTED", "DEAL_STATUS_CHANGED", "PARTICIPANT_ADDED", "TASK_CREATED",
             "TASK_COMPLETED", "DUE_DILIGENCE_REQUESTED", "DUE_DILIGENCE_ITEM_UPDATED",
             "AGREEMENT_CREATED", "AGREEMENT_VERSION_ADDED", "AGREEMENT_SIGNED",
             "TRANSACTION_STARTED", "TRANSACTION_COMPLETED"},
     subject : {"deal"} \cup User \cup Task \cup DiligenceRequest \cup Agreement \cup AnyVersion,
     value : DealStatus \cup Role \cup TaskStatus \cup ItemStatus \cup AgreementStatus
             \cup PaymentStatus \cup {"REQUESTED"} \cup User]

EventHandler ==
    [at : {"event", "findOthers"}, user : User, event : RoomEvent, tell : BOOLEAN]
    \cup [at : {"notify"}, event : RoomEvent, others : SUBSET User]

Handler ==
    {Idle} \cup EventHandler \cup DealHandler \cup DiligenceHandler
    \cup AgreementHandler \cup PaymentHandler \cup DocumentHandler

\* Types of all rows and of the handlers in flight.
RoomTypeOK ==
    /\ scenario \in Scenario
    /\ DealRowsOK
    /\ DiligenceRowsOK
    /\ AgreementRowsOK
    /\ PaymentRowsOK
    /\ DocumentRowsOK
    /\ timeline \subseteq RoomEvent
    /\ notices \subseteq (User \X RoomEvent)
    /\ call \in [Request -> Handler]

\* Without failures the timeline tells the whole story of the room, whichever of
\* its services wrote it and however their handlers overlapped: the status, every
\* role and task, every request and item status, and every signature of those who sign
\* nowhere else; and the access log tells the story of the documents.
RoomTold ==
    ~ scenario.fails => TimelineTells /\ DiligenceTold /\ SignaturesTold /\ DocumentsLogged

\* Documents are kept and given out as their rows say.
DocumentsKept == DocumentsStored /\ DownloadsExplained

\* Without failures and under fair scheduling everybody who was to be told is told,
\* of every change of status and of every due diligence request.
RoomHeard == OthersHear /\ RequestHeard

=============================================================================
