------------------------------ MODULE Payments ------------------------------
(***************************************************************************)
(* TransactionsService and WebhooksService: the payment of a deal room and *)
(* the provider's events about it, next to the handlers of Deals.          *)
(*                                                                         *)
(* The provider is outside the source.  The code that would ask it for a   *)
(* payment and store its providerRef is not written yet (ARCHITECTURE.md,  *)
(* "Payments are structurally real"), so nothing is applied today; here it *)
(* is one external step, Wire.  The provider sends events about a payment  *)
(* it knows, in some order, delivers each at least once and again until it *)
(* is answered 2xx, and maybe once more.                                   *)
(***************************************************************************)
EXTENDS Deals, Naturals, Sequences

CONSTANT Says   \* the event types of the provider's events, in sending order

\* A scenario also has: events, a bound on the events the provider sends.

EventId == DOMAIN Says

VARIABLES
    payment,    \* the transaction row of the deal
    history,    \* its transaction_events, as the statuses they report
    recorded,   \* webhook_events rows: event ids, unique
    sent,       \* the provider has sent the events 1 .. sent
    answered,   \* the events the provider has an answer for
    applied     \* history: the events applied, in that order

paymentVars == <<payment, history, recorded, sent, answered, applied>>

NoPayment == [status |-> "ABSENT", ref |-> FALSE]

\* Event types; "ignored" stands for those the table does not list.
STATUS_BY_EVENT_TYPE ==
    [succeeded |-> "COMPLETED", payment_failed |-> "FAILED",
     canceled  |-> "CANCELLED", refunded       |-> "REFUNDED"]

PaymentStatus == {"ABSENT", "PENDING", "COMPLETED", "FAILED", "CANCELLED", "REFUNDED"}

ASSUME SaysAssumption == Says \in Seq(DOMAIN STATUS_BY_EVENT_TYPE \cup {"ignored"})

Started == Event("TRANSACTION_STARTED", "deal", "PENDING")

-----------------------------------------------------------------------------
(***************************************************************************)
(* POST /deals/:dealId/transaction.  The stage is checked on the deal that *)
(* was read; the upsert that follows creates a row with a nested event,    *)
(* which Prisma does by a SELECT and an INSERT under the unique dealId.    *)
(***************************************************************************)
BeginPay(r, u) ==
    /\ Participant(u)
    /\ Begin(r, "pay", [at |-> "readStage", user |-> u])
    /\ UNCHANGED <<dealVars, paymentVars>>

\* Slip: the stage is not looked at.
ReadAnyStage(r) ==
    /\ At(r, "readStage")
    /\ Go(r, [call[r] EXCEPT !.at = "findPayment"])
    /\ UNCHANGED <<dealVars, paymentVars>>

ReadStage(r) ==
    /\ At(r, "readStage")
    /\ Go(r, IF status = "TRANSACTION" THEN [call[r] EXCEPT !.at = "findPayment"] ELSE Idle)
    /\ UNCHANGED <<dealVars, paymentVars>>

FindPayment(r) ==
    /\ At(r, "findPayment")
    /\ Go(r, IF payment = NoPayment
               THEN [call[r] EXCEPT !.at = "insertPayment"]
               ELSE Record(call[r].user, Started))
    /\ UNCHANGED <<dealVars, paymentVars>>

\* Slip: the row is written over whatever is there.
InsertPaymentOver(r) ==
    /\ At(r, "insertPayment")
    /\ payment' = [payment EXCEPT !.status = "PENDING"]
    /\ history' = Append(history, "PENDING")
    /\ Go(r, Record(call[r].user, Started))
    /\ UNCHANGED <<dealVars, recorded, sent, answered, applied>>

InsertPayment(r) ==
    /\ At(r, "insertPayment")
    /\ payment = NoPayment
    /\ payment' = [status |-> "PENDING", ref |-> FALSE]
    /\ history' = Append(history, "PENDING")
    /\ Go(r, Record(call[r].user, Started))
    /\ UNCHANGED <<dealVars, recorded, sent, answered, applied>>

\* Another call has inserted it meanwhile: the constraint is violated.
PaymentTaken(r) ==
    /\ At(r, "insertPayment")
    /\ payment # NoPayment
    /\ Go(r, Idle)
    /\ UNCHANGED <<dealVars, paymentVars>>

-----------------------------------------------------------------------------
(* The provider. *)

Wire ==
    /\ payment # NoPayment /\ ~ payment.ref
    /\ payment' = [payment EXCEPT !.ref = TRUE]
    /\ UNCHANGED <<roomVars, history, recorded, sent, answered, applied>>

Send ==
    /\ payment.ref
    /\ sent < scenario.events /\ sent < Len(Says)
    /\ sent' = sent + 1
    /\ UNCHANGED <<roomVars, payment, history, recorded, answered, applied>>

Deliver(r, e) ==
    /\ e <= sent
    /\ Begin(r, "webhook", [at |-> "recordEvent", event |-> e])
    /\ UNCHANGED <<dealVars, paymentVars>>

\* The handler answers { received: true }.
Acknowledge(r) ==
    /\ answered' = answered \cup {call[r].event}
    /\ Go(r, Idle)

-----------------------------------------------------------------------------
(***************************************************************************)
(* POST /webhooks/payment: the event id is inserted under its unique       *)
(* constraint, and any error of that insert is taken for "already          *)
(* processed".  Only then is the event applied.                            *)
(***************************************************************************)
\* Slip: the id is recorded, and a duplicate goes on all the same.
RecordEventOnly(r) ==
    /\ At(r, "recordEvent")
    /\ recorded' = recorded \cup {call[r].event}
    /\ Go(r, [call[r] EXCEPT !.at = "route"])
    /\ UNCHANGED <<dealVars, payment, history, sent, answered, applied>>

\* Slip: an event is answered as soon as it is recorded.
RecordAndAnswer(r) ==
    /\ At(r, "recordEvent")
    /\ call[r].event \notin recorded
    /\ recorded' = recorded \cup {call[r].event}
    /\ Acknowledge(r)
    /\ UNCHANGED <<dealVars, payment, history, sent, applied>>

RecordEvent(r) ==
    /\ At(r, "recordEvent")
    /\ call[r].event \notin recorded
    /\ recorded' = recorded \cup {call[r].event}
    /\ Go(r, [call[r] EXCEPT !.at = "route"])
    /\ UNCHANGED <<dealVars, payment, history, sent, answered, applied>>

DismissDuplicate(r) ==
    /\ At(r, "recordEvent")
    /\ call[r].event \in recorded
    /\ Acknowledge(r)
    /\ UNCHANGED <<dealVars, payment, history, recorded, sent, applied>>

\* The insert fails for another reason, before or after it took effect.
DismissOnError(r) ==
    /\ scenario.fails
    /\ At(r, "recordEvent")
    /\ recorded' \in {recorded, recorded \cup {call[r].event}}
    /\ Acknowledge(r)
    /\ UNCHANGED <<dealVars, payment, history, sent, applied>>

\* The event type has a status, and a transaction has its providerRef.
Routed(e) == Says[e] \in DOMAIN STATUS_BY_EVENT_TYPE /\ payment.ref

Route(r) ==
    /\ At(r, "route")
    /\ IF Routed(call[r].event)
         THEN Go(r, [call[r] EXCEPT !.at = "apply"]) /\ UNCHANGED answered
         ELSE Acknowledge(r)
    /\ UNCHANGED <<dealVars, payment, history, recorded, sent, applied>>

\* The status and its transaction event are one $transaction; the status is
\* overwritten whatever it is.
Apply(r) ==
    /\ At(r, "apply")
    /\ LET new == STATUS_BY_EVENT_TYPE[Says[call[r].event]] IN
       /\ payment' = [payment EXCEPT !.status = new]
       /\ history' = Append(history, new)
       /\ IF new = "COMPLETED"
            THEN Go(r, [call[r] EXCEPT !.at = "tellCompleted"]) /\ UNCHANGED answered
            ELSE Acknowledge(r)
    /\ applied' = Append(applied, call[r].event)
    /\ UNCHANGED <<dealVars, recorded, sent>>

TellCompleted(r) ==
    /\ At(r, "tellCompleted")
    /\ timeline' = timeline \cup Kept(Event("TRANSACTION_COMPLETED", "deal", "COMPLETED"))
    /\ Acknowledge(r)
    /\ UNCHANGED <<status, role, task, notices, visited,
                   payment, history, recorded, sent, applied>>

-----------------------------------------------------------------------------
PaymentInit ==
    /\ payment = NoPayment
    /\ history = <<>>
    /\ recorded = {}
    /\ sent = 0
    /\ answered = {}
    /\ applied = <<>>

PaymentProceed(r) ==
    \/ ReadStage(r)
    \/ FindPayment(r)
    \/ InsertPayment(r)
    \/ PaymentTaken(r)
    \/ RecordEvent(r)
    \/ DismissDuplicate(r)
    \/ Route(r)
    \/ Apply(r)
    \/ TellCompleted(r)

\* The provider redelivers what it has no answer for.
Redeliver(e) == e \notin answered /\ \E r \in Request : Deliver(r, e)

PaymentArrive(r) ==
    \/ \E u \in scenario.people : BeginPay(r, u)
    \/ \E e \in EventId : Deliver(r, e)

Provider == Wire \/ Send

-----------------------------------------------------------------------------
PaymentHandler ==
    [at : {"readStage", "findPayment", "insertPayment"}, user : User]
    \cup [at : {"recordEvent", "route", "apply", "tellCompleted"}, event : EventId]

PaymentRowsOK ==
    /\ payment \in [status : PaymentStatus, ref : BOOLEAN]
    /\ history \in Seq(PaymentStatus)
    /\ recorded \subseteq EventId
    /\ sent \in 0 .. Len(Says)
    /\ answered \subseteq EventId
    /\ applied \in Seq(EventId)

\* An event of the provider takes effect at most once, however often it is
\* delivered, also at the same time, and wherever a handler dies.
AppliedOnce ==
    \A i, j \in DOMAIN applied : applied[i] = applied[j] => i = j

\* The transaction and its log agree: one PENDING at the start, from the one call
\* that created the row, then one entry per applied event; the status of the row
\* is the last entry.
LogExplains ==
    IF payment = NoPayment THEN history = <<>> ELSE
        /\ history # <<>>
        /\ payment.status = history[Len(history)]
        /\ \A i \in DOMAIN history : history[i] = "PENDING" <=> i = 1
        /\ Len(history) = Len(applied) + 1

\* The stage is checked on a stale read, so a payment may start on a deal that
\* has left TRANSACTION, but never on one that has not been there.
PaymentsReachedStage ==
    payment # NoPayment => "TRANSACTION" \in visited

\* Every event the provider sends and the table knows is applied in the end (no
\* failure assumed).
EventsApplied ==
    \A e \in EventId :
        e <= sent /\ Says[e] \in DOMAIN STATUS_BY_EVENT_TYPE ~> \E i \in DOMAIN applied : applied[i] = e

\* What the comment in handleStripeEvent says of an insert that is rejected: the
\* event is "already processed".  So an event that is answered has been applied.
AnsweredMeansApplied ==
    \A e \in answered :
        Says[e] \in DOMAIN STATUS_BY_EVENT_TYPE => \E i \in DOMAIN applied : applied[i] = e

=============================================================================
