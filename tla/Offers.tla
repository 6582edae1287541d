------------------------------- MODULE Offers -------------------------------
(***************************************************************************)
(* OffersService over the tables "negotiations", "offers" and "deals", next *)
(* to the handlers of Businesses, which write the same business rows.      *)
(* Handlers of OffersService live in slots of their own, OfferRequest, and *)
(* interleave with each other and with those of Businesses at every await. *)
(* A $transaction is one step.                                             *)
(***************************************************************************)
EXTENDS Businesses

CONSTANTS
    OfferRequest,      \* slots for OffersService handlers in flight
    MaxOffers,         \* bound on the offer rows of this instance
    MaxNegotiations    \* bound on its negotiation rows

ASSUME BoundAssumption == MaxOffers \in Nat /\ MaxNegotiations \in Nat

VARIABLES
    negotiation,    \* negotiation rows
    offer,          \* offer rows
    deal,           \* the accepted offers of the deal rows
    ocall,          \* the handler in each slot of OfferRequest
    announced       \* the follow-up writes of accepted offers

offerVars == <<negotiation, offer, deal, ocall, announced>>
vars == <<bizVars, offerVars>>

OfferId       == 1 .. MaxOffers
NegotiationId == 1 .. MaxNegotiations
None          == 0                      \* no such row

-----------------------------------------------------------------------------
(* Rows. *)

OPEN_OFFER_STATUSES == {"SUBMITTED", "VIEWED", "COUNTERED"}

\* DRAFT and VIEWED are declared in the schema and never written.
ClosedStatus == {"ACCEPTED", "REJECTED", "WITHDRAWN", "EXPIRED"}
OfferStatus  == {"SUBMITTED", "COUNTERED"} \cup ClosedStatus

NegotiationStatus == {"OPEN", "ACCEPTED", "REJECTED", "WITHDRAWN", "EXPIRED"}

NoRecord == [status |-> "ABSENT"]

Negotiation == [status : NegotiationStatus, biz : Business, buyer : User]

Offer == [status : OfferStatus, biz : Business, buyer : User, by : User,
          neg : NegotiationId, parent : OfferId \cup {None}]

Exists(rows, id) == rows[id] # NoRecord

\* Rows are inserted under the lowest id that is free.
IsFresh(rows, id) ==
    ~ Exists(rows, id) /\ \A i \in DOMAIN rows : i < id => Exists(rows, i)

Seller(o) == Owner[offer[o].biz]

Participant(u, o) == Exists(offer, o) /\ u \in {offer[o].buyer, Seller(o)}

\* counter, reject and accept are for the side that did not make the offer.
MayAnswer(u, o) == Participant(u, o) /\ offer[o].by # u

\* The side that did not make the offer: the caller of counter.
\* Slip: the seller, whoever made the offer.
ResponderIsSeller(o) == Seller(o)

Responder(o) == IF offer[o].by = offer[o].buyer THEN Seller(o) ELSE offer[o].buyer

IsOpen(o) == Exists(offer, o) /\ offer[o].status \in OPEN_OFFER_STATUSES

DealsOf(b) == {o \in deal : offer[o].biz = b}

-----------------------------------------------------------------------------
(* Handlers in flight. *)

\* Inside create: after the business check, then with the negotiation found.
ShopStep == {"findNegotiation", "createNegotiation", "insertOffer"}

AnswerStep == {"counter", "rejectOffer", "rejectNegotiation",
               "withdrawOffer", "withdrawNegotiation", "accept"}

OfferFollowUp ==
    [ submitted     |-> [write |-> "notify seller",       next |-> "submittedAudit"],
      submittedAudit|-> [write |-> "audit created",       next |-> "idle"],
      countered     |-> [write |-> "notify counterparty", next |-> "idle"],
      rejected      |-> [write |-> "notify rejection",    next |-> "idle"],
      accepted      |-> [write |-> "notify acceptance",   next |-> "acceptedAudit"],
      acceptedAudit |-> [write |-> "audit acceptance",    next |-> "idle"] ]

ShopHandler   == [at : ShopStep, user : User, biz : Business, neg : NegotiationId \cup {None}]
AnswerHandler == [at : AnswerStep \cup DOMAIN OfferFollowUp, offer : OfferId]

At(r, step) == ocall[r] # Idle /\ ocall[r].at = step

Go(r, handler) == ocall' = [ocall EXCEPT ![r] = handler]

Answer(step, o) == IF step = "idle" THEN Idle ELSE [at |-> step, offer |-> o]

\* Some handler is between its read and one of these writes on offer o.
Answering(steps, o) == \E r \in OfferRequest : \E step \in steps : ocall[r] = Answer(step, o)

\* Some create is on its way to an offer on business b.
Shopping(b) == \E r \in OfferRequest : ocall[r] # Idle /\ ocall[r].at \in ShopStep /\ ocall[r].biz = b

-----------------------------------------------------------------------------
OfferInit ==
    /\ negotiation = [n \in NegotiationId |-> NoRecord]
    /\ offer = [o \in OfferId |-> NoRecord]
    /\ deal = {}
    /\ ocall = [r \in OfferRequest |-> Idle]
    /\ announced = {}

(***************************************************************************)
(* POST /businesses/:id/offers.  Four awaits: the business is read and     *)
(* checked, the buyer's OPEN negotiation is looked up, one is inserted if  *)
(* there is none, and the offer is inserted whatever has happened since.   *)
(***************************************************************************)
\* Slip: the status of the business is not looked at.
BeginOfferAnyStatus(r, u, b) ==
    /\ ocall[r] = Idle
    /\ biz[b].status # "ABSENT" /\ ~ biz[b].deleted
    /\ u # Owner[b]
    /\ Go(r, [at |-> "findNegotiation", user |-> u, biz |-> b, neg |-> None])
    /\ UNCHANGED <<bizVars, negotiation, offer, deal, announced>>

BeginOffer(r, u, b) ==
    /\ ocall[r] = Idle
    /\ biz[b].status = "PUBLISHED" /\ ~ biz[b].deleted
    /\ u # Owner[b]
    /\ Go(r, [at |-> "findNegotiation", user |-> u, biz |-> b, neg |-> None])
    /\ UNCHANGED <<bizVars, negotiation, offer, deal, announced>>

OpenNegotiations(u, b) ==
    {n \in NegotiationId : negotiation[n] = [status |-> "OPEN", biz |-> b, buyer |-> u]}

\* Slip: the negotiation that is not there is not created either.
FindNegotiationOnly(r) ==
    /\ At(r, "findNegotiation")
    /\ LET found == OpenNegotiations(ocall[r].user, ocall[r].biz) IN
       \E n \in IF found = {} THEN {None} ELSE found :
           Go(r, [ocall[r] EXCEPT !.at = "insertOffer", !.neg = n])
    /\ UNCHANGED <<bizVars, negotiation, offer, deal, announced>>

FindNegotiation(r) ==
    /\ At(r, "findNegotiation")
    /\ LET found == OpenNegotiations(ocall[r].user, ocall[r].biz) IN
       \/ \E n \in found : Go(r, [ocall[r] EXCEPT !.at = "insertOffer", !.neg = n])
       \/ found = {} /\ Go(r, [ocall[r] EXCEPT !.at = "createNegotiation"])
    /\ UNCHANGED <<bizVars, negotiation, offer, deal, announced>>

CreateNegotiation(r, n) ==
    /\ At(r, "createNegotiation")
    /\ IsFresh(negotiation, n)
    /\ negotiation' = [negotiation EXCEPT ![n] =
           [status |-> "OPEN", biz |-> ocall[r].biz, buyer |-> ocall[r].user]]
    /\ Go(r, [ocall[r] EXCEPT !.at = "insertOffer", !.neg = n])
    /\ UNCHANGED <<bizVars, offer, deal, announced>>

InsertOffer(r, o) ==
    /\ At(r, "insertOffer")
    /\ IsFresh(offer, o)
    /\ offer' = [offer EXCEPT ![o] =
           [status |-> "SUBMITTED", biz |-> ocall[r].biz, buyer |-> ocall[r].user,
            by |-> ocall[r].user, neg |-> ocall[r].neg, parent |-> None]]
    /\ Go(r, Answer("submitted", o))
    /\ UNCHANGED <<bizVars, negotiation, deal, announced>>

(***************************************************************************)
(* The answers open with getParticipantOffer and a check of whose turn it  *)
(* is.  Only counter looks at the status it read.                          *)
(***************************************************************************)
BeginAnswer(r, step, o) ==
    /\ ocall[r] = Idle
    /\ Go(r, Answer(step, o))
    /\ UNCHANGED <<bizVars, negotiation, offer, deal, announced>>

\* Slip: counter no more looks at the status than its siblings do.
BeginCounterAnyStatus(r, u, o) == MayAnswer(u, o) /\ BeginAnswer(r, "counter", o)

BeginCounter(r, u, o)  == MayAnswer(u, o) /\ IsOpen(o) /\ BeginAnswer(r, "counter", o)
BeginReject(r, u, o)   == MayAnswer(u, o) /\ BeginAnswer(r, "rejectOffer", o)
BeginAccept(r, u, o)   == MayAnswer(u, o) /\ BeginAnswer(r, "accept", o)
BeginWithdraw(r, u, o) == Participant(u, o) /\ offer[o].by = u /\ BeginAnswer(r, "withdrawOffer", o)

\* The parent is overwritten whatever its status has become; the counter-offer
\* joins the same negotiation.
Counter(r, new) ==
    /\ At(r, "counter")
    /\ IsFresh(offer, new)
    /\ LET o == ocall[r].offer IN
       /\ offer' = [offer EXCEPT
              ![o].status = "COUNTERED",
              ![new] = [offer[o] EXCEPT !.status = "SUBMITTED", !.by = Responder(o), !.parent = o]]
       /\ Go(r, Answer("countered", new))
    /\ UNCHANGED <<bizVars, negotiation, deal, announced>>

\* Slip: UPDATE offers ... WHERE id = o.
CloseOfferAnyStatus(r, step, status, next) ==
    /\ At(r, step)
    /\ LET o == ocall[r].offer IN
       offer' = [offer EXCEPT ![o].status = status] /\ Go(r, Answer(next, o))
    /\ UNCHANGED <<bizVars, negotiation, deal, announced>>

\* UPDATE offers ... WHERE id = o AND status IN (open): no row, no further step.
CloseOffer(r, step, status, next) ==
    /\ At(r, step)
    /\ LET o == ocall[r].offer IN
       IF IsOpen(o)
         THEN offer' = [offer EXCEPT ![o].status = status] /\ Go(r, Answer(next, o))
         ELSE UNCHANGED offer /\ Go(r, Idle)
    /\ UNCHANGED <<bizVars, negotiation, deal, announced>>

\* A second statement closes the negotiation, whatever its status.
CloseNegotiation(r, step, status, next) ==
    /\ At(r, step)
    /\ negotiation' = [negotiation EXCEPT ![offer[ocall[r].offer].neg].status = status]
    /\ Go(r, Answer(next, ocall[r].offer))
    /\ UNCHANGED <<bizVars, offer, deal, announced>>

RejectOffer(r)         == CloseOffer(r, "rejectOffer", "REJECTED", "rejectNegotiation")
RejectNegotiation(r)   == CloseNegotiation(r, "rejectNegotiation", "REJECTED", "rejected")
WithdrawOffer(r)       == CloseOffer(r, "withdrawOffer", "WITHDRAWN", "withdrawNegotiation")
WithdrawNegotiation(r) == CloseNegotiation(r, "withdrawNegotiation", "WITHDRAWN", "idle")

(***************************************************************************)
(* The transaction of accept.  Two conditional UPDATEs decide: the offer   *)
(* must be open and not countered, the business PUBLISHED; deals are       *)
(* unique per negotiation and per accepted offer, and a violation of       *)
(* either constraint rolls everything back.                                *)
(***************************************************************************)
\* Slip: the second conditional UPDATE, on the business, is not conditional.
AcceptSucceedsAnyBusiness(o) ==
    /\ offer[o].status \in {"SUBMITTED", "VIEWED"}
    /\ \A d \in deal : d # o /\ offer[d].neg # offer[o].neg

AcceptSucceeds(o) ==
    /\ offer[o].status \in {"SUBMITTED", "VIEWED"}
    /\ biz[offer[o].biz].status = "PUBLISHED"
    /\ \A d \in deal : d # o /\ offer[d].neg # offer[o].neg

\* Slip: the business stays on the market.
ClaimNothing(b) == UNCHANGED biz

\* The business and its listing leave the market.
ClaimBusiness(b) == SetStatus(b, "SOLD", "SOLD")

AcceptOffer(r) ==
    /\ At(r, "accept")
    /\ LET o == ocall[r].offer
           b == offer[o].biz
           n == offer[o].neg
       IN  /\ AcceptSucceeds(o)
           /\ ClaimBusiness(b)
           /\ offer' = [x \in OfferId |->
                  IF x = o THEN [offer[x] EXCEPT !.status = "ACCEPTED"]
                  ELSE IF IsOpen(x) /\ offer[x].biz = b THEN [offer[x] EXCEPT !.status = "EXPIRED"]
                  ELSE offer[x]]
           /\ negotiation' = [m \in NegotiationId |->
                  IF m = n THEN [negotiation[m] EXCEPT !.status = "ACCEPTED"]
                  ELSE IF negotiation[m].status = "OPEN" /\ negotiation[m].biz = b
                       THEN [negotiation[m] EXCEPT !.status = "EXPIRED"]
                  ELSE negotiation[m]]
           /\ deal' = deal \cup {o}
           /\ Go(r, Answer("accepted", o))
    /\ UNCHANGED <<call, publications, journal, announced>>

\* 409 OFFER_ALREADY_ACCEPTED, or the constraint violation: rolled back.
RefuseAccept(r) ==
    /\ At(r, "accept")
    /\ ~ AcceptSucceeds(ocall[r].offer)
    /\ Go(r, Idle)
    /\ UNCHANGED <<bizVars, negotiation, offer, deal, announced>>

\* Slip: the handler ends with its first follow-up.
MakeOneFollowUp(r) ==
    \E step \in DOMAIN OfferFollowUp :
        /\ At(r, step)
        /\ Go(r, Idle)
        /\ announced' = announced \cup
               ({<<OfferFollowUp[step].write, ocall[r].offer>>} \cap (Watched \X OfferId))
        /\ UNCHANGED <<bizVars, negotiation, offer, deal>>

MakeOfferFollowUp(r) ==
    \E step \in DOMAIN OfferFollowUp :
        /\ At(r, step)
        /\ Go(r, Answer(OfferFollowUp[step].next, ocall[r].offer))
        /\ announced' = announced \cup
               ({<<OfferFollowUp[step].write, ocall[r].offer>>} \cap (Watched \X OfferId))
        /\ UNCHANGED <<bizVars, negotiation, offer, deal>>

FailOffer(r) ==
    /\ MayFail
    /\ ocall[r] # Idle
    /\ Go(r, Idle)
    /\ UNCHANGED <<bizVars, negotiation, offer, deal, announced>>

-----------------------------------------------------------------------------
OfferArrive(r) ==
    \E u \in User :
        \/ \E b \in Business : BeginOffer(r, u, b)
        \/ \E o \in OfferId : \/ BeginCounter(r, u, o)
                              \/ BeginReject(r, u, o)
                              \/ BeginAccept(r, u, o)
                              \/ BeginWithdraw(r, u, o)

OfferProceed(r) ==
    \/ FindNegotiation(r)
    \/ \E n \in NegotiationId : CreateNegotiation(r, n)
    \/ \E o \in OfferId : InsertOffer(r, o) \/ Counter(r, o)
    \/ RejectOffer(r)
    \/ RejectNegotiation(r)
    \/ WithdrawOffer(r)
    \/ WithdrawNegotiation(r)
    \/ AcceptOffer(r)
    \/ RefuseAccept(r)
    \/ MakeOfferFollowUp(r)

OfferStep == \E r \in OfferRequest : OfferArrive(r) \/ OfferProceed(r) \/ FailOffer(r)

MarketInit == Init /\ OfferInit

MarketNext == (Next /\ UNCHANGED offerVars) \/ OfferStep

MarketSpec == MarketInit /\ [][MarketNext]_vars

MarketFairness ==
    /\ \A r \in Request : WF_vars(Proceed(r) /\ UNCHANGED offerVars)
    /\ \A r \in OfferRequest : WF_vars(OfferProceed(r))

FairMarketSpec == MarketSpec /\ MarketFairness

-----------------------------------------------------------------------------
(* What buyers and sellers rely on. *)

\* Types of the rows and handlers of OffersService.
OfferTypeOK ==
    /\ negotiation \in [NegotiationId -> Negotiation \cup {NoRecord}]
    /\ offer \in [OfferId -> Offer \cup {NoRecord}]
    /\ deal \subseteq OfferId
    /\ ocall \in [OfferRequest -> {Idle} \cup ShopHandler \cup AnswerHandler]
    /\ announced \subseteq (Watched \X OfferId)

\* Two buyers never both acquire the same business.
AtMostOneDeal == \A b \in Business : Cardinality(DealsOf(b)) <= 1

\* The accepted offer and its deal are inseparable: no interleaving leaves an
\* ACCEPTED offer without its deal, and the offer of a deal is ACCEPTED unless a
\* counter that was in flight when it was accepted has put a counter-offer on it.
AcceptedOfferHasDeal ==
    /\ \A o \in OfferId : offer[o].status = "ACCEPTED" => o \in deal
    /\ \A o \in deal : \/ offer[o].status = "ACCEPTED"
                       \/ \E c \in OfferId : Exists(offer, c) /\ offer[c].parent = o

\* Closed and out of reach: no counter that read it open is still on its way.
Closed(o) == Exists(offer, o) /\ offer[o].status \in ClosedStatus /\ ~ Answering({"counter"}, o)

\* A closed offer keeps its answer: only a counter already in flight can change
\* an ACCEPTED, REJECTED, WITHDRAWN or EXPIRED offer; no later call can.
ClosedOffersStay ==
    [][\A o \in OfferId : Closed(o) => Closed(o)' /\ offer'[o] = offer[o]]_vars

\* The market of a business is over: it is off the market, has no open offer,
\* and no publish, create or counter is on its way.
Settled(b) ==
    /\ Retired(b)
    /\ \A o \in OfferId : Exists(offer, o) /\ offer[o].biz = b =>
           ~ IsOpen(o) /\ ~ Answering({"counter"}, o)
    /\ ~ Shopping(b)

\* Once over it stays over, and its deals are final: whatever calls still arrive,
\* no offer on the business opens again and no deal is added.
SettledStays ==
    [][\A b \in Business : Settled(b) => Settled(b)' /\ DealsOf(b)' = DealsOf(b)]_vars

\* An offer belongs to a negotiation of its business and buyer, is made by one of
\* two distinct sides, and answers, if anything, an offer the other side made.
OfferLinked(o) ==
    Exists(offer, o) =>
        /\ negotiation[offer[o].neg] # NoRecord
        /\ negotiation[offer[o].neg].biz = offer[o].biz
        /\ negotiation[offer[o].neg].buyer = offer[o].buyer
        /\ offer[o].buyer # Seller(o)
        /\ offer[o].by \in {offer[o].buyer, Seller(o)}
        /\ offer[o].parent # None =>
               /\ Exists(offer, offer[o].parent)
               /\ offer[offer[o].parent].neg = offer[o].neg
               /\ offer[offer[o].parent].by # offer[o].by

\* What a handler remembers across its awaits still describes existing rows.
HandlerLinked(r) ==
    /\ ocall[r] \in AnswerHandler => Exists(offer, ocall[r].offer)
    /\ ocall[r] \in ShopHandler =>
           /\ ocall[r].user # Owner[ocall[r].biz]
           /\ ocall[r].at = "insertOffer" =>
                  /\ ocall[r].neg # None
                  /\ negotiation[ocall[r].neg] # NoRecord
                  /\ negotiation[ocall[r].neg].biz = ocall[r].biz
                  /\ negotiation[ocall[r].neg].buyer = ocall[r].user

\* Across all interleavings offers hang together: turns alternate along a chain of
\* counter-offers, which never leaves its negotiation; nobody negotiates with
\* themselves; deals and handlers in flight refer to rows that exist.
RowsLinked ==
    /\ \A o \in OfferId : OfferLinked(o)
    /\ \A o \in deal : Exists(offer, o)
    /\ \A r \in OfferRequest : HandlerLinked(r)

\* OffersService wins businesses the way Sale says: a deal ends a sale, and a
\* business has no more deals than it was put on the market.
SaleView == INSTANCE Sale WITH
    forSale <- [b \in Business |-> biz[b].status = "PUBLISHED"],
    sales   <- publications,
    winners <- [b \in Business |-> DealsOf(b)]

ImplementsSale == SaleView!Spec

DealsWithinPublications == SaleView!OneWinnerPerSale

\* Both sides hear of a deal: after the commit the notification and the audit
\* row of the acceptance eventually follow (no failure assumed).
DealAnnounced ==
    \A o \in OfferId :
        o \in deal ~> {<<"notify acceptance", o>>, <<"audit acceptance", o>>} \subseteq announced

\* What SECURITY.md says of the offer lifecycle: an offer that was accepted,
\* rejected, withdrawn or expired does not move to another status.
TerminalOffersStay ==
    [][\A o \in OfferId : offer[o].status \in ClosedStatus => offer'[o].status = offer[o].status]_vars

=============================================================================
