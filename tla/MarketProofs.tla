---------------------------- MODULE MarketProofs ----------------------------
(***************************************************************************)
(* Proofs about Offers, for every set of accounts, businesses and handlers *)
(* and every bound on the rows.  The rows are well typed and stay linked.  *)
(* OffersService implements Sale, and what follows: a business has no more *)
(* deals than it was put on the market, hence at most one as long as       *)
(* publish refuses every draft; an accepted offer has its deal; closed     *)
(* offers keep their answers; a settled market stays settled.              *)
(***************************************************************************)
EXTENDS Offers, BusinessesProofs

-----------------------------------------------------------------------------
(* Rows never disappear, and only their status ever changes. *)

SameRow(new, old) ==
    /\ new # NoRecord
    /\ new.biz = old.biz /\ new.buyer = old.buyer

SameOffer(new, old) ==
    /\ SameRow(new, old)
    /\ new.by = old.by /\ new.neg = old.neg /\ new.parent = old.parent

RowsKept ==
    /\ \A n \in NegotiationId : Exists(negotiation, n) => SameRow(negotiation'[n], negotiation[n])
    /\ \A o \in OfferId : Exists(offer, o) => SameOffer(offer'[o], offer[o])

\* The inductive invariant of the rows: types and links together, since a
\* handler's next write is well typed only if the row it remembers exists.
RowsInv == TypeOK /\ OfferTypeOK /\ RowsLinked

\* A status change of an existing row keeps it what it was.
LEMMA OfferStatusChange ==
    ASSUME NEW row \in Offer, NEW status \in OfferStatus
    PROVE  LET new == [row EXCEPT !.status = status] IN
           new \in Offer /\ SameOffer(new, row) /\ new.status = status
  BY DEF Offer, OfferStatus, ClosedStatus, SameOffer, SameRow, NoRecord

LEMMA NegotiationStatusChange ==
    ASSUME NEW row \in Negotiation, NEW status \in NegotiationStatus
    PROVE  LET new == [row EXCEPT !.status = status] IN
           new \in Negotiation /\ SameRow(new, row)
  BY DEF Negotiation, NegotiationStatus, SameRow, NoRecord

LEMMA RowTypes ==
    ASSUME OfferTypeOK
    PROVE  /\ \A o \in OfferId : Exists(offer, o) <=> offer[o] \in Offer
           /\ \A o \in OfferId : IsOpen(o) => offer[o] \in Offer
           /\ \A n \in NegotiationId : negotiation[n] # NoRecord <=> negotiation[n] \in Negotiation
  BY DEF OfferTypeOK, Exists, IsOpen, Offer, Negotiation, NoRecord, OfferStatus, ClosedStatus,
         NegotiationStatus

\* A row that stays what it was stays linked to what it was.
LEMMA LinksKept ==
    ASSUME RowsInv, RowsKept, OfferTypeOK',
           NEW o \in OfferId, Exists(offer, o)
    PROVE  OfferLinked(o)'
  <1>1. offer[o] \in Offer /\ OfferLinked(o) /\ SameOffer(offer'[o], offer[o])
    BY RowTypes DEF RowsInv, RowsLinked, RowsKept
  <1>2. /\ offer[o].neg \in NegotiationId /\ offer[o].parent \in OfferId \cup {None}
    BY <1>1 DEF Offer
  <1>3. /\ negotiation'[offer[o].neg] # NoRecord
        /\ negotiation'[offer[o].neg].biz = offer[o].biz
        /\ negotiation'[offer[o].neg].buyer = offer[o].buyer
    BY <1>1, <1>2 DEF OfferLinked, RowsKept, SameRow, Exists
  <1>4. offer[o].parent # None =>
            /\ offer'[offer[o].parent] # NoRecord
            /\ offer'[offer[o].parent].neg = offer[o].neg
            /\ offer'[offer[o].parent].by # offer[o].by
    BY <1>1, <1>2 DEF OfferLinked, RowsKept, SameOffer, SameRow, Exists
  <1> QED
    BY <1>1, <1>3, <1>4 DEF OfferLinked, SameOffer, SameRow, Exists, Seller

\* A handler that does not move keeps what it remembers.
LEMMA HandlerKept ==
    ASSUME RowsInv, RowsKept, OfferTypeOK', NEW r \in OfferRequest, ocall'[r] = ocall[r]
    PROVE  HandlerLinked(r)'
  BY DEF RowsInv, RowsLinked, HandlerLinked, RowsKept, SameRow, SameOffer, Exists,
         ShopHandler, AnswerHandler, OfferTypeOK

\* A step that inserts no offer, adds no deal and leaves slot r well linked
\* preserves the links.
LEMMA LinkStep ==
    ASSUME RowsInv, RowsKept, TypeOK', OfferTypeOK', NEW r \in OfferRequest,
           \A q \in OfferRequest : q # r => ocall'[q] = ocall[q],
           HandlerLinked(r)',
           \A o \in OfferId : Exists(offer, o)' => Exists(offer, o) \/ OfferLinked(o)',
           \A o \in deal' : Exists(offer, o)'
    PROVE  RowsInv'
  <1>1. \A o \in OfferId : OfferLinked(o)'
    BY LinksKept DEF OfferLinked
  <1>2. \A q \in OfferRequest : HandlerLinked(q)'
    BY HandlerKept
  <1> QED
    BY <1>1, <1>2 DEF RowsInv, RowsLinked

-----------------------------------------------------------------------------
(* Each action keeps the rows and their links. *)

\* Handlers in the slots, by what they remember.
LEMMA HandlerTypes ==
    /\ Idle \notin ShopHandler /\ Idle \notin AnswerHandler
    /\ \A h \in ShopHandler : h \notin AnswerHandler
    /\ \A step \in AnswerStep \cup DOMAIN OfferFollowUp \cup {"idle"}, o \in OfferId :
           Answer(step, o) \in {Idle} \cup AnswerHandler
  <1>1. \A h \in ShopHandler : h.at \in ShopStep /\ h # Idle
    BY DEF ShopHandler, ShopStep, Idle
  <1>2. DOMAIN OfferFollowUp = {"submitted", "submittedAudit", "countered", "rejected",
                               "accepted", "acceptedAudit"}
    BY DEF OfferFollowUp
  <1>3. \A h \in AnswerHandler : h.at \notin ShopStep /\ h # Idle
    BY <1>2 DEF AnswerHandler, AnswerStep, ShopStep, Idle
  <1>4. \A step \in AnswerStep \cup DOMAIN OfferFollowUp \cup {"idle"}, o \in OfferId :
           Answer(step, o) \in {Idle} \cup AnswerHandler
    BY DEF AnswerHandler, Answer
  <1> QED
    BY <1>1, <1>3, <1>4

\* The follow-ups of OffersService lead to one another or end.
LEMMA OfferStepNames ==
    /\ DOMAIN OfferFollowUp = {"submitted", "submittedAudit", "countered", "rejected",
                               "accepted", "acceptedAudit"}
    /\ \A s \in DOMAIN OfferFollowUp : OfferFollowUp[s].next \in {"submittedAudit", "acceptedAudit", "idle"}
  <1>1. DOMAIN OfferFollowUp = {"submitted", "submittedAudit", "countered", "rejected",
                               "accepted", "acceptedAudit"}
    BY DEF OfferFollowUp
  <1>2. /\ OfferFollowUp.submitted.next = "submittedAudit" /\ OfferFollowUp.submittedAudit.next = "idle"
        /\ OfferFollowUp.countered.next = "idle" /\ OfferFollowUp.rejected.next = "idle"
        /\ OfferFollowUp.accepted.next = "acceptedAudit" /\ OfferFollowUp.acceptedAudit.next = "idle"
    BY DEF OfferFollowUp
  <1> QED
    BY <1>1, <1>2

\* What slot r may turn into so that the slots stay well typed and linked.
LEMMA AnswerLinked ==
    ASSUME RowsInv, NEW r \in OfferRequest, NEW o \in OfferId,
           NEW step \in AnswerStep \cup DOMAIN OfferFollowUp \cup {"idle"},
           Go(r, Answer(step, o)), Exists(offer, o)'
    PROVE  /\ ocall' \in [OfferRequest -> {Idle} \cup ShopHandler \cup AnswerHandler]
           /\ \A q \in OfferRequest : q # r => ocall'[q] = ocall[q]
           /\ HandlerLinked(r)'
  <1>1. ocall'[r] = Answer(step, o)
    BY DEF Go, RowsInv, OfferTypeOK
  <1>2. ocall'[r] \in AnswerHandler => ocall'[r].offer = o
    BY <1>1, HandlerTypes DEF Answer
  <1>3. ocall'[r] \notin ShopHandler
    BY <1>1, HandlerTypes
  <1> QED
    BY <1>1, <1>2, <1>3, HandlerTypes DEF Go, RowsInv, OfferTypeOK, HandlerLinked, Exists

LEMMA IdleLinked ==
    ASSUME RowsInv, NEW r \in OfferRequest, Go(r, Idle)
    PROVE  /\ ocall' \in [OfferRequest -> {Idle} \cup ShopHandler \cup AnswerHandler]
           /\ \A q \in OfferRequest : q # r => ocall'[q] = ocall[q]
           /\ HandlerLinked(r)'
  BY HandlerTypes DEF Go, RowsInv, OfferTypeOK, HandlerLinked

\* A handler about to answer remembers an existing, well-typed, linked offer.
LEMMA AnswerAt ==
    ASSUME RowsInv, NEW r \in OfferRequest,
           NEW step \in AnswerStep \cup DOMAIN OfferFollowUp, At(r, step)
    PROVE  /\ ocall[r] \in AnswerHandler /\ ocall[r].offer \in OfferId
           /\ offer[ocall[r].offer] \in Offer /\ OfferLinked(ocall[r].offer)
           /\ Exists(offer, ocall[r].offer)
           /\ offer[ocall[r].offer].neg \in NegotiationId
           /\ negotiation[offer[ocall[r].offer].neg] \in Negotiation
  <1>1. ocall[r] \notin ShopHandler
    BY OfferStepNames DEF At, ShopHandler, ShopStep, AnswerStep
  <1>2. ocall[r] \in AnswerHandler
    BY <1>1 DEF At, RowsInv, OfferTypeOK
  <1>3. ocall[r].offer \in OfferId /\ Exists(offer, ocall[r].offer)
    BY <1>2 DEF AnswerHandler, RowsInv, RowsLinked, HandlerLinked
  <1>4. offer[ocall[r].offer] \in Offer /\ OfferLinked(ocall[r].offer)
    BY <1>3, RowTypes DEF RowsInv, RowsLinked
  <1>5. offer[ocall[r].offer].neg \in NegotiationId
    BY <1>4 DEF Offer
  <1>6. negotiation[offer[ocall[r].offer].neg] \in Negotiation
    BY <1>3, <1>4, <1>5, RowTypes DEF OfferLinked, RowsInv
  <1> QED
    BY <1>2, <1>3, <1>4, <1>5, <1>6

\* A handler inside create remembers a buyer and a business.
LEMMA ShopAt ==
    ASSUME RowsInv, NEW r \in OfferRequest, NEW step \in ShopStep, At(r, step)
    PROVE  /\ ocall[r] \in ShopHandler /\ HandlerLinked(r)
           /\ ocall[r].user \in User /\ ocall[r].biz \in Business
           /\ ocall[r].neg \in NegotiationId \cup {None}
  <1>1. ocall[r] \notin AnswerHandler
    BY OfferStepNames DEF At, AnswerHandler, ShopStep, AnswerStep
  <1>2. ocall[r] \in ShopHandler
    BY <1>1 DEF At, RowsInv, OfferTypeOK
  <1> QED
    BY <1>2 DEF ShopHandler, RowsInv, RowsLinked

LEMMA BeginOfferRows ==
    ASSUME RowsInv, NEW r \in OfferRequest, NEW u \in User, NEW b \in Business, BeginOffer(r, u, b)
    PROVE  RowsInv' /\ RowsKept
  <1> DEFINE h == [at |-> "findNegotiation", user |-> u, biz |-> b, neg |-> None]
  <1>1. h \in ShopHandler
    BY DEF ShopHandler, ShopStep
  <1>2. /\ ocall' \in [OfferRequest -> {Idle} \cup ShopHandler \cup AnswerHandler]
        /\ ocall'[r] = h /\ \A q \in OfferRequest : q # r => ocall'[q] = ocall[q]
    BY <1>1 DEF BeginOffer, Go, RowsInv, OfferTypeOK
  <1>3. HandlerLinked(r)'
    BY <1>1, <1>2, HandlerTypes DEF BeginOffer, HandlerLinked
  <1>4. RowsKept
    BY DEF BeginOffer, RowsKept, SameRow, SameOffer, Exists
  <1>5. TypeOK' /\ OfferTypeOK'
    BY <1>2 DEF BeginOffer, RowsInv, TypeOK, OfferTypeOK, bizVars
  <1> QED
    BY <1>2, <1>3, <1>4, <1>5, LinkStep DEF BeginOffer, RowsInv, RowsLinked, Exists

LEMMA FindNegotiationRows ==
    ASSUME RowsInv, NEW r \in OfferRequest, FindNegotiation(r)
    PROVE  RowsInv' /\ RowsKept
  <1>1. /\ ocall[r] \in ShopHandler /\ HandlerLinked(r)
        /\ ocall[r].user \in User /\ ocall[r].biz \in Business
    BY ShopAt DEF FindNegotiation, ShopStep
  <1>2. RowsKept
    BY DEF FindNegotiation, RowsKept, SameRow, SameOffer, Exists
  <1>3. ASSUME NEW n \in OpenNegotiations(ocall[r].user, ocall[r].biz),
               Go(r, [ocall[r] EXCEPT !.at = "insertOffer", !.neg = n])
        PROVE  RowsInv'
    <2> DEFINE h == [ocall[r] EXCEPT !.at = "insertOffer", !.neg = n]
    <2>1. /\ n \in NegotiationId /\ n # None
          /\ negotiation[n] = [status |-> "OPEN", biz |-> ocall[r].biz, buyer |-> ocall[r].user]
      BY BoundAssumption DEF OpenNegotiations, NegotiationId, None
    <2>2. h \in ShopHandler /\ h.user = ocall[r].user /\ h.biz = ocall[r].biz /\ h.neg = n
      BY <1>1, <2>1 DEF ShopHandler, ShopStep
    <2>3. /\ ocall' \in [OfferRequest -> {Idle} \cup ShopHandler \cup AnswerHandler]
          /\ ocall'[r] = h /\ \A q \in OfferRequest : q # r => ocall'[q] = ocall[q]
      BY <1>3, <2>2 DEF Go, RowsInv, OfferTypeOK
    <2>4. /\ negotiation'[n] # NoRecord
          /\ negotiation'[n].biz = h.biz /\ negotiation'[n].buyer = h.user
      <3>1. negotiation' = negotiation
        BY DEF FindNegotiation
      <3> QED
        BY <2>1, <2>2, <3>1 DEF NoRecord
    <2>5. HandlerLinked(r)'
      <3>1. h.user # Owner[h.biz] /\ h \notin AnswerHandler
        BY <1>1, <2>2, HandlerTypes DEF HandlerLinked
      <3> QED
        BY <2>1, <2>2, <2>3, <2>4, <3>1 DEF HandlerLinked
    <2>6. TypeOK' /\ OfferTypeOK'
      BY <2>3 DEF FindNegotiation, RowsInv, TypeOK, OfferTypeOK, bizVars
    <2> QED
      BY <1>2, <2>3, <2>5, <2>6, LinkStep DEF FindNegotiation, RowsInv, RowsLinked, Exists
  <1>4. ASSUME Go(r, [ocall[r] EXCEPT !.at = "createNegotiation"])
        PROVE  RowsInv'
    <2> DEFINE h == [ocall[r] EXCEPT !.at = "createNegotiation"]
    <2>1. /\ h \in ShopHandler /\ h.user = ocall[r].user /\ h.biz = ocall[r].biz
          /\ h.at = "createNegotiation"
      BY <1>1 DEF ShopHandler, ShopStep
    <2>2. /\ ocall' \in [OfferRequest -> {Idle} \cup ShopHandler \cup AnswerHandler]
          /\ ocall'[r] = h /\ \A q \in OfferRequest : q # r => ocall'[q] = ocall[q]
      BY <1>4, <2>1 DEF Go, RowsInv, OfferTypeOK
    <2>3. HandlerLinked(r)'
      BY <1>1, <2>1, <2>2, HandlerTypes DEF FindNegotiation, HandlerLinked
    <2>4. TypeOK' /\ OfferTypeOK'
      BY <2>2 DEF FindNegotiation, RowsInv, TypeOK, OfferTypeOK, bizVars
    <2> QED
      BY <1>2, <2>2, <2>3, <2>4, LinkStep DEF FindNegotiation, RowsInv, RowsLinked, Exists
  <1> QED
    BY <1>2, <1>3, <1>4 DEF FindNegotiation

LEMMA CreateNegotiationRows ==
    ASSUME RowsInv, NEW r \in OfferRequest, NEW n \in NegotiationId, CreateNegotiation(r, n)
    PROVE  RowsInv' /\ RowsKept
  <1> DEFINE h == [ocall[r] EXCEPT !.at = "insertOffer", !.neg = n]
             row == [status |-> "OPEN", biz |-> ocall[r].biz, buyer |-> ocall[r].user]
  <1>1. /\ ocall[r] \in ShopHandler /\ HandlerLinked(r)
        /\ ocall[r].user \in User /\ ocall[r].biz \in Business
    BY ShopAt DEF CreateNegotiation, ShopStep
  <1>2. row \in Negotiation /\ row # NoRecord
    BY <1>1 DEF Negotiation, NegotiationStatus, NoRecord
  <1>3. /\ negotiation'[n] = row
        /\ \A m \in NegotiationId : m # n => negotiation'[m] = negotiation[m]
        /\ negotiation' \in [NegotiationId -> Negotiation \cup {NoRecord}]
        /\ ~ Exists(negotiation, n) /\ UNCHANGED <<bizVars, offer, deal, announced>>
    BY <1>2 DEF CreateNegotiation, IsFresh, RowsInv, OfferTypeOK
  <1>4. RowsKept
    BY <1>3 DEF RowsKept, SameRow, SameOffer, Exists
  <1>5. h \in ShopHandler /\ h.user = ocall[r].user /\ h.biz = ocall[r].biz /\ h.neg = n
    BY <1>1 DEF ShopHandler, ShopStep
  <1>6. /\ ocall' \in [OfferRequest -> {Idle} \cup ShopHandler \cup AnswerHandler]
        /\ ocall'[r] = h /\ \A q \in OfferRequest : q # r => ocall'[q] = ocall[q]
    BY <1>5 DEF CreateNegotiation, Go, RowsInv, OfferTypeOK
  <1>7. HandlerLinked(r)'
    <2>1. h.user # Owner[h.biz] /\ h \notin AnswerHandler /\ n # None
      BY <1>1, <1>5, HandlerTypes, BoundAssumption DEF HandlerLinked, NegotiationId, None
    <2> QED
      BY <1>2, <1>3, <1>5, <1>6, <2>1 DEF HandlerLinked
  <1>8. TypeOK' /\ OfferTypeOK'
    BY <1>3, <1>6 DEF RowsInv, TypeOK, OfferTypeOK, bizVars
  <1> QED
    BY <1>3, <1>4, <1>6, <1>7, <1>8, LinkStep DEF RowsInv, RowsLinked, Exists

LEMMA InsertOfferRows ==
    ASSUME RowsInv, NEW r \in OfferRequest, NEW o \in OfferId, InsertOffer(r, o)
    PROVE  RowsInv' /\ RowsKept
  <1> DEFINE row == [status |-> "SUBMITTED", biz |-> ocall[r].biz, buyer |-> ocall[r].user,
                     by |-> ocall[r].user, neg |-> ocall[r].neg, parent |-> None]
  <1>1. /\ ocall[r] \in ShopHandler /\ HandlerLinked(r)
        /\ ocall[r].user \in User /\ ocall[r].biz \in Business
        /\ ocall[r].neg \in NegotiationId \cup {None}
    BY ShopAt DEF InsertOffer, ShopStep
  <1>2. /\ ocall[r].user # Owner[ocall[r].biz]
        /\ ocall[r].neg # None /\ negotiation[ocall[r].neg] # NoRecord
        /\ negotiation[ocall[r].neg].biz = ocall[r].biz
        /\ negotiation[ocall[r].neg].buyer = ocall[r].user
    BY <1>1 DEF HandlerLinked, InsertOffer, At
  <1>3. row \in Offer /\ row # NoRecord
    BY <1>1, <1>2 DEF Offer, OfferStatus, NoRecord
  <1>4. /\ offer'[o] = row
        /\ \A x \in OfferId : x # o => offer'[x] = offer[x]
        /\ offer' \in [OfferId -> Offer \cup {NoRecord}]
        /\ ~ Exists(offer, o) /\ UNCHANGED <<bizVars, negotiation, deal, announced>>
    BY <1>3 DEF InsertOffer, IsFresh, RowsInv, OfferTypeOK
  <1>5. RowsKept
    BY <1>4 DEF RowsKept, SameRow, SameOffer, Exists
  <1>6. OfferLinked(o)'
    BY <1>2, <1>3, <1>4 DEF OfferLinked, Seller, Exists
  <1>7. /\ ocall' \in [OfferRequest -> {Idle} \cup ShopHandler \cup AnswerHandler]
        /\ \A q \in OfferRequest : q # r => ocall'[q] = ocall[q]
        /\ HandlerLinked(r)'
    <2>1. Exists(offer, o)'
      BY <1>3, <1>4 DEF Exists
    <2>2. "submitted" \in DOMAIN OfferFollowUp
      BY OfferStepNames
    <2> QED
      BY <2>1, <2>2, AnswerLinked DEF InsertOffer
  <1>8. TypeOK' /\ OfferTypeOK'
    BY <1>4, <1>7 DEF RowsInv, TypeOK, OfferTypeOK, bizVars
  <1>9. \A x \in OfferId : Exists(offer, x)' => Exists(offer, x) \/ OfferLinked(x)'
    BY <1>4, <1>6 DEF Exists
  <1>10. \A x \in deal' : Exists(offer, x)'
    BY <1>4, <1>5 DEF RowsInv, RowsLinked, RowsKept, SameOffer, SameRow, Exists, OfferTypeOK
  <1> QED
    BY <1>5, <1>7, <1>8, <1>9, <1>10, LinkStep

LEMMA BeginAnswerRows ==
    ASSUME RowsInv, NEW r \in OfferRequest, NEW o \in OfferId, NEW step \in AnswerStep,
           Exists(offer, o), BeginAnswer(r, step, o)
    PROVE  RowsInv' /\ RowsKept
  <1>1. RowsKept
    BY DEF BeginAnswer, RowsKept, SameRow, SameOffer, Exists
  <1>2. /\ ocall' \in [OfferRequest -> {Idle} \cup ShopHandler \cup AnswerHandler]
        /\ \A q \in OfferRequest : q # r => ocall'[q] = ocall[q]
        /\ HandlerLinked(r)'
    BY AnswerLinked DEF BeginAnswer, Exists
  <1>3. TypeOK' /\ OfferTypeOK'
    BY <1>2 DEF BeginAnswer, RowsInv, TypeOK, OfferTypeOK, bizVars
  <1> QED
    BY <1>1, <1>2, <1>3, LinkStep DEF BeginAnswer, RowsInv, RowsLinked, Exists

LEMMA CounterRows ==
    ASSUME RowsInv, NEW r \in OfferRequest, NEW new \in OfferId, Counter(r, new)
    PROVE  RowsInv' /\ RowsKept
  <1>0. ocall[r].offer \in OfferId
    BY AnswerAt DEF Counter, AnswerStep
  <1> PICK o \in OfferId : o = ocall[r].offer
    BY <1>0
  <1> DEFINE child == [offer[o] EXCEPT !.status = "SUBMITTED", !.by = Responder(o), !.parent = o]
             parent == [offer[o] EXCEPT !.status = "COUNTERED"]
  <1>1. /\ o \in OfferId /\ offer[o] \in Offer /\ OfferLinked(o) /\ Exists(offer, o)
    BY AnswerAt DEF Counter, AnswerStep
  <1>2. /\ offer[o].biz \in Business /\ offer[o].buyer \in User /\ Seller(o) \in User
        /\ offer[o].by \in {offer[o].buyer, Seller(o)} /\ offer[o].buyer # Seller(o)
        /\ negotiation[offer[o].neg] # NoRecord
        /\ negotiation[offer[o].neg].biz = offer[o].biz
        /\ negotiation[offer[o].neg].buyer = offer[o].buyer
        /\ offer[o].neg \in NegotiationId
    BY <1>1, UserAssumption DEF OfferLinked, Offer, Seller
  <1>3. Responder(o) \in {offer[o].buyer, Seller(o)} /\ Responder(o) # offer[o].by
    BY <1>2 DEF Responder
  <1>4. /\ child \in Offer /\ child # NoRecord
        /\ child.biz = offer[o].biz /\ child.buyer = offer[o].buyer /\ child.neg = offer[o].neg
        /\ child.by = Responder(o) /\ child.parent = o
    BY <1>1, <1>2, <1>3 DEF Offer, OfferStatus, NoRecord
  <1>5. parent \in Offer /\ SameOffer(parent, offer[o])
    BY <1>1, OfferStatusChange DEF OfferStatus
  <1>6. /\ ~ Exists(offer, new) /\ new # o
        /\ UNCHANGED <<bizVars, negotiation, deal, announced>>
    BY <1>1 DEF Counter, IsFresh
  <1>7. /\ offer'[new] = child /\ offer'[o] = parent
        /\ \A x \in OfferId \ {o, new} : offer'[x] = offer[x]
        /\ offer' \in [OfferId -> Offer \cup {NoRecord}]
    BY <1>1, <1>4, <1>5, <1>6 DEF Counter, RowsInv, OfferTypeOK
  <1>8. RowsKept
    <2>1. ASSUME NEW n \in NegotiationId, Exists(negotiation, n)
          PROVE  SameRow(negotiation'[n], negotiation[n])
      BY <1>6, <2>1 DEF SameRow, Exists
    <2>2. ASSUME NEW x \in OfferId, Exists(offer, x)
          PROVE  SameOffer(offer'[x], offer[x])
      <3>1. CASE x = o
        BY <1>5, <1>7, <3>1
      <3>2. CASE x # o
        <4>1. x \in OfferId \ {o, new}
          BY <1>6, <2>2, <3>2
        <4> QED
          BY <1>7, <2>2, <4>1 DEF SameOffer, SameRow, Exists
      <3> QED
        BY <3>1, <3>2
    <2> QED
      BY <2>1, <2>2 DEF RowsKept
  <1>9. OfferLinked(new)'
    <2>1. /\ Exists(offer, o)' /\ offer'[o].neg = offer[o].neg /\ offer'[o].by = offer[o].by
      BY <1>5, <1>7 DEF SameOffer, SameRow, Exists
    <2>2. Seller(new)' = Seller(o)
      BY <1>4, <1>7 DEF Seller
    <2>3. /\ offer'[new].biz = offer[o].biz /\ offer'[new].buyer = offer[o].buyer
          /\ offer'[new].neg = offer[o].neg /\ offer'[new].by = Responder(o)
          /\ offer'[new].parent = o /\ negotiation' = negotiation
      BY <1>4, <1>6, <1>7
    <2> QED
      BY <1>2, <1>3, <2>1, <2>2, <2>3 DEF OfferLinked
  <1>10. /\ ocall' \in [OfferRequest -> {Idle} \cup ShopHandler \cup AnswerHandler]
         /\ \A q \in OfferRequest : q # r => ocall'[q] = ocall[q]
         /\ HandlerLinked(r)'
    <2>1. Exists(offer, new)'
      BY <1>4, <1>7 DEF Exists
    <2>2. "countered" \in DOMAIN OfferFollowUp
      BY OfferStepNames
    <2> QED
      BY <2>1, <2>2, AnswerLinked DEF Counter
  <1>11. TypeOK' /\ OfferTypeOK'
    BY <1>6, <1>7, <1>10 DEF RowsInv, TypeOK, OfferTypeOK, bizVars
  <1>12. \A x \in OfferId : Exists(offer, x)' => Exists(offer, x) \/ OfferLinked(x)'
    BY <1>1, <1>7, <1>9 DEF Exists
  <1>13. \A x \in deal' : Exists(offer, x)'
    BY <1>6, <1>8 DEF RowsInv, RowsLinked, RowsKept, SameOffer, SameRow, Exists, OfferTypeOK
  <1> QED
    BY <1>8, <1>10, <1>11, <1>12, <1>13, LinkStep

LEMMA CloseOfferRows ==
    ASSUME RowsInv, NEW r \in OfferRequest, NEW step \in AnswerStep, NEW next \in AnswerStep,
           NEW status \in OfferStatus, CloseOffer(r, step, status, next)
    PROVE  RowsInv' /\ RowsKept
  <1>0. ocall[r].offer \in OfferId
    BY AnswerAt DEF CloseOffer
  <1> PICK o \in OfferId : o = ocall[r].offer
    BY <1>0
  <1>1. offer[o] \in Offer /\ Exists(offer, o)
    BY AnswerAt DEF CloseOffer
  <1>2. CASE ~ IsOpen(o)
    <2>1. UNCHANGED <<bizVars, negotiation, offer, deal, announced>> /\ Go(r, Idle)
      BY <1>2 DEF CloseOffer
    <2>2. RowsKept
      BY <2>1 DEF RowsKept, SameRow, SameOffer, Exists
    <2>3. TypeOK' /\ OfferTypeOK'
      BY <2>1, IdleLinked DEF RowsInv, TypeOK, OfferTypeOK, bizVars
    <2> QED
      BY <2>1, <2>2, <2>3, IdleLinked, LinkStep DEF RowsInv, RowsLinked, Exists
  <1>3. CASE IsOpen(o)
    <2> DEFINE row == [offer[o] EXCEPT !.status = status]
    <2>1. /\ UNCHANGED <<bizVars, negotiation, deal, announced>> /\ Go(r, Answer(next, o))
          /\ offer' = [offer EXCEPT ![o].status = status]
      BY <1>3 DEF CloseOffer
    <2>2. row \in Offer /\ SameOffer(row, offer[o])
      BY <1>1, OfferStatusChange
    <2>3. /\ offer'[o] = row /\ \A x \in OfferId \ {o} : offer'[x] = offer[x]
          /\ offer' \in [OfferId -> Offer \cup {NoRecord}]
      BY <2>1, <2>2 DEF RowsInv, OfferTypeOK
    <2>4. RowsKept
      BY <2>1, <2>2, <2>3 DEF RowsKept, SameRow, SameOffer, Exists
    <2>5. Exists(offer, o)'
      BY <1>1, <2>4 DEF RowsKept, SameOffer, SameRow, Exists
    <2>6. /\ ocall' \in [OfferRequest -> {Idle} \cup ShopHandler \cup AnswerHandler]
          /\ \A q \in OfferRequest : q # r => ocall'[q] = ocall[q]
          /\ HandlerLinked(r)'
      BY <2>1, <2>5, AnswerLinked
    <2>7. TypeOK' /\ OfferTypeOK'
      BY <2>1, <2>3, <2>6 DEF RowsInv, TypeOK, OfferTypeOK, bizVars
    <2>8. \A x \in OfferId : Exists(offer, x)' => Exists(offer, x)
      BY <1>1, <2>3 DEF Exists
    <2>9. \A x \in deal' : Exists(offer, x)'
      BY <2>1, <2>4 DEF RowsInv, RowsLinked, RowsKept, SameOffer, SameRow, Exists, OfferTypeOK
    <2> QED
      BY <2>4, <2>6, <2>7, <2>8, <2>9, LinkStep
  <1> QED
    BY <1>2, <1>3

LEMMA CloseNegotiationRows ==
    ASSUME RowsInv, NEW r \in OfferRequest, NEW step \in AnswerStep,
           NEW next \in DOMAIN OfferFollowUp \cup {"idle"},
           NEW status \in NegotiationStatus, CloseNegotiation(r, step, status, next)
    PROVE  RowsInv' /\ RowsKept
  <1>0. ocall[r].offer \in OfferId
    BY AnswerAt DEF CloseNegotiation
  <1> PICK o \in OfferId : o = ocall[r].offer
    BY <1>0
  <1>1. /\ offer[o].neg \in NegotiationId /\ negotiation[offer[o].neg] \in Negotiation
        /\ Exists(offer, o)
    BY AnswerAt DEF CloseNegotiation
  <1> PICK n \in NegotiationId : n = offer[o].neg
    BY <1>1
  <1> DEFINE row == [negotiation[n] EXCEPT !.status = status]
  <1>2. row \in Negotiation /\ SameRow(row, negotiation[n])
    BY <1>1, NegotiationStatusChange
  <1>3. /\ negotiation'[n] = row
        /\ \A m \in NegotiationId \ {n} : negotiation'[m] = negotiation[m]
        /\ negotiation' \in [NegotiationId -> Negotiation \cup {NoRecord}]
        /\ UNCHANGED <<bizVars, offer, deal, announced>> /\ Go(r, Answer(next, o))
    BY <1>2 DEF CloseNegotiation, RowsInv, OfferTypeOK
  <1>4. RowsKept
    BY <1>2, <1>3 DEF RowsKept, SameRow, SameOffer, Exists
  <1>5. /\ ocall' \in [OfferRequest -> {Idle} \cup ShopHandler \cup AnswerHandler]
        /\ \A q \in OfferRequest : q # r => ocall'[q] = ocall[q]
        /\ HandlerLinked(r)'
    BY <1>1, <1>3, AnswerLinked DEF Exists
  <1>6. TypeOK' /\ OfferTypeOK'
    BY <1>3, <1>5 DEF RowsInv, TypeOK, OfferTypeOK, bizVars
  <1> QED
    BY <1>3, <1>4, <1>5, <1>6, LinkStep DEF RowsInv, RowsLinked, Exists

LEMMA AcceptOfferRows ==
    ASSUME RowsInv, NEW r \in OfferRequest, AcceptOffer(r)
    PROVE  RowsInv' /\ RowsKept
  <1>0. ocall[r].offer \in OfferId
    BY AnswerAt DEF AcceptOffer, AnswerStep
  <1> PICK o \in OfferId : o = ocall[r].offer
    BY <1>0
  <1>1. /\ offer[o] \in Offer /\ Exists(offer, o)
        /\ offer[o].neg \in NegotiationId /\ negotiation[offer[o].neg] \in Negotiation
        /\ offer[o].biz \in Business
    BY AnswerAt DEF AcceptOffer, AnswerStep, Offer
  <1> PICK b \in Business, n \in NegotiationId : b = offer[o].biz /\ n = offer[o].neg
    BY <1>1
  <1>2. /\ SetStatus(b, "SOLD", "SOLD") /\ deal' = deal \cup {o} /\ Go(r, Answer("accepted", o))
        /\ UNCHANGED <<call, publications, journal, announced>>
    BY DEF AcceptOffer, ClaimBusiness
  <1>3. ASSUME NEW x \in OfferId
        PROVE  /\ offer'[x] \in Offer \cup {NoRecord}
               /\ Exists(offer, x) => SameOffer(offer'[x], offer[x])
               /\ ~ Exists(offer, x) => offer'[x] = offer[x]
    <2>1. offer'[x] = IF x = o THEN [offer[x] EXCEPT !.status = "ACCEPTED"]
                      ELSE IF IsOpen(x) /\ offer[x].biz = b THEN [offer[x] EXCEPT !.status = "EXPIRED"]
                      ELSE offer[x]
      BY DEF AcceptOffer
    <2>2. offer[x] \in Offer \cup {NoRecord} /\ (Exists(offer, x) => offer[x] \in Offer)
      BY DEF RowsInv, OfferTypeOK, Exists
    <2>3. CASE x = o
      <3>1. offer'[x] = [offer[x] EXCEPT !.status = "ACCEPTED"] /\ offer[x] \in Offer
        BY <1>1, <2>1, <2>3
      <3>2. "ACCEPTED" \in OfferStatus
        BY DEF OfferStatus, ClosedStatus
      <3>3. offer'[x] \in Offer /\ SameOffer(offer'[x], offer[x])
        BY <3>1, <3>2, OfferStatusChange
      <3> QED
        BY <1>1, <2>3, <3>3
    <2>4. CASE x # o /\ IsOpen(x) /\ offer[x].biz = b
      <3>1. offer'[x] = [offer[x] EXCEPT !.status = "EXPIRED"] /\ offer[x] \in Offer
        BY <2>1, <2>2, <2>4 DEF IsOpen
      <3>2. "EXPIRED" \in OfferStatus
        BY DEF OfferStatus, ClosedStatus
      <3>3. offer'[x] \in Offer /\ SameOffer(offer'[x], offer[x])
        BY <3>1, <3>2, OfferStatusChange
      <3> QED
        BY <2>4, <3>3 DEF IsOpen
    <2>5. CASE x # o /\ ~ (IsOpen(x) /\ offer[x].biz = b)
      BY <2>1, <2>2, <2>5 DEF SameOffer, SameRow, Exists
    <2> QED
      BY <2>3, <2>4, <2>5
  <1>4. ASSUME NEW m \in NegotiationId
        PROVE  /\ negotiation'[m] \in Negotiation \cup {NoRecord}
               /\ Exists(negotiation, m) => SameRow(negotiation'[m], negotiation[m])
    <2>1. negotiation'[m] =
              IF m = n THEN [negotiation[m] EXCEPT !.status = "ACCEPTED"]
              ELSE IF negotiation[m].status = "OPEN" /\ negotiation[m].biz = b
                   THEN [negotiation[m] EXCEPT !.status = "EXPIRED"]
              ELSE negotiation[m]
      BY DEF AcceptOffer
    <2>2. /\ negotiation[m] \in Negotiation \cup {NoRecord}
          /\ negotiation[m].status = "OPEN" => negotiation[m] \in Negotiation
          /\ Exists(negotiation, m) => negotiation[m] \in Negotiation
      BY DEF RowsInv, OfferTypeOK, Exists, NoRecord
    <2>3. CASE m = n
      BY <1>1, <2>1, <2>3, NegotiationStatusChange DEF NegotiationStatus
    <2>4. CASE m # n /\ negotiation[m].status = "OPEN" /\ negotiation[m].biz = b
      BY <2>1, <2>2, <2>4, NegotiationStatusChange DEF NegotiationStatus
    <2>5. CASE m # n /\ ~ (negotiation[m].status = "OPEN" /\ negotiation[m].biz = b)
      BY <2>1, <2>2, <2>5 DEF SameRow, Exists
    <2> QED
      BY <2>3, <2>4, <2>5
  <1>5. RowsKept
    BY <1>3, <1>4 DEF RowsKept
  <1>6. Exists(offer, o)'
    BY <1>1, <1>5 DEF RowsKept, SameOffer, SameRow, Exists
  <1>7. /\ ocall' \in [OfferRequest -> {Idle} \cup ShopHandler \cup AnswerHandler]
        /\ \A q \in OfferRequest : q # r => ocall'[q] = ocall[q]
        /\ HandlerLinked(r)'
    <2>1. "accepted" \in DOMAIN OfferFollowUp
      BY OfferStepNames
    <2> QED
      BY <1>2, <1>6, <2>1, AnswerLinked
  <1>8. TypeOK'
    <2>1. biz' \in [Business -> Row]
      BY <1>2, SetStatusType DEF RowsInv, BusinessStatus, ListingStatus
    <2> QED
      BY <1>2, <2>1 DEF RowsInv, TypeOK
  <1>9. OfferTypeOK'
    <2>1. /\ offer' \in [OfferId -> Offer \cup {NoRecord}]
          /\ negotiation' \in [NegotiationId -> Negotiation \cup {NoRecord}]
      BY <1>3, <1>4 DEF AcceptOffer
    <2> QED
      BY <1>2, <1>7, <2>1 DEF RowsInv, OfferTypeOK
  <1>10. \A x \in OfferId : Exists(offer, x)' => Exists(offer, x)
    BY <1>3 DEF Exists
  <1>11. \A x \in deal' : Exists(offer, x)'
    BY <1>2, <1>5, <1>6 DEF RowsInv, RowsLinked, RowsKept, SameOffer, SameRow, Exists, OfferTypeOK
  <1> QED
    BY <1>5, <1>7, <1>8, <1>9, <1>10, <1>11, LinkStep

LEMMA QuietRows ==
    ASSUME RowsInv, NEW r \in OfferRequest,
           RefuseAccept(r) \/ FailOffer(r) \/ MakeOfferFollowUp(r)
    PROVE  RowsInv' /\ RowsKept
  <1>1. UNCHANGED <<bizVars, negotiation, offer, deal>>
    BY DEF RefuseAccept, FailOffer, MakeOfferFollowUp
  <1>2. RowsKept
    BY <1>1 DEF RowsKept, SameRow, SameOffer, Exists
  <1>3. /\ ocall' \in [OfferRequest -> {Idle} \cup ShopHandler \cup AnswerHandler]
        /\ \A q \in OfferRequest : q # r => ocall'[q] = ocall[q]
        /\ HandlerLinked(r)'
    <2>1. CASE RefuseAccept(r) \/ FailOffer(r)
      BY <2>1, IdleLinked DEF RefuseAccept, FailOffer
    <2>2. CASE MakeOfferFollowUp(r)
      <3> PICK step \in DOMAIN OfferFollowUp :
              At(r, step) /\ Go(r, Answer(OfferFollowUp[step].next, ocall[r].offer))
        BY <2>2 DEF MakeOfferFollowUp
      <3>1. ocall[r].offer \in OfferId /\ Exists(offer, ocall[r].offer)
        BY AnswerAt
      <3> PICK o \in OfferId : o = ocall[r].offer
        BY <3>1
      <3>2. Exists(offer, o)'
        BY <1>1, <3>1 DEF Exists
      <3>3. OfferFollowUp[step].next \in DOMAIN OfferFollowUp \cup {"idle"}
        BY OfferStepNames
      <3> QED
        BY <3>2, <3>3, AnswerLinked
    <2> QED
      BY <2>1, <2>2
  <1>4. announced' \subseteq (Watched \X OfferId)
    BY DEF RefuseAccept, FailOffer, MakeOfferFollowUp, RowsInv, OfferTypeOK
  <1>5. TypeOK' /\ OfferTypeOK'
    BY <1>1, <1>3, <1>4 DEF RowsInv, TypeOK, OfferTypeOK, bizVars
  <1> QED
    BY <1>1, <1>2, <1>3, <1>5, LinkStep DEF RowsInv, RowsLinked, Exists

\* Every step of the marketplace keeps the rows, their types and their links.
LEMMA RowsStep ==
    ASSUME RowsInv, [MarketNext]_vars
    PROVE  RowsInv' /\ RowsKept
  <1>1. CASE UNCHANGED offerVars /\ [Next]_bizVars
    <2>1. TypeOK'
      BY <1>1, TypeStep DEF RowsInv
    <2> QED
      BY <1>1, <2>1
      DEF offerVars, RowsInv, RowsLinked, OfferLinked, HandlerLinked, Exists, Seller, OfferTypeOK,
          RowsKept, SameRow, SameOffer
  <1>2. ASSUME NEW r \in OfferRequest, OfferArrive(r)
        PROVE  RowsInv' /\ RowsKept
    <2>1. {"counter", "rejectOffer", "accept", "withdrawOffer"} \subseteq AnswerStep
      BY DEF AnswerStep
    <2> QED
      BY <1>2, <2>1, BeginOfferRows, BeginAnswerRows
      DEF OfferArrive, BeginCounter, BeginReject, BeginAccept, BeginWithdraw, MayAnswer, Participant
  <1>3. ASSUME NEW r \in OfferRequest, OfferProceed(r)
        PROVE  RowsInv' /\ RowsKept
    <2>1. CASE RejectOffer(r) \/ WithdrawOffer(r)
      BY <2>1, CloseOfferRows DEF RejectOffer, WithdrawOffer, AnswerStep, OfferStatus, ClosedStatus
    <2>2. CASE RejectNegotiation(r) \/ WithdrawNegotiation(r)
      <3>1. "rejected" \in DOMAIN OfferFollowUp
        BY OfferStepNames
      <3> QED
        BY <2>2, <3>1, CloseNegotiationRows
        DEF RejectNegotiation, WithdrawNegotiation, AnswerStep, NegotiationStatus
    <2> QED
      BY <1>3, <2>1, <2>2, FindNegotiationRows, CreateNegotiationRows, InsertOfferRows,
         CounterRows, AcceptOfferRows, QuietRows
      DEF OfferProceed
  <1>4. ASSUME NEW r \in OfferRequest, FailOffer(r)
        PROVE  RowsInv' /\ RowsKept
    BY <1>4, QuietRows
  <1> QED
    BY <1>1, <1>2, <1>3, <1>4 DEF MarketNext, OfferStep, vars

LEMMA RowsInit == MarketInit => RowsInv
  <1> SUFFICES ASSUME MarketInit PROVE RowsInv
    OBVIOUS
  <1>1. TypeOK
    BY InitType DEF MarketInit
  <1>2. OfferTypeOK
    BY DEF MarketInit, OfferInit, OfferTypeOK
  <1>3. RowsLinked
    BY HandlerTypes DEF MarketInit, OfferInit, RowsLinked, OfferLinked, HandlerLinked, Exists
  <1> QED
    BY <1>1, <1>2, <1>3 DEF RowsInv

\* Types of all rows and handlers of the marketplace.
THEOREM MarketTypeCorrect == MarketSpec => [](TypeOK /\ OfferTypeOK)
  <1>1. RowsInv => TypeOK /\ OfferTypeOK
    BY DEF RowsInv
  <1>2. RowsInv /\ [MarketNext]_vars => RowsInv'
    BY RowsStep
  <1> QED
    BY <1>1, <1>2, RowsInit, PTL DEF MarketSpec

\* Offers, negotiations, deals and the handlers working on them hang together.
THEOREM RowsStayLinked == MarketSpec => []RowsLinked
  <1>1. RowsInv => RowsLinked
    BY DEF RowsInv
  <1>2. RowsInv /\ [MarketNext]_vars => RowsInv'
    BY RowsStep
  <1> QED
    BY <1>1, <1>2, RowsInit, PTL DEF MarketSpec

-----------------------------------------------------------------------------
(* The marketplace implements Sale. *)

OnSale(b) == biz[b].status = "PUBLISHED"

\* A handler of Businesses moves one business on or off the market, or none.
LEMMA BusinessSaleStep ==
    ASSUME TypeOK, Next
    PROVE  \/ publications' = publications /\ \A c \in Business : OnSale(c)' <=> OnSale(c)
           \/ \E b \in Business :
                 /\ OnSale(b)' /\ publications' = [publications EXCEPT ![b] = @ + 1]
                 /\ \A c \in Business \ {b} : OnSale(c)' <=> OnSale(c)
           \/ \E b \in Business :
                 /\ ~ OnSale(b)' /\ publications' = publications
                 /\ \A c \in Business \ {b} : OnSale(c)' <=> OnSale(c)
  <1> USE DEF OnSale, TypeOK, Row
  <1> PICK r \in Request : Arrive(r) \/ Proceed(r) \/ Fail(r)
    BY DEF Next
  <1>1. CASE UNCHANGED <<biz, publications>>
    BY <1>1
  <1>2. ASSUME NEW c \in Business, NEW filled \in SUBSET {"details"}, CreateBusiness(r, c, filled)
        PROVE  /\ ~ OnSale(c)' /\ publications' = publications
               /\ \A d \in Business \ {c} : OnSale(d)' <=> OnSale(d)
    BY <1>2 DEF CreateBusiness
  <1>3. CASE CommitPublish(r)
    <2>1. call[r].biz \in Business
      BY <1>3, ContinueType DEF CommitPublish, Step, WriteStep, FollowUp
    <2>2. PICK b \in Business : b = call[r].biz
      BY <2>1
    <2>3. /\ OnSale(b)' /\ publications' = [publications EXCEPT ![b] = @ + 1]
          /\ \A c \in Business \ {b} : OnSale(c)' <=> OnSale(c)
      BY <1>3, <2>2 DEF CommitPublish, SetStatus
    <2> QED
      BY <2>3
  <1>4. CASE CommitUnpublish(r) \/ SuspendBusiness(r)
    <2>1. call[r].biz \in Business
      BY <1>4, ContinueType DEF CommitUnpublish, SuspendBusiness, Step, WriteStep, FollowUp
    <2>2. PICK b \in Business : b = call[r].biz
      BY <2>1
    <2>3. /\ ~ OnSale(b)' /\ publications' = publications
          /\ \A c \in Business \ {b} : OnSale(c)' <=> OnSale(c)
      BY <1>4, <2>2 DEF CommitUnpublish, SuspendBusiness, SetStatus
    <2> QED
      BY <2>3
  <1>5. CASE SuspendListing(r) \/ CommitRemove(r)
    BY <1>5 DEF SuspendListing, SetStatus, CommitRemove
  <1>6. ASSUME NEW step, NEW field, NEW present, CommitEdit(r, step, field, present)
        PROVE  publications' = publications /\ \A c \in Business : OnSale(c)' <=> OnSale(c)
    BY <1>6 DEF CommitEdit
  <1> QED
    BY <1>1, <1>2, <1>3, <1>4, <1>5, <1>6
    DEF Arrive, Proceed, Fail, BeginPublish, RefusePublish, BeginUnpublish, BeginChange,
        BeginSuspend, MakeFollowUp

\* Deals stay with their business.
LEMMA DealsKept ==
    ASSUME RowsInv, RowsKept, deal' = deal, NEW b \in Business
    PROVE  DealsOf(b)' = DealsOf(b)
  BY DEF RowsInv, RowsLinked, RowsKept, SameOffer, SameRow, DealsOf, OfferTypeOK

\* A step of one request on the offers, other than a successful accept, leaves alone the business
\* rows, the deals and the handlers of Businesses.
LEMMA OfferRequestFrame ==
    ASSUME NEW r \in OfferRequest, ~ AcceptOffer(r),
           OfferArrive(r) \/ OfferProceed(r) \/ FailOffer(r)
    PROVE  UNCHANGED <<bizVars, deal>>
  <1>1. CASE OfferArrive(r)
    BY <1>1 DEF OfferArrive, BeginOffer, BeginCounter, BeginReject, BeginAccept, BeginWithdraw,
         BeginAnswer
  <1>2. CASE FindNegotiation(r) \/ \E n \in NegotiationId : CreateNegotiation(r, n)
    BY <1>2 DEF FindNegotiation, CreateNegotiation
  <1>3. CASE \E o \in OfferId : InsertOffer(r, o) \/ Counter(r, o)
    BY <1>3 DEF InsertOffer, Counter
  <1>4. CASE RejectOffer(r) \/ WithdrawOffer(r)
    BY <1>4 DEF RejectOffer, WithdrawOffer, CloseOffer
  <1>5. CASE RejectNegotiation(r) \/ WithdrawNegotiation(r)
    BY <1>5 DEF RejectNegotiation, WithdrawNegotiation, CloseNegotiation
  <1>6. CASE RefuseAccept(r) \/ MakeOfferFollowUp(r) \/ FailOffer(r)
    BY <1>6 DEF RefuseAccept, MakeOfferFollowUp, FailOffer
  <1> QED
    BY <1>1, <1>2, <1>3, <1>4, <1>5, <1>6 DEF OfferProceed

\* All but a successful accept leave the business rows and the deals alone.
LEMMA OfferStepFrame ==
    ASSUME OfferStep, ~ \E r \in OfferRequest : AcceptOffer(r)
    PROVE  UNCHANGED <<biz, publications, call, deal>>
  BY OfferRequestFrame DEF OfferStep, bizVars

\* No step of OffersService touches the handlers of Businesses or publishes.
LEMMA OfferStepCalls ==
    ASSUME OfferStep
    PROVE  UNCHANGED <<call, publications>>
  <1>1. ASSUME NEW r \in OfferRequest, AcceptOffer(r)
        PROVE  UNCHANGED <<call, publications>>
    BY <1>1 DEF AcceptOffer
  <1>2. CASE ~ \E r \in OfferRequest : AcceptOffer(r)
    BY <1>2, OfferStepFrame
  <1> QED
    BY <1>1, <1>2

\* A successful accept adds the deal to its business and ends the sale.
LEMMA AcceptEffect ==
    ASSUME RowsInv, RowsKept, NEW r \in OfferRequest, AcceptOffer(r)
    PROVE  \E b \in Business, o \in OfferId :
               /\ OnSale(b) /\ ~ OnSale(b)' /\ publications' = publications
               /\ \A c \in Business \ {b} : (OnSale(c)' <=> OnSale(c)) /\ DealsOf(c)' = DealsOf(c)
               /\ \A c \in Business : o \notin DealsOf(c)
               /\ DealsOf(b)' = DealsOf(b) \cup {o}
  <1>0. /\ ocall[r].offer \in OfferId /\ offer[ocall[r].offer].biz \in Business
        /\ Exists(offer, ocall[r].offer)
    BY AnswerAt DEF AcceptOffer, AnswerStep, Offer
  <1> PICK o \in OfferId, b \in Business : o = ocall[r].offer /\ b = offer[o].biz
    BY <1>0
  <1>1. /\ AcceptSucceeds(o) /\ SetStatus(b, "SOLD", "SOLD") /\ deal' = deal \cup {o}
        /\ publications' = publications
    BY DEF AcceptOffer, ClaimBusiness
  <1>2. /\ OnSale(b) /\ ~ OnSale(b)' /\ \A c \in Business \ {b} : OnSale(c)' <=> OnSale(c)
    BY <1>1 DEF AcceptSucceeds, SetStatus, OnSale, RowsInv, TypeOK, Row
  <1>3. o \notin deal
    BY <1>1 DEF AcceptSucceeds
  <1>4. \A x \in deal \cup {o} : offer'[x].biz = offer[x].biz
    BY <1>0 DEF RowsInv, RowsLinked, RowsKept, SameOffer, SameRow, OfferTypeOK
  <1>5. /\ \A c \in Business \ {b} : DealsOf(c)' = DealsOf(c)
        /\ \A c \in Business : o \notin DealsOf(c)
        /\ DealsOf(b)' = DealsOf(b) \cup {o}
    BY <1>1, <1>3, <1>4 DEF DealsOf
  <1> QED
    BY <1>1, <1>2, <1>5

LEMMA SaleViewInit == MarketInit => SaleView!Init
  <1> SUFFICES ASSUME MarketInit PROVE SaleView!Init
    OBVIOUS
  <1>1. \A b \in Business : DealsOf(b) = {}
    BY DEF MarketInit, OfferInit, DealsOf
  <1>2. \A b \in Business : publications[b] = IF biz[b].status = "PUBLISHED" THEN 1 ELSE 0
    BY DEF MarketInit, Init, SeedRow, NoRow
  <1>3. publications = [b \in Business |-> publications[b]]
    BY DEF MarketInit, Init
  <1> QED
    BY <1>1, <1>2, <1>3 DEF SaleView!Init

LEMMA SaleViewStep ==
    ASSUME RowsInv, RowsInv', RowsKept, [MarketNext]_vars
    PROVE  [SaleView!Next]_(SaleView!saleVars)
  <1> USE DEF OnSale
  <1>1. CASE UNCHANGED <<biz, publications, deal>>
    BY <1>1, DealsKept DEF SaleView!saleVars
  <1>2. CASE Next /\ UNCHANGED offerVars
    <2>1. \A b \in Business : DealsOf(b)' = DealsOf(b)
      BY <1>2, DealsKept DEF offerVars
    <2>2. CASE publications' = publications /\ \A c \in Business : OnSale(c)' <=> OnSale(c)
      BY <2>1, <2>2 DEF SaleView!saleVars
    <2>3. ASSUME NEW b \in Business,
                 OnSale(b)', publications' = [publications EXCEPT ![b] = @ + 1],
                 \A c \in Business \ {b} : OnSale(c)' <=> OnSale(c)
          PROVE  SaleView!PutUp(b)
      BY <2>1, <2>3 DEF SaleView!PutUp
    <2>4. ASSUME NEW b \in Business, ~ OnSale(b)', publications' = publications,
                 \A c \in Business \ {b} : OnSale(c)' <=> OnSale(c)
          PROVE  SaleView!TakeDown(b)
      BY <2>1, <2>4 DEF SaleView!TakeDown
    <2> QED
      BY <1>2, <2>2, <2>3, <2>4, BusinessSaleStep DEF RowsInv, SaleView!Next
  <1>3. ASSUME NEW r \in OfferRequest, AcceptOffer(r)
        PROVE  SaleView!Next
    <2> PICK b \in Business, o \in OfferId :
               /\ OnSale(b) /\ ~ OnSale(b)' /\ publications' = publications
               /\ \A c \in Business \ {b} : (OnSale(c)' <=> OnSale(c)) /\ DealsOf(c)' = DealsOf(c)
               /\ \A c \in Business : o \notin DealsOf(c)
               /\ DealsOf(b)' = DealsOf(b) \cup {o}
      BY <1>3, AcceptEffect
    <2>1. SaleView!Win(b, o)
      BY DEF SaleView!Win
    <2> QED
      BY <2>1 DEF SaleView!Next
  <1> QED
    BY <1>1, <1>2, <1>3, OfferStepFrame DEF MarketNext, vars, bizVars, offerVars

\* However the handlers interleave, businesses are put up, taken down and won
\* the way Sale allows.
THEOREM MarketImplementsSale == MarketSpec => ImplementsSale
  <1>1. RowsInv /\ [MarketNext]_vars => RowsInv'
    BY RowsStep
  <1>2. RowsInv /\ RowsInv' /\ [MarketNext]_vars => [SaleView!Next]_(SaleView!saleVars)
    BY RowsStep, SaleViewStep
  <1> QED
    BY <1>1, <1>2, RowsInit, SaleViewInit, PTL DEF MarketSpec, ImplementsSale, SaleView!Spec

\* A business never has more deals than it was put on the market.
THEOREM DealsAreWithinPublications == MarketSpec => []DealsWithinPublications
  BY MarketImplementsSale, SaleView!OneWinner, PTL DEF ImplementsSale, DealsWithinPublications

-----------------------------------------------------------------------------
(* One deal per business, with publish as the source has it. *)

\* findOwned hides the price from publish, which then finds every draft wanting.
LEMMA NothingPasses ==
    ASSUME TypeOK, OwnerViewHidesPrice, NEW b \in Business
    PROVE  ~ PublishPasses(b)
  BY DEF PublishPasses, IsComplete, OwnerView, Field, TypeOK, Row

NoPublish ==
    \A b \in Business : publications[b] \in {0, 1} /\ ~ InFlight({"publish"}, b)

LEMMA NoPublishStep ==
    ASSUME OwnerViewHidesPrice, TypeOK, NoPublish, [MarketNext]_vars
    PROVE  NoPublish'
  <1>1. CASE UNCHANGED <<call, publications>>
    BY <1>1 DEF NoPublish, InFlight
  <1>2. CASE Next
    <2> SUFFICES ASSUME NEW b \in Business
                 PROVE  publications'[b] = publications[b] /\ ~ InFlight({"publish"}, b)'
      BY DEF NoPublish
    <2>1. ~ InFlight({"publish"}, b)'
      BY <1>2, OnlyBeginPublish, NothingPasses DEF NoPublish
    <2>2. ~ \E r \in Request : CommitPublish(r) /\ call[r].biz = b
      BY DEF NoPublish, InFlight, CommitPublish, Continue
    <2> QED
      BY <1>2, <2>1, <2>2, DraftStep
  <1>3. CASE OfferStep
    BY <1>1, <1>3, OfferStepCalls
  <1> QED
    BY <1>1, <1>2, <1>3 DEF MarketNext, vars, bizVars

\* Two buyers never both acquire the same business: with publish refusing every
\* draft a business is on the market once, and that sale has one winner.
THEOREM OneDealPerBusiness ==
    ASSUME OwnerViewHidesPrice
    PROVE  MarketSpec => []AtMostOneDeal
  <1>1. MarketInit => NoPublish
    BY DEF MarketInit, Init, NoPublish, InFlight
  <1>2. TypeOK /\ NoPublish /\ [MarketNext]_vars => NoPublish'
    BY NoPublishStep
  <1>3. OfferTypeOK /\ NoPublish /\ DealsWithinPublications => AtMostOneDeal
    <2> SUFFICES ASSUME OfferTypeOK, NoPublish, DealsWithinPublications, NEW b \in Business
                 PROVE  Cardinality(DealsOf(b)) <= 1
      BY DEF AtMostOneDeal
    <2>0. 1 \in Int /\ MaxOffers \in Int
      BY BoundAssumption
    <2>1. IsFiniteSet(OfferId) /\ DealsOf(b) \subseteq OfferId
      <3>1. IsFiniteSet(1 .. MaxOffers)
        BY <2>0, FS_Interval
      <3>2. DealsOf(b) \subseteq OfferId
        BY DEF DealsOf, OfferTypeOK
      <3> QED
        BY <3>1, <3>2 DEF OfferId
    <2>2. Cardinality(DealsOf(b)) \in Nat
      BY <2>1, FS_Subset, FS_CardinalityType
    <2>3. SaleView!Cardinality(DealsOf(b)) = Cardinality(DealsOf(b))
      BY DEF SaleView!Cardinality, Cardinality
    <2>4. SaleView!Cardinality([c \in Business |-> DealsOf(c)][b])
            + (IF [c \in Business |-> biz[c].status = "PUBLISHED"][b] THEN 1 ELSE 0) <= publications[b]
      BY DEF DealsWithinPublications, SaleView!OneWinnerPerSale
    <2>5. [c \in Business |-> DealsOf(c)][b] = DealsOf(b)
      OBVIOUS
    <2>6. publications[b] \in {0, 1}
      BY DEF NoPublish
    <2> QED
      BY <2>2, <2>3, <2>4, <2>5, <2>6
  <1> QED
    BY <1>1, <1>2, <1>3, MarketTypeCorrect, DealsAreWithinPublications, PTL DEF MarketSpec

-----------------------------------------------------------------------------
(* What a step may do to an offer. *)

\* An existing offer is untouched, or closed from an open status, or accepted
\* with its deal, or countered by a handler that was on its way to do so.
OfferEffect(x) ==
    \/ offer'[x] = offer[x]
    \/ IsOpen(x) /\ offer'[x].status \in {"REJECTED", "WITHDRAWN", "EXPIRED"}
    \/ IsOpen(x) /\ offer'[x].status = "ACCEPTED" /\ x \in deal'
    \/ /\ Answering({"counter"}, x) /\ offer'[x].status = "COUNTERED"
       /\ \E c \in OfferId : offer'[c] # NoRecord /\ offer'[c].parent = x

LEMMA OfferEffects ==
    ASSUME RowsInv, OfferStep, NEW x \in OfferId
    PROVE  IF Exists(offer, x) THEN OfferEffect(x)
                               ELSE offer'[x] = offer[x] \/ offer'[x].status = "SUBMITTED"
  <1> USE DEF OfferEffect
  <1> PICK r \in OfferRequest : OfferArrive(r) \/ OfferProceed(r) \/ FailOffer(r)
    BY DEF OfferStep
  <1>1. CASE UNCHANGED offer
    BY <1>1
  <1>2. ASSUME NEW o \in OfferId, InsertOffer(r, o)
        PROVE  offer'[x] = offer[x] \/ (~ Exists(offer, x) /\ offer'[x].status = "SUBMITTED")
    BY <1>2 DEF InsertOffer, IsFresh, RowsInv, OfferTypeOK
  <1>3. ASSUME NEW new \in OfferId, Counter(r, new)
        PROVE  \/ offer'[x] = offer[x]
               \/ ~ Exists(offer, x) /\ offer'[x].status = "SUBMITTED"
               \/ Exists(offer, x) /\ OfferEffect(x)
    <2>0. ocall[r].offer \in OfferId /\ ocall[r] \in AnswerHandler
      BY <1>3, AnswerAt DEF Counter, AnswerStep
    <2> PICK o \in OfferId : o = ocall[r].offer
      BY <2>0
    <2>1. offer[o] \in Offer /\ Exists(offer, o)
      BY <1>3, AnswerAt DEF Counter, AnswerStep
    <2>2. offer' = [offer EXCEPT
              ![o].status = "COUNTERED",
              ![new] = [offer[o] EXCEPT !.status = "SUBMITTED", !.by = Responder(o), !.parent = o]]
      BY <1>3 DEF Counter
    <2>3. new # o /\ ~ Exists(offer, new)
      BY <1>3, <2>1 DEF Counter, IsFresh
    <2>4. /\ offer'[new].status = "SUBMITTED" /\ offer'[new].parent = o
          /\ offer'[o].status = "COUNTERED"
          /\ \A y \in OfferId \ {o, new} : offer'[y] = offer[y]
      BY <2>1, <2>2, <2>3 DEF RowsInv, OfferTypeOK, Offer
    <2>5. offer'[new] # NoRecord
      BY <2>4 DEF NoRecord
    <2>6. Answering({"counter"}, o)
      BY <1>3, <2>0 DEF Counter, At, Answering, Answer, AnswerHandler
    <2> QED
      BY <2>1, <2>3, <2>4, <2>5, <2>6
  <1>4. ASSUME NEW step \in AnswerStep, NEW next, NEW status \in {"REJECTED", "WITHDRAWN"},
               CloseOffer(r, step, status, next)
        PROVE  offer'[x] = offer[x] \/ (Exists(offer, x) /\ OfferEffect(x))
    <2>0. ocall[r].offer \in OfferId
      BY <1>4, AnswerAt DEF CloseOffer
    <2> PICK o \in OfferId : o = ocall[r].offer
      BY <2>0
    <2>1. CASE IsOpen(o)
      <3>1. offer' = [offer EXCEPT ![o].status = status] /\ offer[o] \in Offer
        BY <1>4, <2>1, RowTypes DEF CloseOffer, RowsInv
      <3>2. offer'[o].status = status /\ \A y \in OfferId \ {o} : offer'[y] = offer[y]
        BY <3>1 DEF RowsInv, OfferTypeOK, Offer
      <3> QED
        BY <2>1, <3>2 DEF IsOpen
    <2>2. CASE ~ IsOpen(o)
      BY <1>4, <2>2 DEF CloseOffer
    <2> QED
      BY <2>1, <2>2
  <1>5. CASE AcceptOffer(r)
    <2>0. ocall[r].offer \in OfferId
      BY <1>5, AnswerAt DEF AcceptOffer, AnswerStep
    <2> PICK o \in OfferId : o = ocall[r].offer
      BY <2>0
    <2>1. /\ IsOpen(o) /\ o \in deal' /\ offer[o] \in Offer
      BY <1>5, AnswerAt DEF AcceptOffer, AcceptSucceeds, IsOpen, OPEN_OFFER_STATUSES, AnswerStep
    <2>2. offer'[x] = IF x = o THEN [offer[x] EXCEPT !.status = "ACCEPTED"]
                      ELSE IF IsOpen(x) /\ offer[x].biz = offer[o].biz
                           THEN [offer[x] EXCEPT !.status = "EXPIRED"]
                      ELSE offer[x]
      BY <1>5 DEF AcceptOffer
    <2>3. CASE x = o
      BY <2>1, <2>2, <2>3 DEF Offer, IsOpen
    <2>4. CASE x # o /\ IsOpen(x)
      <3>1. offer[x] \in Offer
        BY <2>4, RowTypes DEF RowsInv
      <3> QED
        BY <2>2, <2>4, <3>1 DEF Offer, IsOpen
    <2>5. CASE x # o /\ ~ IsOpen(x)
      BY <2>2, <2>5
    <2> QED
      BY <2>3, <2>4, <2>5
  <1>6. CASE RejectOffer(r) \/ WithdrawOffer(r)
    BY <1>4, <1>6 DEF RejectOffer, WithdrawOffer, AnswerStep
  <1> QED
    BY <1>1, <1>2, <1>3, <1>5, <1>6
    DEF OfferArrive, OfferProceed, BeginOffer, BeginCounter, BeginReject, BeginAccept,
        BeginWithdraw, BeginAnswer, FindNegotiation, CreateNegotiation, RejectNegotiation,
        WithdrawNegotiation, CloseNegotiation, RefuseAccept, MakeOfferFollowUp, FailOffer

\* Only an accept adds a deal, and it does so together with the status.
LEMMA DealEffects ==
    ASSUME RowsInv, OfferStep
    PROVE  deal \subseteq deal' /\ \A o \in deal' \ deal : offer'[o].status = "ACCEPTED"
  <1>1. ASSUME NEW r \in OfferRequest, AcceptOffer(r)
        PROVE  deal \subseteq deal' /\ \A o \in deal' \ deal : offer'[o].status = "ACCEPTED"
    <2>0. /\ ocall[r].offer \in OfferId /\ offer[ocall[r].offer] \in Offer
      BY <1>1, AnswerAt DEF AcceptOffer, AnswerStep
    <2> PICK o \in OfferId : o = ocall[r].offer
      BY <2>0
    <2>1. deal' = deal \cup {o}
      BY <1>1 DEF AcceptOffer
    <2>2. offer'[o] = [offer[o] EXCEPT !.status = "ACCEPTED"]
      BY <1>1 DEF AcceptOffer
    <2> QED
      BY <2>0, <2>1, <2>2 DEF Offer
  <1>2. CASE ~ \E r \in OfferRequest : AcceptOffer(r)
    BY <1>2, OfferStepFrame
  <1> QED
    BY <1>1, <1>2

LEMMA AcceptedStep ==
    ASSUME RowsInv, AcceptedOfferHasDeal, [MarketNext]_vars
    PROVE  AcceptedOfferHasDeal'
  <1>1. CASE UNCHANGED offerVars
    BY <1>1 DEF offerVars, AcceptedOfferHasDeal, Exists
  <1>2. CASE OfferStep
    <2>1. RowsKept
      BY RowsStep
    <2>2. ASSUME NEW x \in OfferId, offer'[x].status = "ACCEPTED"
          PROVE  x \in deal'
      <3>1. deal \subseteq deal'
        BY <1>2, DealEffects
      <3> QED
        BY <1>2, <2>2, <3>1, OfferEffects DEF OfferEffect, AcceptedOfferHasDeal
    <2>3. ASSUME NEW x \in deal'
          PROVE  \/ offer'[x].status = "ACCEPTED"
                 \/ \E c \in OfferId : offer'[c] # NoRecord /\ offer'[c].parent = x
      <3>1. CASE x \notin deal
        BY <1>2, <3>1, DealEffects
      <3>2. CASE x \in deal /\ offer[x].status = "ACCEPTED"
        <4>1. x \in OfferId /\ Exists(offer, x) /\ ~ IsOpen(x)
          BY <3>2 DEF RowsInv, OfferTypeOK, RowsLinked, IsOpen, OPEN_OFFER_STATUSES
        <4>2. OfferEffect(x)
          BY <1>2, <4>1, OfferEffects
        <4> QED
          BY <3>2, <4>1, <4>2 DEF OfferEffect
      <3>3. ASSUME NEW c \in OfferId, Exists(offer, c), offer[c].parent = x
            PROVE  offer'[c] # NoRecord /\ offer'[c].parent = x
        BY <2>1, <3>3 DEF RowsKept, SameOffer, SameRow
      <3> QED
        BY <3>1, <3>2, <3>3 DEF AcceptedOfferHasDeal
    <2> QED
      BY <2>2, <2>3 DEF AcceptedOfferHasDeal, Exists
  <1> QED
    BY <1>1, <1>2 DEF MarketNext, vars

\* The accepted offer and its deal row: neither without the other, except that a
\* counter overtaken by the accept may have overwritten the status.
THEOREM AcceptedOffersHaveDeals == MarketSpec => []AcceptedOfferHasDeal
  <1>1. MarketInit => AcceptedOfferHasDeal
    BY DEF MarketInit, OfferInit, AcceptedOfferHasDeal, NoRecord
  <1>2. RowsInv /\ [MarketNext]_vars => RowsInv'
    BY RowsStep
  <1>3. RowsInv /\ AcceptedOfferHasDeal /\ [MarketNext]_vars => AcceptedOfferHasDeal'
    BY AcceptedStep
  <1> QED
    BY <1>1, <1>2, <1>3, RowsInit, PTL DEF MarketSpec

-----------------------------------------------------------------------------
(* What a handler newly in flight must have read. *)

\* A counter sets out only on an offer it finds open.
LEMMA CounterFromOpen ==
    ASSUME RowsInv, OfferStep, NEW x \in OfferId,
           ~ Answering({"counter"}, x), Answering({"counter"}, x)'
    PROVE  IsOpen(x)
  <1> PICK q \in OfferRequest : ocall'[q] = [at |-> "counter", offer |-> x]
    BY DEF Answering, Answer
  <1>0. ocall[q] # [at |-> "counter", offer |-> x]
    BY DEF Answering, Answer
  <1>1. ASSUME NEW r \in OfferRequest, NEW step, NEW o, Go(r, Answer(step, o)), step # "counter"
        PROVE  FALSE
    BY <1>0, <1>1 DEF Go, Answer, Idle, RowsInv, OfferTypeOK
  <1>2. ASSUME NEW r \in OfferRequest, NEW u, NEW o, BeginCounter(r, u, o)
        PROVE  IsOpen(x)
    BY <1>0, <1>2 DEF BeginCounter, BeginAnswer, Go, Answer, RowsInv, OfferTypeOK
  <1>3. ASSUME NEW r \in OfferRequest, Go(r, Idle)
        PROVE  FALSE
    BY <1>0, <1>3 DEF Go, Idle, RowsInv, OfferTypeOK
  <1>4. ASSUME NEW r \in OfferRequest,
               \/ \E u \in User, b \in Business : BeginOffer(r, u, b)
               \/ FindNegotiation(r) \/ \E n \in NegotiationId : CreateNegotiation(r, n)
        PROVE  FALSE
    <2>1. ASSUME NEW u \in User, NEW b \in Business, BeginOffer(r, u, b)
          PROVE  FALSE
      BY <1>0, <2>1 DEF BeginOffer, Go, RowsInv, OfferTypeOK
    <2>2. ASSUME NEW step \in ShopStep, NEW n, At(r, step),
                 \/ Go(r, [ocall[r] EXCEPT !.at = "createNegotiation"])
                 \/ Go(r, [ocall[r] EXCEPT !.at = "insertOffer", !.neg = n])
          PROVE  FALSE
      <3>1. ocall[r] \in ShopHandler
        BY <2>2, ShopAt
      <3>2. ocall'[r].at # "counter"
        BY <2>2, <3>1 DEF Go, ShopHandler, RowsInv, OfferTypeOK
      <3> QED
        BY <1>0, <2>2, <3>2 DEF Go, RowsInv, OfferTypeOK
    <2> QED
      BY <1>4, <2>1, <2>2 DEF FindNegotiation, CreateNegotiation, ShopStep
  <1>5. ASSUME NEW r \in OfferRequest, OfferArrive(r)
        PROVE  IsOpen(x)
    BY <1>1, <1>2, <1>4, <1>5
    DEF OfferArrive, BeginReject, BeginAccept, BeginWithdraw, BeginAnswer
  <1>6. ASSUME NEW r \in OfferRequest, OfferProceed(r)
        PROVE  FALSE
    <2>1. CASE MakeOfferFollowUp(r)
      <3>1. \A s \in DOMAIN OfferFollowUp : OfferFollowUp[s].next # "counter"
        BY OfferStepNames
      <3> QED
        BY <1>1, <2>1, <3>1 DEF MakeOfferFollowUp
    <2> QED
      BY <1>1, <1>3, <1>4, <1>6, <2>1
      DEF OfferProceed, InsertOffer, Counter, RejectOffer, WithdrawOffer, RejectNegotiation,
          WithdrawNegotiation, CloseOffer, CloseNegotiation, AcceptOffer, RefuseAccept
  <1> QED
    BY <1>3, <1>5, <1>6 DEF OfferStep, FailOffer

LEMMA ClosedStep ==
    ASSUME RowsInv, [MarketNext]_vars, NEW o \in OfferId, Closed(o)
    PROVE  Closed(o)' /\ offer'[o] = offer[o]
  <1>1. CASE UNCHANGED offerVars
    BY <1>1 DEF offerVars, Closed, Exists, Answering
  <1>2. CASE OfferStep
    <2>1. Exists(offer, o) /\ ~ IsOpen(o) /\ ~ Answering({"counter"}, o)
      BY DEF Closed, IsOpen, OPEN_OFFER_STATUSES, ClosedStatus
    <2>2. offer'[o] = offer[o]
      BY <1>2, <2>1, OfferEffects DEF OfferEffect
    <2>3. ~ Answering({"counter"}, o)'
      BY <1>2, <2>1, CounterFromOpen
    <2> QED
      BY <2>2, <2>3 DEF Closed, Exists
  <1> QED
    BY <1>1, <1>2 DEF MarketNext, vars

\* A closed offer keeps its answer for good, unless a counter that read it open
\* is still on its way.
THEOREM AnswersAreFinal == MarketSpec => ClosedOffersStay
  <1>1. RowsInv /\ [MarketNext]_vars => RowsInv'
    BY RowsStep
  <1>2. RowsInv /\ [MarketNext]_vars =>
            [\A o \in OfferId : Closed(o) => Closed(o)' /\ offer'[o] = offer[o]]_vars
    BY ClosedStep
  <1> QED
    BY <1>1, <1>2, RowsInit, PTL DEF MarketSpec, ClosedOffersStay

\* A create sets out only on a business it finds PUBLISHED.
LEMMA ShoppingFromPublished ==
    ASSUME RowsInv, OfferStep, NEW b \in Business, ~ Shopping(b), Shopping(b)'
    PROVE  OnSale(b)
  <1> PICK q \in OfferRequest : ocall'[q] # Idle /\ ocall'[q].at \in ShopStep /\ ocall'[q].biz = b
    BY DEF Shopping
  <1>0. ~ (ocall[q] # Idle /\ ocall[q].at \in ShopStep /\ ocall[q].biz = b)
    BY DEF Shopping
  <1>1. ASSUME NEW r \in OfferRequest, NEW step \in AnswerStep \cup DOMAIN OfferFollowUp \cup {"idle"},
               NEW o, Go(r, Answer(step, o))
        PROVE  FALSE
    <2>1. Answer(step, o) = Idle \/ Answer(step, o).at \notin ShopStep
      BY OfferStepNames DEF Answer, AnswerStep, ShopStep
    <2> QED
      BY <1>0, <1>1, <2>1 DEF Go, RowsInv, OfferTypeOK
  <1>2. ASSUME NEW r \in OfferRequest, Go(r, Idle)
        PROVE  FALSE
    BY <1>0, <1>2 DEF Go, RowsInv, OfferTypeOK
  <1>3. ASSUME NEW r \in OfferRequest, NEW u \in User, NEW c \in Business, BeginOffer(r, u, c)
        PROVE  OnSale(b)
    BY <1>0, <1>3 DEF BeginOffer, Go, OnSale, RowsInv, OfferTypeOK
  <1>4. ASSUME NEW r \in OfferRequest, NEW step \in ShopStep, NEW n, At(r, step),
               \/ Go(r, [ocall[r] EXCEPT !.at = "createNegotiation"])
               \/ Go(r, [ocall[r] EXCEPT !.at = "insertOffer", !.neg = n])
        PROVE  FALSE
    <2>1. ocall[r] \in ShopHandler /\ ocall[r] # Idle /\ ocall[r].at \in ShopStep
      BY <1>4, ShopAt DEF At
    <2>2. ocall'[r].biz = ocall[r].biz
      BY <1>4, <2>1 DEF Go, ShopHandler, RowsInv, OfferTypeOK
    <2> QED
      BY <1>0, <1>4, <2>1, <2>2 DEF Go, RowsInv, OfferTypeOK
  <1>5. ASSUME NEW r \in OfferRequest, OfferArrive(r)
        PROVE  OnSale(b)
    BY <1>1, <1>3, <1>5
    DEF OfferArrive, BeginCounter, BeginReject, BeginAccept, BeginWithdraw, BeginAnswer, AnswerStep
  <1>6. ASSUME NEW r \in OfferRequest, OfferProceed(r)
        PROVE  FALSE
    <2>1. CASE FindNegotiation(r) \/ \E n \in NegotiationId : CreateNegotiation(r, n)
      BY <1>4, <2>1 DEF FindNegotiation, CreateNegotiation, ShopStep
    <2>2. CASE MakeOfferFollowUp(r)
      BY <1>1, <2>2, OfferStepNames DEF MakeOfferFollowUp
    <2> QED
      BY <1>1, <1>2, <1>6, <2>1, <2>2, OfferStepNames
      DEF OfferProceed, InsertOffer, Counter, RejectOffer, WithdrawOffer, RejectNegotiation,
          WithdrawNegotiation, CloseOffer, CloseNegotiation, AcceptOffer, RefuseAccept, AnswerStep
  <1> QED
    BY <1>2, <1>5, <1>6 DEF OfferStep, FailOffer

\* A new offer comes from a create or a counter that was on its way.
LEMMA NewOffer ==
    ASSUME RowsInv, OfferStep, NEW x \in OfferId, ~ Exists(offer, x), offer'[x] # offer[x]
    PROVE  \/ Shopping(offer'[x].biz)
           \/ \E p \in OfferId : /\ Exists(offer, p) /\ offer[p].biz = offer'[x].biz
                                 /\ Answering({"counter"}, p)
  <1> PICK r \in OfferRequest : OfferArrive(r) \/ OfferProceed(r) \/ FailOffer(r)
    BY DEF OfferStep
  <1>1. CASE UNCHANGED offer
    BY <1>1
  <1>2. ASSUME NEW o \in OfferId, InsertOffer(r, o)
        PROVE  Shopping(offer'[x].biz)
    BY <1>2 DEF InsertOffer, Shopping, At, ShopStep, RowsInv, OfferTypeOK
  <1>3. ASSUME NEW new \in OfferId, Counter(r, new)
        PROVE  \E p \in OfferId : /\ Exists(offer, p) /\ offer[p].biz = offer'[x].biz
                                  /\ Answering({"counter"}, p)
    <2>0. ocall[r].offer \in OfferId /\ ocall[r] \in AnswerHandler
      BY <1>3, AnswerAt DEF Counter, AnswerStep
    <2> PICK o \in OfferId : o = ocall[r].offer
      BY <2>0
    <2>1. offer[o] \in Offer /\ Exists(offer, o)
      BY <1>3, AnswerAt DEF Counter, AnswerStep
    <2>2. offer' = [offer EXCEPT
              ![o].status = "COUNTERED",
              ![new] = [offer[o] EXCEPT !.status = "SUBMITTED", !.by = Responder(o), !.parent = o]]
      BY <1>3 DEF Counter
    <2>3. x = new
      BY <2>1, <2>2 DEF RowsInv, OfferTypeOK
    <2>4. offer'[x].biz = offer[o].biz
      BY <2>1, <2>2, <2>3 DEF RowsInv, OfferTypeOK, Offer
    <2>5. Answering({"counter"}, o)
      BY <1>3, <2>0 DEF Counter, At, Answering, Answer, AnswerHandler
    <2> QED
      BY <2>1, <2>4, <2>5
  <1>4. ASSUME NEW step \in AnswerStep, NEW next, NEW status, CloseOffer(r, step, status, next)
        PROVE  offer'[x] = offer[x]
    <2>1. Exists(offer, ocall[r].offer)
      BY <1>4, AnswerAt DEF CloseOffer
    <2> QED
      BY <1>4, <2>1 DEF CloseOffer, RowsInv, OfferTypeOK
  <1>5. CASE AcceptOffer(r)
    BY <1>5, AnswerAt DEF AcceptOffer, AnswerStep, IsOpen
  <1> QED
    BY <1>1, <1>2, <1>3, <1>4, <1>5
    DEF OfferArrive, OfferProceed, BeginOffer, BeginCounter, BeginReject, BeginAccept,
        BeginWithdraw, BeginAnswer, FindNegotiation, CreateNegotiation, RejectNegotiation,
        WithdrawNegotiation, CloseNegotiation, RefuseAccept, MakeOfferFollowUp, FailOffer,
        RejectOffer, WithdrawOffer, AnswerStep

LEMMA SettledStep ==
    ASSUME RowsInv, [MarketNext]_vars, NEW b \in Business, Settled(b)
    PROVE  Settled(b)' /\ DealsOf(b)' = DealsOf(b)
  <1>1. CASE UNCHANGED offerVars /\ [Next]_bizVars
    <2>1. Retired(b)'
      BY <1>1, RetiredStep DEF Settled, RowsInv
    <2> QED
      BY <1>1, <2>1 DEF offerVars, Settled, Exists, IsOpen, Answering, Shopping, DealsOf
  <1>2. CASE OfferStep
    <2>1. ~ OnSale(b)
      BY DEF Settled, Retired, OnSale
    <2>2. Retired(b)'
      <3>1. ~ InFlight({"publish"}, b)'
        BY <1>2, OfferStepCalls DEF Settled, Retired, InFlight
      <3>2. ASSUME NEW r \in OfferRequest, AcceptOffer(r)
            PROVE  biz'[b].status \in {"PAUSED", "SUSPENDED", "SOLD"}
        BY <3>2 DEF AcceptOffer, ClaimBusiness, SetStatus, Settled, Retired, RowsInv, TypeOK, Row
      <3>3. CASE ~ \E r \in OfferRequest : AcceptOffer(r)
        BY <1>2, <3>1, <3>3, OfferStepFrame DEF Settled, Retired
      <3> QED
        BY <3>1, <3>2, <3>3 DEF Settled, Retired
    <2>3. ASSUME NEW x \in OfferId, Exists(offer, x)', offer'[x].biz = b
          PROVE  ~ IsOpen(x)' /\ ~ Answering({"counter"}, x)'
      <3>1. Exists(offer, x)
        <4>1. CASE ~ Exists(offer, x)
          BY <1>2, <2>3, <4>1, NewOffer DEF Settled, Exists
        <4> QED
          BY <4>1
      <3>2. offer[x].biz = b /\ offer[x] \in Offer
        BY <2>3, <3>1, RowsStep, RowTypes DEF RowsKept, SameOffer, SameRow, RowsInv
      <3>3. Closed(x)
        BY <3>1, <3>2 DEF Settled, IsOpen, OPEN_OFFER_STATUSES, Closed, Offer, OfferStatus
      <3>4. Closed(x)'
        BY <3>3, ClosedStep
      <3> QED
        BY <3>4 DEF Closed, IsOpen, OPEN_OFFER_STATUSES, ClosedStatus
    <2>4. ~ Shopping(b)'
      BY <1>2, <2>1, ShoppingFromPublished DEF Settled
    <2>5. DealsOf(b)' = DealsOf(b)
      <3>1. ASSUME NEW r \in OfferRequest, AcceptOffer(r)
            PROVE  DealsOf(b)' = DealsOf(b)
        <4> PICK c \in Business : OnSale(c) /\ \A d \in Business \ {c} : DealsOf(d)' = DealsOf(d)
          BY <3>1, AcceptEffect, RowsStep
        <4> QED
          BY <2>1
      <3>2. CASE ~ \E r \in OfferRequest : AcceptOffer(r)
        BY <1>2, <3>2, OfferStepFrame, DealsKept, RowsStep
      <3> QED
        BY <3>1, <3>2
    <2> QED
      BY <2>2, <2>3, <2>4, <2>5 DEF Settled
  <1> QED
    BY <1>1, <1>2 DEF MarketNext, vars

\* Once the market of a business is over it stays over, and its deals are final.
THEOREM SettlementIsFinal == MarketSpec => SettledStays
  <1>1. RowsInv /\ [MarketNext]_vars => RowsInv'
    BY RowsStep
  <1>2. RowsInv /\ [MarketNext]_vars =>
            [\A b \in Business : Settled(b) => Settled(b)' /\ DealsOf(b)' = DealsOf(b)]_vars
    BY SettledStep
  <1> QED
    BY <1>1, <1>2, RowsInit, PTL DEF MarketSpec, SettledStays

-----------------------------------------------------------------------------
(* Suspensions next to offers. *)

\* A step of OffersService takes no record away, and suspends nothing.
LEMMA OffersSuspendNothing ==
    ASSUME TypeOK, OfferStep, SuspensionRecorded
    PROVE  SuspensionRecorded'
  <1> USE DEF SuspensionRecorded, InFlight
  <1>1. ASSUME NEW r \in OfferRequest, AcceptOffer(r)
        PROVE  SuspensionRecorded'
    <2>1. /\ UNCHANGED <<call, journal>>
          /\ SetStatus(offer[ocall[r].offer].biz, "SOLD", "SOLD")
      BY <1>1 DEF AcceptOffer, ClaimBusiness
    <2>2. ASSUME NEW b \in Business, biz'[b].status = "SUSPENDED"
          PROVE  biz[b].status = "SUSPENDED"
      <3>1. PICK c : c = offer[ocall[r].offer].biz
        OBVIOUS
      <3>2. biz' = [biz EXCEPT ![c].status = "SOLD", ![c].listing = "SOLD"]
        BY <2>1, <3>1 DEF SetStatus
      <3>3. biz \in [Business -> Row]
        BY DEF TypeOK
      <3>4. CASE c = b
        <4>1. biz' = [biz EXCEPT ![b].status = "SOLD", ![b].listing = "SOLD"]
          BY <3>2, <3>4
        <4>2. biz[b] \in Row
          BY <3>3
        <4>3. biz'[b] = [biz[b] EXCEPT !.status = "SOLD", !.listing = "SOLD"]
          BY <3>3, <4>1
        <4>4. biz'[b].status = "SOLD"
          BY <4>2, <4>3 DEF Row
        <4> QED
          BY <2>2, <4>4
      <3>5. CASE c # b
        <4>1. biz'[b] = biz[b]
          BY <3>2, <3>3, <3>5
        <4> QED
          BY <2>2, <4>1
      <3> QED
        BY <3>4, <3>5
    <2> QED
      BY <2>1, <2>2
  <1>2. CASE ~ \E r \in OfferRequest : AcceptOffer(r)
    <2>1. UNCHANGED bizVars
      BY <1>2, OfferRequestFrame DEF OfferStep
    <2> QED
      BY <2>1 DEF bizVars
  <1> QED
    BY <1>1, <1>2

\* No silent admin action on the marketplace either: accepted offers overwrite the status of a
\* suspended business, and never its records.
THEOREM MarketSuspensionsAreRecorded == RecordsKept /\ MarketSpec => []SuspensionRecorded
  <1>1. RecordsKept /\ TypeOK /\ SuspensionRecorded /\ [MarketNext]_vars => SuspensionRecorded'
    <2> SUFFICES ASSUME RecordsKept, TypeOK, SuspensionRecorded, [MarketNext]_vars
                 PROVE  SuspensionRecorded'
      OBVIOUS
    <2>1. CASE Next \/ UNCHANGED vars
      BY <2>1, RecordedStep DEF vars, bizVars
    <2>2. CASE OfferStep
      BY <2>2, OffersSuspendNothing
    <2> QED
      BY <2>1, <2>2 DEF MarketNext
  <1>2. MarketInit => SuspensionRecorded
    BY NothingSuspended DEF MarketInit
  <1>3. CASE RecordsKept
    <2>1. TypeOK /\ SuspensionRecorded /\ [MarketNext]_vars => SuspensionRecorded'
      BY <1>1, <1>3
    <2> QED
      BY <1>2, <2>1, MarketTypeCorrect, PTL DEF MarketSpec
  <1> QED
    BY <1>3

=============================================================================
