--------------------------- MODULE AcceptLocking ---------------------------
(***************************************************************************)
(* The transactions of OffersService.accept and counter one statement at a *)
(* time, under PostgreSQL's READ COMMITTED: what Offers takes for a step.  *)
(*                                                                         *)
(* A statement chooses its rows in the snapshot it starts with, the        *)
(* committed rows and the transaction's own writes.  It takes them in some *)
(* order: it waits for a row another transaction has written until that    *)
(* one ends, then looks at its WHERE clause again and writes the row, or   *)
(* skips it.  Transactions that wait for each other are a deadlock, and    *)
(* PostgreSQL rolls one of them back.  One business stands for all.        *)
(***************************************************************************)
EXTENDS Naturals, SequencesExt, Relation

CONSTANTS
    Tx,         \* slots for transactions in flight
    OfferId,    \* offer ids
    Thread,     \* negotiation ids
    FirstOffer, \* of each negotiation: the offer that opened it
    MaxSales    \* bound on how often the business is put on the market

ASSUME FirstOfferAssumption ==
    /\ FirstOffer \in [Thread -> OfferId]
    /\ \A m, n \in Thread : FirstOffer[m] = FirstOffer[n] => m = n

VARIABLES
    row,        \* the committed status of each row
    thread,     \* the negotiation of each offer
    deal,       \* the accepted offers of the deal rows
    tx,         \* the transaction in each slot
    sales       \* history: how often the business was put on the market

vars == <<row, thread, deal, tx, sales>>

OfferRow(o)       == <<"offer", o>>
NegotiationRow(n) == <<"negotiation", n>>
OfferRows         == {OfferRow(o) : o \in OfferId}
NegotiationRows   == {NegotiationRow(n) : n \in Thread}
BusinessRow       == <<"business", "its listing too">>

Rows == OfferRows \cup NegotiationRows \cup {BusinessRow}

NoTx == [at |-> "idle"]

\* The transactions that have written row x: it is theirs until they end.
Writers(x) == {t \in Tx : tx[t] # NoTx /\ x \in DOMAIN tx[t].writes}

Free(t, x) == Writers(x) \subseteq {t}

\* Row x as transaction t sees it.
View(t, x) == IF x \in DOMAIN tx[t].writes THEN tx[t].writes[x] ELSE row[x]

\* The writes of a transaction, and one more.
Write(writes, x, value) ==
    [y \in DOMAIN writes \cup {x} |-> IF y = x THEN value ELSE writes[y]]

LockInit ==
    /\ row = [x \in Rows |->
           IF x = BusinessRow THEN "PUBLISHED"
           ELSE IF x \in NegotiationRows THEN "OPEN"
           ELSE IF \E n \in Thread : x = OfferRow(FirstOffer[n]) THEN "SUBMITTED" ELSE "absent"]
    /\ thread = [o \in OfferId |-> CHOOSE n \in Thread : FirstOffer[n] = o \/ o \notin {FirstOffer[m] : m \in Thread}]
    /\ deal = {}
    /\ tx = [t \in Tx |-> NoTx]
    /\ sales = 1

-----------------------------------------------------------------------------
(* The UPDATEs, by the step that makes them. *)

OPEN_OFFER_STATUSES == {"SUBMITTED", "COUNTERED"}

\* What each sets the status to.
Sets == [acceptOffer        |-> "ACCEPTED",
         claimBusiness      |-> "SOLD",
         acceptNegotiation  |-> "ACCEPTED",
         expireNegotiations |-> "EXPIRED",
         expireOffers       |-> "EXPIRED",
         counterOffer       |-> "COUNTERED"]

After == [acceptOffer        |-> "claimBusiness",
          claimBusiness      |-> "acceptNegotiation",
          acceptNegotiation  |-> "expireNegotiations",
          expireNegotiations |-> "expireOffers",
          expireOffers       |-> "createDeal",
          counterOffer       |-> "createCounter"]

\* Its WHERE clause, of row x when it holds v.
Where(t, x, v) ==
    LET o == tx[t].offer
        mine == {OfferRow(o), NegotiationRow(thread[o])}
    IN  \/ tx[t].at = "acceptOffer"        /\ x = OfferRow(o) /\ v = "SUBMITTED"
        \/ tx[t].at = "claimBusiness"      /\ x = BusinessRow /\ v = "PUBLISHED"
        \/ tx[t].at = "acceptNegotiation"  /\ x = NegotiationRow(thread[o])
        \/ tx[t].at = "expireNegotiations" /\ x \in NegotiationRows \ mine /\ v = "OPEN"
        \/ tx[t].at = "expireOffers"       /\ x \in OfferRows \ mine /\ v \in OPEN_OFFER_STATUSES
        \/ tx[t].at = "counterOffer"       /\ x = OfferRow(o)

\* The ones whose count decides: 0 throws.
Decides == {"acceptOffer", "claimBusiness"}

-----------------------------------------------------------------------------
(***************************************************************************)
(* A transaction.  todo are the rows its statement has still to take, hit  *)
(* says whether it has written any.                                        *)
(***************************************************************************)
\* The counters in flight: each needs an offer id, of which this instance has few.
Countering == {t \in Tx : tx[t].at \in {"counterOffer", "createCounter"}}

BeginTx(t, o, step) ==
    /\ tx[t] = NoTx
    /\ tx' = [tx EXCEPT ![t] = [at |-> step, offer |-> o, started |-> FALSE,
                                todo |-> <<>>, hit |-> FALSE, writes |-> <<>>]]
    /\ UNCHANGED <<row, thread, deal, sales>>

\* The authorization reads an offer that is there; counter also looks at its status.
BeginAccept(t, o) == row[OfferRow(o)] # "absent" /\ BeginTx(t, o, "acceptOffer")

BeginCounter(t, o) ==
    /\ Cardinality(Countering) < Cardinality({new \in OfferId : row[OfferRow(new)] = "absent"})
    /\ row[OfferRow(o)] \in OPEN_OFFER_STATUSES
    /\ BeginTx(t, o, "counterOffer")

InStatement(t) == tx[t].at \in DOMAIN Sets

StartStatement(t) ==
    /\ InStatement(t) /\ ~ tx[t].started
    /\ \E todo \in SetToSeqs({x \in Rows : Where(t, x, View(t, x)) /\ row[x] # "absent"}) :
           tx' = [tx EXCEPT ![t].started = TRUE, ![t].todo = todo, ![t].hit = FALSE]
    /\ UNCHANGED <<row, thread, deal, sales>>

Awaited(t) == IF tx[t] # NoTx /\ tx[t].todo # <<>> THEN {Head(tx[t].todo)} ELSE {}

\* Slip: the row is written as the snapshot promised, after the wait too.
TakeRowUnchecked(t) ==
    /\ \E x \in Awaited(t) :
           /\ Free(t, x)
           /\ tx' = [tx EXCEPT ![t].todo = Tail(@), ![t].hit = TRUE,
                               ![t].writes = Write(@, x, Sets[tx[t].at])]
    /\ UNCHANGED <<row, thread, deal, sales>>

TakeRow(t) ==
    /\ \E x \in Awaited(t) :
           /\ Free(t, x)
           /\ tx' = IF Where(t, x, View(t, x))
                    THEN [tx EXCEPT ![t].todo = Tail(@), ![t].hit = TRUE,
                                    ![t].writes = Write(@, x, Sets[tx[t].at])]
                    ELSE [tx EXCEPT ![t].todo = Tail(@)]
    /\ UNCHANGED <<row, thread, deal, sales>>

RollBack(t) == tx' = [tx EXCEPT ![t] = NoTx]

\* Slip: the handler gives up and leaves its transaction open.
EndStatementLeavesOpen(t) ==
    /\ InStatement(t) /\ tx[t].started /\ tx[t].todo = <<>>
    /\ tx[t].at \in Decides => tx[t].hit
    /\ tx' = [tx EXCEPT ![t].at = After[@], ![t].started = FALSE, ![t].hit = FALSE]
    /\ UNCHANGED <<row, thread, deal, sales>>

EndStatement(t) ==
    /\ InStatement(t) /\ tx[t].started /\ tx[t].todo = <<>>
    /\ IF tx[t].at \in Decides /\ ~ tx[t].hit
         THEN RollBack(t)
         ELSE tx' = [tx EXCEPT ![t].at = After[@], ![t].started = FALSE, ![t].hit = FALSE]
    /\ UNCHANGED <<row, thread, deal, sales>>

Commit(t, writes) ==
    /\ row' = [x \in Rows |-> IF x \in DOMAIN writes THEN writes[x] ELSE row[x]]
    /\ tx' = [tx EXCEPT ![t] = NoTx]

\* INSERT INTO deals, unique per negotiation and per offer, and COMMIT.  Only the writer of
\* the business row gets here, so no other insert is under way.
CreateDeal(t) ==
    /\ tx[t].at = "createDeal"
    /\ LET o == tx[t].offer IN
       IF \E d \in deal : d = o \/ thread[d] = thread[o]
         THEN RollBack(t) /\ UNCHANGED <<row, deal>>
         ELSE Commit(t, tx[t].writes) /\ deal' = deal \cup {o}
    /\ UNCHANGED <<thread, sales>>

\* INSERT INTO offers, which waits for nobody, and COMMIT.
CreateCounter(t, new) ==
    /\ tx[t].at = "createCounter"
    /\ row[OfferRow(new)] = "absent"
    /\ Commit(t, Write(tx[t].writes, OfferRow(new), "SUBMITTED"))
    /\ thread' = [thread EXCEPT ![new] = thread[tx[t].offer]]
    /\ UNCHANGED <<deal, sales>>

-----------------------------------------------------------------------------
(* PostgreSQL, the connection, and everybody else. *)

\* t waits for a row that u has written.
WaitsFor == [t, u \in Tx |-> t # u /\ \E x \in Awaited(t) : u \in Writers(x)]

Deadlocked(t) == TransitiveClosure(WaitsFor, Tx)[t, t]

BreakDeadlock(t) ==
    /\ Deadlocked(t)
    /\ RollBack(t)
    /\ UNCHANGED <<row, thread, deal, sales>>

\* The connection is lost, or Prisma's timeout of an interactive transaction strikes.
Abort(t) ==
    /\ tx[t] # NoTx
    /\ RollBack(t)
    /\ UNCHANGED <<row, thread, deal, sales>>

\* A statement of another handler that commits by itself, once the row is free: reject and
\* withdraw, and the writes of BusinessesService and AdminService.
WriteAlone(x, value) ==
    /\ Writers(x) = {}
    /\ row' = [row EXCEPT ![x] = value]
    /\ UNCHANGED <<thread, deal, tx>>

CloseOffer(o) ==
    /\ row[OfferRow(o)] \in OPEN_OFFER_STATUSES
    /\ WriteAlone(OfferRow(o), "REJECTED")
    /\ UNCHANGED sales

\* Their second statement, whatever the negotiation has become.
CloseNegotiation(o) ==
    /\ row[OfferRow(o)] = "REJECTED" /\ row[NegotiationRow(thread[o])] # "REJECTED"
    /\ WriteAlone(NegotiationRow(thread[o]), "REJECTED")
    /\ UNCHANGED sales

TakeDown ==
    /\ row[BusinessRow] = "PUBLISHED"
    /\ WriteAlone(BusinessRow, "DRAFT")
    /\ UNCHANGED sales

PutUp ==
    /\ row[BusinessRow] # "PUBLISHED" /\ sales < MaxSales
    /\ WriteAlone(BusinessRow, "PUBLISHED")
    /\ sales' = sales + 1

-----------------------------------------------------------------------------
TxStep(t) ==
    \/ StartStatement(t)
    \/ TakeRow(t)
    \/ EndStatement(t)
    \/ CreateDeal(t)
    \/ \E o \in OfferId : CreateCounter(t, o)

LockNext ==
    \/ \E t \in Tx :
           \/ \E o \in OfferId : BeginAccept(t, o) \/ BeginCounter(t, o)
           \/ TxStep(t)
           \/ BreakDeadlock(t)
           \/ Abort(t)
    \/ \E o \in OfferId : CloseOffer(o) \/ CloseNegotiation(o)
    \/ TakeDown
    \/ PutUp

\* Row locks are granted in the order they are asked for, so nobody is passed over for
\* ever; a deadlock is noticed, and one of those in it rolled back.
LockFairness ==
    /\ \A t \in Tx : SF_vars(TxStep(t))
    /\ WF_vars(\E t \in Tx : BreakDeadlock(t))

LockSpec == LockInit /\ [][LockNext]_vars /\ LockFairness

-----------------------------------------------------------------------------
\* Statement by statement, among transactions that block, time out and deadlock, accept
\* still acquires the business the way Sale says: one winner, only while it is on the
\* market, and all at once.
LockedView == INSTANCE Sale WITH
    Business <- {BusinessRow},
    forSale  <- [b \in {BusinessRow} |-> row[b] = "PUBLISHED"],
    sales    <- [b \in {BusinessRow} |-> sales],
    winners  <- [b \in {BusinessRow} |-> deal]

AcceptsImplementSale == LockedView!Spec

\* Nobody waits for ever: every accept and counter that has begun commits or is rolled
\* back, whatever it waits for and whoever waits for it.
TransactionsEnd == \A t \in Tx : tx[t] # NoTx ~> tx[t] = NoTx

=============================================================================
