------------------------- MODULE AcceptLockingProofs -------------------------
(***************************************************************************)
(* Accept implements Sale statement by statement, for any number of        *)
(* transactions, offers and negotiations and whatever is rolled back.  All *)
(* that counts is the business row: one open transaction at most has       *)
(* written it, and it is as that transaction found it until it commits.    *)
(***************************************************************************)
EXTENDS AcceptLocking, TLAPS

-----------------------------------------------------------------------------
(* The inductive invariant. *)

TxFields == {"at", "offer", "started", "todo", "hit", "writes"}

\* The steps of an accept after the statement that claims the business, and the ones of
\* transactions that do not write it.
Claimed   == {"acceptNegotiation", "expireNegotiations", "expireOffers", "createDeal"}
Unclaimed == {"acceptOffer", "counterOffer", "createCounter"}

Holds(t) == tx[t] # NoTx /\ BusinessRow \in DOMAIN tx[t].writes

TxOK(t) ==
    tx[t] # NoTx =>
        /\ DOMAIN tx[t] = TxFields
        /\ tx[t].at \in Claimed \cup Unclaimed \cup {"claimBusiness"}
        /\ tx[t].offer \in OfferId
        /\ tx[t].at \in Claimed => Holds(t)
        /\ tx[t].at \in Unclaimed => ~ Holds(t)
        /\ tx[t].at = "claimBusiness" /\ tx[t].hit => Holds(t)
        /\ Holds(t) => tx[t].writes[BusinessRow] = "SOLD" /\ row[BusinessRow] = "PUBLISHED"

OneHolds == \A t, u \in Tx : Holds(t) /\ Holds(u) => t = u

LockInv ==
    /\ DOMAIN tx = Tx
    /\ BusinessRow \in DOMAIN row
    /\ \A t \in Tx : TxOK(t)
    /\ OneHolds

-----------------------------------------------------------------------------
(* It is inductive. *)

\* The business row is no offer's and no negotiation's.
LEMMA RowsDiffer ==
    /\ \A o : OfferRow(o) # BusinessRow
    /\ \A n : NegotiationRow(n) # BusinessRow
    /\ BusinessRow \notin OfferRows \cup NegotiationRows
  <1>1. \A o : OfferRow(o) # BusinessRow
    BY DEF OfferRow, BusinessRow
  <1>2. \A n : NegotiationRow(n) # BusinessRow
    BY DEF NegotiationRow, BusinessRow
  <1> QED
    BY <1>1, <1>2 DEF OfferRows, NegotiationRows

\* Whoever is in a step of a transaction has begun one.
LEMMA Begun ==
    ASSUME NEW t \in Tx, tx[t].at # "idle"
    PROVE  tx[t] # NoTx
  BY DEF NoTx

\* The business row is published to start with, and no transaction is open.
LEMMA LockInvInit == LockInit => LockInv
  <1> SUFFICES ASSUME LockInit PROVE LockInv
    OBVIOUS
  <1>1. BusinessRow \in DOMAIN row
    BY DEF LockInit, Rows
  <1>2. DOMAIN tx = Tx /\ \A t \in Tx : tx[t] = NoTx
    BY DEF LockInit
  <1> QED
    BY <1>1, <1>2 DEF LockInv, TxOK, OneHolds, Holds

\* A step of one transaction that commits nothing keeps the invariant if that transaction
\* stays in order, and writes the business row only where no other has.
LEMMA OneTx ==
    ASSUME LockInv, NEW t \in Tx, row' = row, DOMAIN tx' = Tx,
           \A u \in Tx \ {t} : tx'[u] = tx[u],
           TxOK(t)',
           Holds(t)' => Holds(t) \/ \A u \in Tx \ {t} : ~ Holds(u)
    PROVE  LockInv'
  <1>1. ASSUME NEW u \in Tx \ {t}
        PROVE  TxOK(u)' /\ (Holds(u)' <=> Holds(u))
    <2>1. TxOK(u) /\ tx'[u] = tx[u] /\ row' = row
      BY DEF LockInv
    <2> QED
      BY <2>1 DEF TxOK, Holds
  <1>2. OneHolds'
    BY <1>1 DEF LockInv, OneHolds
  <1> QED
    BY <1>1, <1>2 DEF LockInv

\* A transaction that is rolled back lets go of what it wrote.
LEMMA RollBackKeeps ==
    ASSUME LockInv, NEW t \in Tx, RollBack(t), row' = row
    PROVE  LockInv'
  <1>1. DOMAIN tx' = Tx /\ tx'[t] = NoTx /\ \A u \in Tx \ {t} : tx'[u] = tx[u]
    BY DEF LockInv, RollBack
  <1> QED
    BY <1>1, OneTx DEF TxOK, Holds

\* A transaction begins with nothing written.
LEMMA BeginKeeps ==
    ASSUME LockInv, NEW t \in Tx, NEW o \in OfferId, NEW step \in {"acceptOffer", "counterOffer"},
           BeginTx(t, o, step)
    PROVE  LockInv'
  <1>1. /\ DOMAIN tx' = Tx /\ \A u \in Tx \ {t} : tx'[u] = tx[u]
        /\ tx'[t] = [at |-> step, offer |-> o, started |-> FALSE,
                     todo |-> <<>>, hit |-> FALSE, writes |-> <<>>]
    BY DEF LockInv, BeginTx
  <1>2. ~ Holds(t)'
    BY <1>1 DEF Holds
  <1>3. TxOK(t)'
    BY <1>1, <1>2 DEF TxOK, TxFields, Claimed, Unclaimed
  <1> QED
    BY <1>1, <1>2, <1>3, OneTx DEF BeginTx

\* A statement chooses its rows and writes none yet.
LEMMA StartKeeps ==
    ASSUME LockInv, NEW t \in Tx, StartStatement(t)
    PROVE  LockInv'
  <1>1. tx[t] # NoTx /\ TxOK(t)
    BY Begun DEF StartStatement, InStatement, Sets, LockInv
  <1>2. PICK todo : tx' = [tx EXCEPT ![t].started = TRUE, ![t].todo = todo, ![t].hit = FALSE]
    BY DEF StartStatement
  <1>3. /\ DOMAIN tx' = Tx /\ \A u \in Tx \ {t} : tx'[u] = tx[u]
        /\ DOMAIN tx'[t] = TxFields
        /\ tx'[t].at = tx[t].at /\ tx'[t].offer = tx[t].offer
        /\ tx'[t].writes = tx[t].writes /\ tx'[t].hit = FALSE
    BY <1>1, <1>2 DEF TxOK, TxFields, LockInv
  <1>4. tx'[t] # NoTx
    BY <1>1, <1>3 DEF TxOK, Claimed, Unclaimed, NoTx
  <1>5. Holds(t)' <=> Holds(t)
    BY <1>1, <1>3, <1>4 DEF Holds
  <1>6. TxOK(t)'
    BY <1>1, <1>3, <1>5 DEF TxOK, StartStatement
  <1> QED
    BY <1>3, <1>5, <1>6, OneTx DEF StartStatement

\* The only statement that looks for the business row claims it, and finds it published.
LEMMA ClaimsPublished ==
    ASSUME NEW t \in Tx, NEW v, Where(t, BusinessRow, v)
    PROVE  tx[t].at = "claimBusiness" /\ v = "PUBLISHED"
  <1>1. BusinessRow # OfferRow(tx[t].offer) /\ BusinessRow # NegotiationRow(thread[tx[t].offer])
    BY RowsDiffer
  <1> QED
    BY <1>1, RowsDiffer DEF Where

\* A statement takes its next row once no other transaction has written it.
LEMMA TakeKeeps ==
    ASSUME LockInv, NEW t \in Tx, TakeRow(t)
    PROVE  LockInv'
  <1>1. PICK x \in Awaited(t) :
            /\ Free(t, x)
            /\ tx' = IF Where(t, x, View(t, x))
                     THEN [tx EXCEPT ![t].todo = Tail(@), ![t].hit = TRUE,
                                     ![t].writes = Write(@, x, Sets[tx[t].at])]
                     ELSE [tx EXCEPT ![t].todo = Tail(@)]
            /\ row' = row
    BY DEF TakeRow
  <1>2. tx[t] # NoTx /\ TxOK(t)
    BY <1>1 DEF Awaited, LockInv
  <1>3. CASE ~ Where(t, x, View(t, x))
    <2>1. /\ DOMAIN tx' = Tx /\ \A u \in Tx \ {t} : tx'[u] = tx[u]
          /\ DOMAIN tx'[t] = TxFields
          /\ tx'[t].at = tx[t].at /\ tx'[t].offer = tx[t].offer
          /\ tx'[t].writes = tx[t].writes /\ tx'[t].hit = tx[t].hit
      BY <1>1, <1>2, <1>3 DEF TxOK, TxFields, LockInv
    <2>2. tx'[t] # NoTx
      BY <1>2, <2>1 DEF TxOK, Claimed, Unclaimed, NoTx
    <2>3. Holds(t)' <=> Holds(t)
      BY <1>2, <2>1, <2>2 DEF Holds
    <2>4. TxOK(t)'
      BY <1>1, <1>2, <2>1, <2>3 DEF TxOK
    <2> QED
      BY <1>1, <2>1, <2>3, <2>4, OneTx
  <1>4. CASE Where(t, x, View(t, x))
    <2>1. /\ DOMAIN tx' = Tx /\ \A u \in Tx \ {t} : tx'[u] = tx[u]
          /\ DOMAIN tx'[t] = TxFields
          /\ tx'[t].at = tx[t].at /\ tx'[t].offer = tx[t].offer /\ tx'[t].hit = TRUE
          /\ tx'[t].writes = Write(tx[t].writes, x, Sets[tx[t].at])
      BY <1>1, <1>2, <1>4 DEF TxOK, TxFields, LockInv
    <2>2. tx'[t] # NoTx
      BY <1>2, <2>1 DEF TxOK, Claimed, Unclaimed, NoTx
    <2>3. CASE x # BusinessRow
      <3>1. /\ BusinessRow \in DOMAIN tx'[t].writes <=> BusinessRow \in DOMAIN tx[t].writes
            /\ BusinessRow \in DOMAIN tx[t].writes => tx'[t].writes[BusinessRow] = tx[t].writes[BusinessRow]
        BY <2>1, <2>3 DEF Write
      <3>2. Holds(t)' <=> Holds(t)
        BY <1>2, <2>2, <3>1 DEF Holds
      <3>3. tx[t].at # "claimBusiness"
        BY <1>4, <2>3 DEF Where
      <3>4. TxOK(t)'
        BY <1>1, <1>2, <2>1, <3>1, <3>2, <3>3 DEF TxOK, Holds
      <3> QED
        BY <1>1, <2>1, <3>2, <3>4, OneTx
    <2>4. CASE x = BusinessRow
      <3>1. tx[t].at = "claimBusiness" /\ View(t, BusinessRow) = "PUBLISHED"
        BY <1>4, <2>4, ClaimsPublished
      <3>2. ~ Holds(t) /\ row[BusinessRow] = "PUBLISHED"
        BY <1>2, <3>1 DEF View, TxOK, Holds
      <3>3. tx'[t].writes[BusinessRow] = "SOLD" /\ BusinessRow \in DOMAIN tx'[t].writes
        BY <2>1, <2>4, <3>1 DEF Write, Sets
      <3>4. Holds(t)'
        BY <2>2, <3>3 DEF Holds
      <3>5. TxOK(t)'
        BY <1>1, <1>2, <2>1, <3>1, <3>2, <3>3, <3>4 DEF TxOK, Claimed, Unclaimed
      <3>6. \A u \in Tx \ {t} : ~ Holds(u)
        BY <1>1, <2>4 DEF Free, Writers, Holds
      <3> QED
        BY <1>1, <2>1, <3>5, <3>6, OneTx
    <2> QED
      BY <2>3, <2>4
  <1> QED
    BY <1>3, <1>4

\* The statement that claims the business ends with the row written, or the transaction with it.
LEMMA EndKeeps ==
    ASSUME LockInv, NEW t \in Tx, EndStatement(t)
    PROVE  LockInv'
  <1>1. tx[t] # NoTx /\ TxOK(t) /\ row' = row
    BY Begun DEF EndStatement, InStatement, Sets, LockInv
  <1>2. CASE tx[t].at \in Decides /\ ~ tx[t].hit
    BY <1>1, <1>2, RollBackKeeps DEF EndStatement
  <1>3. CASE ~ (tx[t].at \in Decides /\ ~ tx[t].hit)
    <2>1. /\ DOMAIN tx' = Tx /\ \A u \in Tx \ {t} : tx'[u] = tx[u]
          /\ DOMAIN tx'[t] = TxFields
          /\ tx'[t].at = After[tx[t].at] /\ tx'[t].offer = tx[t].offer
          /\ tx'[t].writes = tx[t].writes /\ tx'[t].hit = FALSE
      BY <1>1, <1>3 DEF EndStatement, TxOK, TxFields, LockInv
    <2>2. /\ tx[t].at \in Claimed \cup {"claimBusiness"} => tx'[t].at \in Claimed
          /\ tx[t].at = "acceptOffer" => tx'[t].at = "claimBusiness"
          /\ tx[t].at = "counterOffer" => tx'[t].at = "createCounter"
          /\ tx[t].at \in Claimed \cup {"claimBusiness", "acceptOffer", "counterOffer"}
      BY <1>1, <2>1 DEF EndStatement, InStatement, Sets, After, Claimed
    <2>3. tx'[t] # NoTx
      BY <2>1, <2>2 DEF Claimed, NoTx
    <2>4. Holds(t)' <=> Holds(t)
      BY <1>1, <2>1, <2>3 DEF Holds
    <2>5. tx[t].at = "claimBusiness" => Holds(t)
      BY <1>1, <1>3 DEF TxOK, Decides
    <2>6. TxOK(t)'
      BY <1>1, <2>1, <2>2, <2>4, <2>5 DEF TxOK, Claimed, Unclaimed
    <2> QED
      BY <1>1, <2>1, <2>4, <2>6, OneTx
  <1> QED
    BY <1>2, <1>3

\* What a committing transaction leaves: nobody else has written the business row if it has.
LEMMA CommitKeeps ==
    ASSUME LockInv, NEW t \in Tx, tx[t] # NoTx, NEW writes, Commit(t, writes),
           BusinessRow \in DOMAIN writes => Holds(t)
    PROVE  LockInv'
  <1>1. DOMAIN tx' = Tx /\ tx'[t] = NoTx /\ \A u \in Tx \ {t} : tx'[u] = tx[u]
    BY DEF LockInv, Commit, RollBack
  <1>2. BusinessRow \in DOMAIN row'
    BY DEF Commit, Rows
  <1>3. ASSUME NEW u \in Tx, Holds(u)'
        PROVE  u # t /\ Holds(u) /\ row'[BusinessRow] = row[BusinessRow]
    <2>1. u # t /\ Holds(u)
      BY <1>1, <1>3 DEF Holds
    <2>2. BusinessRow \notin DOMAIN writes
      BY <2>1 DEF LockInv, OneHolds
    <2> QED
      BY <2>1, <2>2 DEF Commit, Rows
  <1>4. ASSUME NEW u \in Tx PROVE TxOK(u)'
    <2>1. CASE u = t
      BY <1>1, <2>1 DEF TxOK
    <2>2. CASE u # t
      <3>1. tx'[u] = tx[u] /\ TxOK(u)
        BY <1>1, <2>2 DEF LockInv
      <3>2. Holds(u)' <=> Holds(u)
        BY <3>1 DEF Holds
      <3> QED
        BY <1>3, <3>1, <3>2 DEF TxOK
    <2> QED
      BY <2>1, <2>2
  <1>5. OneHolds'
    BY <1>3 DEF LockInv, OneHolds
  <1> QED
    BY <1>1, <1>2, <1>4, <1>5 DEF LockInv

\* A deal is created by the transaction that holds the business row.
LEMMA DealKeeps ==
    ASSUME LockInv, NEW t \in Tx, CreateDeal(t)
    PROVE  LockInv'
  <1>1. tx[t] # NoTx /\ TxOK(t)
    BY Begun DEF CreateDeal, LockInv
  <1>2. Holds(t)
    BY <1>1 DEF CreateDeal, TxOK, Claimed
  <1> QED
    BY <1>1, <1>2, RollBackKeeps, CommitKeeps DEF CreateDeal

\* A counter commits without the business row.
LEMMA CounterKeeps ==
    ASSUME LockInv, NEW t \in Tx, NEW new \in OfferId, CreateCounter(t, new)
    PROVE  LockInv' /\ row'[BusinessRow] = row[BusinessRow]
  <1> DEFINE writes == Write(tx[t].writes, OfferRow(new), "SUBMITTED")
  <1>1. tx[t] # NoTx /\ TxOK(t) /\ Commit(t, writes)
    BY Begun DEF CreateCounter, LockInv
  <1>2. BusinessRow \notin DOMAIN tx[t].writes
    BY <1>1 DEF CreateCounter, TxOK, Unclaimed, Holds
  <1>3. BusinessRow \notin DOMAIN writes
    BY <1>2, RowsDiffer DEF Write
  <1>4. row'[BusinessRow] = row[BusinessRow]
    BY <1>1, <1>3 DEF Commit, Rows
  <1> HIDE DEF writes
  <1> QED
    BY <1>1, <1>3, <1>4, CommitKeeps

\* A statement that commits by itself waits until no transaction has written its row.
LEMMA AloneKeeps ==
    ASSUME LockInv, NEW x, NEW value, WriteAlone(x, value)
    PROVE  /\ LockInv'
           /\ x # BusinessRow => row'[BusinessRow] = row[BusinessRow]
           /\ x = BusinessRow => row'[BusinessRow] = value
  <1>1. /\ BusinessRow \in DOMAIN row'
        /\ x # BusinessRow => row'[BusinessRow] = row[BusinessRow]
        /\ x = BusinessRow => row'[BusinessRow] = value
    BY DEF WriteAlone, LockInv
  <1>2. ASSUME NEW u \in Tx PROVE (Holds(u)' <=> Holds(u)) /\ TxOK(u)'
    <2>1. tx' = tx /\ TxOK(u)
      BY DEF WriteAlone, LockInv
    <2>2. Holds(u) => x # BusinessRow
      BY DEF WriteAlone, Writers, Holds
    <2>3. Holds(u)' <=> Holds(u)
      BY <2>1 DEF Holds
    <2> QED
      BY <1>1, <2>1, <2>2, <2>3 DEF TxOK
  <1>3. OneHolds'
    BY <1>2 DEF LockInv, OneHolds
  <1>4. DOMAIN tx' = Tx
    BY DEF LockInv, WriteAlone
  <1> QED
    BY <1>1, <1>2, <1>3, <1>4 DEF LockInv

-----------------------------------------------------------------------------
(* What each step is to the sale. *)

\* A step of a transaction wins the business at most once, with its commit; reject,
\* withdraw and the like put it up, take it down, or leave the sale as it is.
LEMMA LockStep ==
    ASSUME LockInv, LockNext
    PROVE  /\ LockInv'
           /\ \/ UNCHANGED <<deal, sales>> /\ row'[BusinessRow] = row[BusinessRow]
              \/ UNCHANGED <<deal, sales>> /\ row'[BusinessRow] = "DRAFT"
              \/ deal' = deal /\ sales' = sales + 1 /\ row'[BusinessRow] = "PUBLISHED"
              \/ \E o \in OfferId \ deal :
                     /\ deal' = deal \cup {o} /\ sales' = sales
                     /\ row[BusinessRow] = "PUBLISHED" /\ row'[BusinessRow] = "SOLD"
  <1>1. ASSUME NEW t \in Tx, NEW o \in OfferId, BeginAccept(t, o) \/ BeginCounter(t, o)
        PROVE  LockInv' /\ UNCHANGED <<row, deal, sales>>
    BY <1>1, BeginKeeps DEF BeginAccept, BeginCounter, BeginTx
  <1>2. ASSUME NEW t \in Tx, StartStatement(t) \/ TakeRow(t) \/ EndStatement(t)
        PROVE  LockInv' /\ UNCHANGED <<row, deal, sales>>
    BY <1>2, StartKeeps, TakeKeeps, EndKeeps DEF StartStatement, TakeRow, EndStatement
  <1>3. ASSUME NEW t \in Tx, BreakDeadlock(t) \/ Abort(t)
        PROVE  LockInv' /\ UNCHANGED <<row, deal, sales>>
    BY <1>3, RollBackKeeps DEF BreakDeadlock, Abort
  <1>4. ASSUME NEW t \in Tx, NEW new \in OfferId, CreateCounter(t, new)
        PROVE  LockInv' /\ UNCHANGED <<deal, sales>> /\ row'[BusinessRow] = row[BusinessRow]
    BY <1>4, CounterKeeps DEF CreateCounter
  <1>5. ASSUME NEW t \in Tx, CreateDeal(t)
        PROVE  /\ LockInv' /\ sales' = sales
               /\ \/ UNCHANGED <<row, deal>>
                  \/ \E o \in OfferId \ deal :
                         /\ deal' = deal \cup {o}
                         /\ row[BusinessRow] = "PUBLISHED" /\ row'[BusinessRow] = "SOLD"
    <2>1. TxOK(t) /\ Holds(t) /\ tx[t].offer \in OfferId
      BY <1>5, Begun DEF CreateDeal, LockInv, TxOK, Claimed
    <2>2. row[BusinessRow] = "PUBLISHED" /\ tx[t].writes[BusinessRow] = "SOLD"
      BY <2>1 DEF TxOK, Holds
    <2>3. ASSUME Commit(t, tx[t].writes)
          PROVE  row'[BusinessRow] = "SOLD"
      BY <2>1, <2>2, <2>3 DEF Commit, Holds, Rows
    <2> QED
      BY <1>5, <2>1, <2>2, <2>3, DealKeeps DEF CreateDeal
  <1>6. ASSUME NEW o \in OfferId, CloseOffer(o) \/ CloseNegotiation(o)
        PROVE  LockInv' /\ UNCHANGED <<deal, sales>> /\ row'[BusinessRow] = row[BusinessRow]
    BY <1>6, AloneKeeps, RowsDiffer DEF CloseOffer, CloseNegotiation, WriteAlone
  <1>7. ASSUME TakeDown
        PROVE  LockInv' /\ UNCHANGED <<deal, sales>> /\ row'[BusinessRow] = "DRAFT"
    BY <1>7, AloneKeeps DEF TakeDown, WriteAlone
  <1>8. ASSUME PutUp
        PROVE  LockInv' /\ deal' = deal /\ sales' = sales + 1 /\ row'[BusinessRow] = "PUBLISHED"
    BY <1>8, AloneKeeps DEF PutUp, WriteAlone
  <1> QED
    BY <1>1, <1>2, <1>3, <1>4, <1>5, <1>6, <1>7, <1>8 DEF LockNext, TxStep

\* Whatever blocks, deadlocks or is rolled back.
THEOREM LockInvHolds == LockSpec => []LockInv
  <1>1. LockInv /\ UNCHANGED vars => LockInv'
    BY DEF vars, LockInv, TxOK, OneHolds, Holds
  <1> QED
    BY <1>1, LockInvInit, LockStep, PTL DEF LockSpec

\* The transactions of accept, interleaved statement by statement under row locks, acquire
\* the business as Sale says: while it is on the market, once, and all at once.
THEOREM LockedAcceptsImplementSale == LockSpec => AcceptsImplementSale
  <1>1. LockInit => LockedView!Init
    <2> SUFFICES ASSUME LockInit PROVE LockedView!Init
      OBVIOUS
    <2>1. row[BusinessRow] = "PUBLISHED" /\ deal = {} /\ sales = 1
      BY DEF LockInit, Rows
    <2> QED
      BY <2>1 DEF LockedView!Init
  <1>2. ASSUME LockInv, [LockNext]_vars
        PROVE  [LockedView!Next]_(LockedView!saleVars)
    <2> DEFINE B == BusinessRow
    <2>1. CASE UNCHANGED vars
      BY <2>1 DEF vars, LockedView!saleVars
    <2>2. CASE UNCHANGED <<deal, sales>> /\ row'[B] = row[B]
      BY <2>2 DEF LockedView!saleVars
    <2>3. CASE UNCHANGED <<deal, sales>> /\ row'[B] = "DRAFT"
      <3>1. LockedView!TakeDown(B)
        BY <2>3 DEF LockedView!TakeDown
      <3> QED
        BY <3>1 DEF LockedView!Next
    <2>4. CASE deal' = deal /\ sales' = sales + 1 /\ row'[B] = "PUBLISHED"
      <3>1. LockedView!PutUp(B)
        BY <2>4 DEF LockedView!PutUp
      <3> QED
        BY <3>1 DEF LockedView!Next
    <2>5. ASSUME NEW o \in OfferId \ deal, deal' = deal \cup {o}, sales' = sales,
                 row[B] = "PUBLISHED", row'[B] = "SOLD"
          PROVE  LockedView!Next
      <3>1. LockedView!Win(B, o)
        BY <2>5 DEF LockedView!Win
      <3> QED
        BY <3>1 DEF LockedView!Next
    <2> QED
      BY <1>2, <2>1, <2>2, <2>3, <2>4, <2>5, LockStep
  <1> QED
    BY <1>1, <1>2, LockInvHolds, PTL DEF LockSpec, AcceptsImplementSale, LockedView!Spec

\* What follows under row locks too: the business has no more deals than it was put on
\* the market.
THEOREM LockedSalesHaveOneWinner == LockSpec => []LockedView!OneWinnerPerSale
  BY LockedAcceptsImplementSale, LockedView!OneWinner, PTL DEF AcceptsImplementSale

=============================================================================
