-------------------------------- MODULE Sale --------------------------------
(***************************************************************************)
(* What the marketplace promises about who acquires a business, with       *)
(* nothing of how it is done: a business is put up for sale, taken down    *)
(* again, or won by one offer, which ends that sale.                       *)
(***************************************************************************)
EXTENDS Naturals, FiniteSets, FiniteSetTheorems, TLAPS

CONSTANTS Business, OfferId

VARIABLES
    forSale,    \* is the business on the market?
    sales,      \* how often it has been put there
    winners     \* the offers that have won it

saleVars == <<forSale, sales, winners>>

Init ==
    /\ forSale \in [Business -> BOOLEAN]
    /\ sales = [b \in Business |-> IF forSale[b] THEN 1 ELSE 0]
    /\ winners = [b \in Business |-> {}]

PutUp(b) ==
    /\ forSale' = [forSale EXCEPT ![b] = TRUE]
    /\ sales' = [sales EXCEPT ![b] = @ + 1]
    /\ UNCHANGED winners

TakeDown(b) ==
    /\ forSale' = [forSale EXCEPT ![b] = FALSE]
    /\ UNCHANGED <<sales, winners>>

Win(b, o) ==
    /\ forSale[b]
    /\ \A c \in Business : o \notin winners[c]
    /\ forSale' = [forSale EXCEPT ![b] = FALSE]
    /\ winners' = [winners EXCEPT ![b] = @ \cup {o}]
    /\ UNCHANGED sales

Next == \E b \in Business : PutUp(b) \/ TakeDown(b) \/ \E o \in OfferId : Win(b, o)

Spec == Init /\ [][Next]_saleVars

-----------------------------------------------------------------------------
\* Types of the three variables.
SaleTypeOK ==
    /\ forSale \in [Business -> BOOLEAN]
    /\ sales \in [Business -> Nat]
    /\ winners \in [Business -> SUBSET OfferId]

\* A business has no more winners than ended sales: one sale, one winner.
OneWinnerPerSale ==
    \A b \in Business :
        Cardinality(winners[b]) + (IF forSale[b] THEN 1 ELSE 0) <= sales[b]

-----------------------------------------------------------------------------
\* OneWinnerPerSale counts winners, so they must be finitely many.
SaleInv ==
    /\ SaleTypeOK
    /\ \A b \in Business : IsFiniteSet(winners[b])
    /\ OneWinnerPerSale

LEMMA SaleInit == Init => SaleInv
  <1> SUFFICES ASSUME Init PROVE SaleInv
    OBVIOUS
  <1>1. SaleTypeOK
    BY DEF Init, SaleTypeOK
  <1>2. ASSUME NEW b \in Business
        PROVE  /\ IsFiniteSet(winners[b])
               /\ Cardinality(winners[b]) + (IF forSale[b] THEN 1 ELSE 0) <= sales[b]
    <2>1. winners[b] = {} /\ sales[b] = (IF forSale[b] THEN 1 ELSE 0)
      BY DEF Init
    <2>2. IsFiniteSet(winners[b]) /\ Cardinality(winners[b]) = 0
      BY <2>1, FS_EmptySet
    <2> QED
      BY <2>1, <2>2
  <1> QED
    BY <1>1, <1>2 DEF SaleInv, OneWinnerPerSale

LEMMA SaleStep == SaleInv /\ [Next]_saleVars => SaleInv'
  <1> SUFFICES ASSUME SaleInv, [Next]_saleVars PROVE SaleInv'
    OBVIOUS
  <1> USE DEF SaleInv, SaleTypeOK, OneWinnerPerSale
  <1>1. CASE UNCHANGED saleVars
    BY <1>1 DEF saleVars
  <1>2. ASSUME NEW b \in Business, PutUp(b) PROVE SaleInv'
    <2>1. \A c \in Business : Cardinality(winners[c]) \in Nat
      BY FS_CardinalityType
    <2> QED
      BY <1>2, <2>1 DEF PutUp
  <1>3. ASSUME NEW b \in Business, TakeDown(b) PROVE SaleInv'
    <2>1. \A c \in Business : Cardinality(winners[c]) \in Nat
      BY FS_CardinalityType
    <2> QED
      BY <1>3, <2>1 DEF TakeDown
  <1>4. ASSUME NEW b \in Business, NEW o \in OfferId, Win(b, o) PROVE SaleInv'
    <2>1. \A c \in Business : Cardinality(winners[c]) \in Nat
      BY FS_CardinalityType
    <2>2. /\ IsFiniteSet(winners[b] \cup {o})
          /\ Cardinality(winners[b] \cup {o}) = Cardinality(winners[b]) + 1
      BY <1>4, FS_AddElement DEF Win
    <2>3. SaleTypeOK'
      BY <1>4 DEF Win
    <2>4. ASSUME NEW c \in Business
          PROVE  /\ IsFiniteSet(winners'[c])
                 /\ Cardinality(winners'[c]) + (IF forSale'[c] THEN 1 ELSE 0) <= sales'[c]
      <3>1. CASE c = b
        BY <1>4, <2>1, <2>2, <3>1 DEF Win
      <3>2. CASE c # b
        BY <1>4, <2>1, <3>2 DEF Win
      <3> QED
        BY <3>1, <3>2
    <2> QED
      BY <2>3, <2>4
  <1> QED
    BY <1>1, <1>2, <1>3, <1>4 DEF Next

\* A sale has one winner at most, however often a business is put up.
THEOREM OneWinner == Spec => []OneWinnerPerSale
  <1>1. SaleInv => OneWinnerPerSale
    BY DEF SaleInv
  <1> QED
    BY <1>1, SaleInit, SaleStep, PTL DEF Spec

=============================================================================
