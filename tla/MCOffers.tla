------------------------------ MODULE MCOffers ------------------------------
(* Small instances of Offers: one seller with one business, one or two     *)
(* buyers and interchangeable handlers.                                    *)
EXTENDS Offers, TLC

CONSTANTS seller, buyer1, buyer2, acme, r1, r2, p1, p2

MCOwner == [b \in Business |-> seller]

\* The calls on a business that race with the calls on its offers.
RacingCalls == {"create", "publish", "unpublish", "update", "updateListing"}

MarketSymmetry == Permutations(User \ {seller}) \cup Permutations(OfferRequest) \cup Permutations(Request)

=============================================================================
