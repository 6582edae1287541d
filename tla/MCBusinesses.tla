---------------------------- MODULE MCBusinesses ----------------------------
(* Small instances of Businesses: one account that creates businesses, one *)
(* administrator, and handlers interchangeable with one another.           *)
EXTENDS Businesses, TLC

CONSTANTS seller, admin, draft, r1, r2, r3

MCOwner == [b \in Business |-> seller]

AllCalls == {"create", "publish", "unpublish", "remove", "update", "updateListing", "suspend"}

RequestSymmetry == Permutations(Request)

=============================================================================
