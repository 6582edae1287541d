SPECIFICATION MarketSpec
CONSTANTS
  seller = seller
  buyer1 = buyer1
  buyer2 = buyer2
  acme = acme
  r1 = r1
  r2 = r2
  p1 = p1
  p2 = p2
  User = {seller, buyer1}
  Admin = {}
  Business = {acme}
  Owner <- MCOwner
  Seeded = {}
  Request = {r1, r2}
  Calls <- RacingCalls
  Watched = {}
  MayFail = TRUE
  OwnerViewHidesPrice = FALSE
  OfferRequest = {p1}
  MaxOffers = 2
  MaxNegotiations = 2
SYMMETRY MarketSymmetry
INVARIANTS DealsWithinPublications
PROPERTIES ImplementsSale SettledStays
CHECK_DEADLOCK FALSE
