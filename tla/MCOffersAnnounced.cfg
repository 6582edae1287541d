SPECIFICATION FairMarketSpec
CONSTANTS
  seller = seller
  buyer1 = buyer1
  buyer2 = buyer2
  acme = acme
  r1 = r1
  r2 = r2
  p1 = p1
  p2 = p2
  User = {seller, buyer1}
  Admin = {seller}
  Business = {acme}
  Owner <- MCOwner
  Seeded = {}
  Request = {r1}
  Calls = {"create", "updateListing", "publish", "suspend"}
  Watched = {"queue alerts", "admin action", "audit suspended", "notify acceptance", "audit acceptance"}
  MayFail = FALSE
  OwnerViewHidesPrice = FALSE
  OfferRequest = {p1, p2}
  MaxOffers = 2
  MaxNegotiations = 1
INVARIANT SuspensionRecorded
PROPERTIES AlertsQueued DealAnnounced
CHECK_DEADLOCK FALSE
