SPECIFICATION MarketSpec
CONSTANTS
  seller = seller
  buyer1 = buyer1
  buyer2 = buyer2
  acme = acme
  r1 = r1
  r2 = r2
  p1 = p1
  p2 = p2
  User = {seller, buyer1}
  Admin = {}
  Business = {acme}
  Owner <- MCOwner
  Seeded = {acme}
  Request = {r1}
  Calls = {}
  Watched = {}
  MayFail = FALSE
  OwnerViewHidesPrice = TRUE
  OfferRequest = {p1, p2}
  MaxOffers = 2
  MaxNegotiations = 1
PROPERTIES TerminalOffersStay
CHECK_DEADLOCK FALSE
