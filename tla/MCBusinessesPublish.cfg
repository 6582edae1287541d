SPECIFICATION Spec
CONSTANTS
  seller = seller
  admin = admin
  draft = draft
  r1 = r1
  r2 = r2
  r3 = r3
  User = {seller, admin}
  Admin = {admin}
  Business = {draft}
  Owner <- MCOwner
  Seeded = {}
  Request = {r1}
  Calls <- AllCalls
  Watched = {"refused as incomplete"}
  MayFail = FALSE
  OwnerViewHidesPrice = TRUE
PROPERTIES CompleteDraftsPublish
