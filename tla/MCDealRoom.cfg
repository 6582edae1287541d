SPECIFICATION RoomSpec
CONSTANTS
  buyer = buyer
  seller = seller
  lawyer = lawyer
  t1 = t1
  q1 = q1
  q2 = q2
  a1 = a1
  a2 = a2
  v1 = v1
  v2 = v2
  v3 = v3
  w1 = w1
  d1 = d1
  r1 = r1
  r2 = r2
  User = {buyer, seller, lawyer}
  Admin = {lawyer}
  Buyer = buyer
  Seller = seller
  Task = {t1}
  DiligenceRequest = {q1, q2}
  Agreement = {a1, a2}
  VersionId = {v1, v2, v3}
  OtherVersion = {w1}
  Document = {d1}
  Says <- PaidThenRefunded
  Request = {r1, r2}
  Scenario <- Safe
SYMMETRY RoomSymmetry
INVARIANTS RoomTypeOK ReachedAlongMachine RoomTold SignedMeansTwo VersionsNumbered AppliedOnce LogExplains PaymentsReachedStage DocumentsKept
PROPERTIES FinalStays UnmanagedStays
CHECK_DEADLOCK FALSE
