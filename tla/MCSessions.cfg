SPECIFICATION FairSessionSpec
CONSTANTS
  ann = ann
  bob = bob
  r1 = r1
  r2 = r2
  Email = {ann, bob}
  MaxUsers = 2
  MaxTokens = 2
  MaxSessions = 3
  Request = {r1, r2}
  Scenario <- All
INVARIANTS SessionTypeOK ActiveWasVerified
PROPERTIES SpentStays DeadFamilyStays SignedOutEverywhere RegisteredAreMailed
CHECK_DEADLOCK FALSE
