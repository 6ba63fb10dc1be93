CONSTANTS
  Procs = {p1}
  Attempts = {a1, a2}
  Intents <- MCIntents
  Nonces = {n1}
  Nobody = Nobody
  NoToken = NoToken
  BadToken = BadToken
  Unread = Unread
  AllowReview = TRUE
  MaxTtl = 2
  Skew = 1
  TtlChoices = {1}
  AheadChoices = {0}
  MaxTime = 0
  v1 = v1
  U64Max = 600
  Currencies = {"USD"}
  Countries = {"ID"}
  DefaultPolicy <- MCDefaultPolicy
  NoVendor = NoVendor
  Unset = Unset
  LastDay = 1
  VendorIds = {v1}
  UnsafeId = UnsafeId
  BadCurrency = BadCurrency
  BadRef = BadRef
  Damaged = Damaged
  VendorRecords <- MCVendorRecords
  OverrideRecords = {}
SYMMETRY Symmetry
SPECIFICATION Spec
CONSTRAINT Bounded
INVARIANTS RefusedOnceMovesNothing LoggedPaymentsAreCounted
PROPERTIES ImplementsApprovedPayments
