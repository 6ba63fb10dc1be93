CONSTANTS
  U64Max = 600
  Currencies = {"USD", "GBP"}
  Countries = {"ID"}
  DefaultPolicy <- MCDefaultPolicy
  NoVendor = NoVendor
  Unset = Unset
  i1 = i1
  i2 = i2
  i3 = i3
  v1 = v1
  Invs = {i1, i2, i3}
  LastDay = 1
  VendorIds = {v1}
  UnsafeId = UnsafeId
  BadCurrency = BadCurrency
  Refs = {"r1", "r2"}
  BadRef = BadRef
  Damaged = Damaged
  VendorRecords <- MCVendorRecords
  OverrideRecords <- MCOverrideRecords
  Requests <- MCRequests
SYMMETRY Symmetry
SPECIFICATION Spec
CONSTRAINT OneBadInput
INVARIANTS CountersFollowCalendar TypeOK DailyCapHolds LedgerMatchesReceipts TransfersAreReported UncountedMoneyIsUnclear TransfersWithinDefaults
PROPERTIES DamagedCounterStopsDay ImplementsDailyBudget
