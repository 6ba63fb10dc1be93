CONSTANTS
  U64Max = 2500
  Currencies <- MCCurrencies
  Countries <- MCCountries
  DefaultPolicy <- MCDefaultPolicy
  NoVendor = NoVendor
  Unset = Unset
  OverrideChoices <- MCOverrides
  VendorChoices <- MCVendors
  IntentChoices <- MCIntents
  Counted <- MCCounted
  LedgerBound = 20
SPECIFICATION Spec
CHECK_DEADLOCK FALSE
INVARIANTS TypeOK TighteningNeverLoosens OverrideInForceOrNoted NotDeniedFitsCaps
PROPERTY StricterAsLedgerGrows
