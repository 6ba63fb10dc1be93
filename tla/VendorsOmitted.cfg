CONSTANTS
  MaxId = 1
  IdTexts = {1}
  Texts <- MCTexts
  VendorTexts <- TwoVendors
  VendorOrder <- TwoVendorsOrder
  Forms <- MCForms
  UpperCase <- MCUpperCase
  Shape <- TwoShapes
  AddVendorLines <- TwoLines
  NoMap = NoMap
  NoVendor = NoVendor
  Damaged = Damaged
  NoJob = NoJob
  VersionTtl = 2
  MaxNow = 2
  NoVersion = NoVersion
  NoInput = NoInput
  Failed = Failed
  ScanLimit = 1
  Asked = {"acme"}
  Never = Never
SPECIFICATION Spec
INVARIANTS ListingComplete
