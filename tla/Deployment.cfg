CONSTANTS
  MaxId = 2
  IdTexts = {0, 1, 2}
  Texts <- MCTexts
  VendorTexts <- MCVendorTexts
  VendorOrder <- MCVendorOrder
  Forms <- MCForms
  UpperCase <- MCUpperCase
  Shape <- MCShape
  AddVendorLines <- MCLines
  NoMap = NoMap
  NoVendor = NoVendor
  Damaged = Damaged
  NoJob = NoJob
  VersionTtl = 2
  MaxNow = 2
  NoVersion = NoVersion
  NoInput = NoInput
  Failed = Failed
  ScanLimit = 2
  Asked = {"acme"}
  Never = Never
SPECIFICATION Spec
INVARIANTS TypeOK BoundedStaleness OneContractPays RerunCompletesSetup RegisteredVendorsAreUsable AnswersSurvive
