SPECIFICATION Spec
CONSTANTS
  s1 = s1
  s2 = s2
  noSupplier = noSupplier
  spaced = spaced
  hyphened = hyphened
  bolt = bolt
  noCode = noCode
  nut = nut
  noRow = noRow
  Suppliers = {s1, s2}
  NoSupplier = noSupplier
  Codes = {spaced, hyphened, bolt}
  NoCode = noCode
  Descriptions = {nut}
  Key <- ByGap
  Part <- ByHyphen
  Documents <- TwoDocuments
  Indexes <- OneRebuild
  NoRow = noRow
  Hits = 1
  Stocks = {1}
  Retirable = {s1}
  MaxUploads = 1
  MaxTasks = 1
  MaxTransactions = 2
INVARIANTS
  ReceiptsTypeOK
  OneProductPerCode
PROPERTIES
  ConfirmedReceiptIsWhole
CHECK_DEADLOCK FALSE
