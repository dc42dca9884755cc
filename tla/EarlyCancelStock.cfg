SPECIFICATION Spec
CONSTANTS
  o1 = o1
  o2 = o2
  s1 = s1
  none = none
  Orders = {o1, o2}
  Skus = {s1}
  Suppliers = {}
  NoSupplier = none
  CustomerOf <- MCCustomerOf
  OpeningStock <- MCOpeningStock
  Kinds <- MCKinds
  SuppliersOf <- MCSuppliersOf
  PendingChoices <- MCPending
  Uncalled = FALSE
  MaxLines = 2
  MaxQuantity = 2
  MaxRegistered = 2
  MaxPOs = 0
  MaxSupplied = 3
  MaxShrunk = 1
  Cents = 10
  Currencies = {ars, usd}
  ARS = ars
  USD = usd
SYMMETRY Symmetry
INVARIANTS
  CanceledRestoresStock
CHECK_DEADLOCK FALSE
