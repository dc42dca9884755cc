SPECIFICATION Spec
CONSTANTS
  o1 = o1
  o2 = o2
  c1 = c1
  c2 = c2
  loc = loc
  rag = rag
  p1 = p1
  p2 = p2
  none = none
  Orders = {o1, o2}
  Skus = {loc}
  Suppliers = {p1, p2}
  NoSupplier = none
  CustomerOf <- OneCustomer
  OpeningStock <- EmptyShelf
  Kinds <- LocalKinds
  SuppliersOf <- AnySupplier
  PendingChoices <- Priced
  Uncalled = FALSE
  MaxLines = 1
  MaxQuantity = 1
  MaxRegistered = 1
  MaxPOs = 2
  MaxSupplied = 2
  MaxShrunk = 0
SYMMETRY SupplierSymmetry
INVARIANTS
  OneOpenPOPerSupplier
  ReceiptsAddUp
PROPERTIES
  ExecutedPOFrozen
CHECK_DEADLOCK FALSE
