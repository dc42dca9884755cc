SPECIFICATION Spec
CONSTANTS
  o1 = o1
  o2 = o2
  c1 = c1
  c2 = c2
  loc = loc
  rag = rag
  p1 = p1
  p2 = p2
  none = none
  Orders = {o1, o2}
  Skus = {loc, rag}
  Suppliers = {p1}
  NoSupplier = none
  CustomerOf <- OneCustomer
  OpeningStock <- EmptyShelf
  Kinds <- LocalAndRagKinds
  SuppliersOf <- AnySupplier
  PendingChoices <- Priced
  Uncalled = FALSE
  MaxLines = 1
  MaxQuantity = 1
  MaxRegistered = 1
  MaxPOs = 2
  MaxSupplied = 1
  MaxShrunk = 0
SYMMETRY OrderSymmetry
INVARIANTS
  TypeOK
  OneDraftPerCustomer
  ItemQuantityIsSumOfNeeds
PROPERTIES
  CancelReleasesOnlyItsOwn
CHECK_DEADLOCK FALSE
