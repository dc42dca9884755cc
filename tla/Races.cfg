SPECIFICATION FairSpec
CONSTANTS
  o1 = o1
  o2 = o2
  s1 = s1
  s2 = s2
  c1 = c1
  chat = chat
  operator = operator
  NoOrder = NoOrder
  NoSku = NoSku
  Orders = {o1, o2}
  Skus = {s1, s2}
  CustomerOf <- OneCustomer
  Lines <- CrossedLines
  KeyOrder <- TwoSkus
  OpeningStock <- LastUnits
  Workers = {chat, operator}
  Duties <- OneOperator
  MaxReceived = 1
  MaxSheetRows = 1
  MaxCrashes = 1
INVARIANTS
  TypeOK
  
  OneCommittedDraft
PROPERTIES
  NoDoubleBooking
  RequestsEnd
CHECK_DEADLOCK FALSE
