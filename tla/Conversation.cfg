SPECIFICATION FairSpec
CONSTANTS
  s1 = s1
  s2 = s2
  c1 = c1
  c2 = c2
  ana = ana
  don = don
  bolt = bolt
  drill = drill
  nothing = nothing
  Senders = {s1}
  Customers = {c1, c2}
  Names = {ana, don}
  Named <- Matches
  Products = {drill}
  LikeYes <- DrillLikeYes
  Nothing = nothing
  MaxOrders = 2
INVARIANTS
  TypeOK
  OneModeAtATime
  OrderIsBeingDecided
PROPERTIES
  NeverAnOlderDraft
  LinesAreOrderedOnce
  FinishedSelectionsEnd
CHECK_DEADLOCK FALSE
