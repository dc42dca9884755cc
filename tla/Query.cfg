SPECIFICATION FairServiceSpec
CONSTANTS
  j1 = j1
  q1 = q1
  p1 = p1
  p2 = p2
  general = general
  oldList = oldList
  newList = newList
  undeclared = undeclared
  w = w
  x = x
  y = y
  z = z
  noCode = noCode
  nothing = nothing
  sample = sample
  Jobs = {j1}
  Providers = {p1, p2}
  Documents = {general}
  DefaultDocument = general
  Undeclared = undeclared
  Codes = {w, x, y, z}
  NoCode = noCode
  Pdfs = {oldList, newList}
  Content <- OldAndNew
  Forms <- ReplacementOrOther
  Requests = {}
  Opening <- Indexed
  KeyChoices = {TRUE}
  BatchSize = 2
  MaxRestarts = 0
  Queries = {q1}
  KInput = 3
  RrfK = 60
  TopN = 2
  Threshold = 3
  Relevance <- Scores
  Worded = {x, y, z}
  Nothing = nothing
  Sample = sample
INVARIANTS
  QueriesTypeOK
  ProductsWereIndexed
  EvidenceIsNotDenied
  FusionRespectsBoth
PROPERTIES
  QueriesEnd
CHECK_DEADLOCK FALSE
