SPECIFICATION Spec
CONSTANTS
  j1 = j1
  j2 = j2
  p1 = p1
  p2 = p2
  general = general
  ofertas = ofertas
  listA = listA
  listB = listB
  undeclared = undeclared
  x = x
  y = y
  z = z
  noCode = noCode
  Jobs = {j1, j2}
  Providers = {p1, p2}
  Documents = {general, ofertas}
  DefaultDocument = general
  Undeclared = undeclared
  Codes = {x, y, z}
  NoCode = noCode
  Pdfs = {listA, listB}
  Content <- TwoLists
  Forms <- FiveForms
  Requests <- Recreating
  Opening = {}
  KeyChoices = {TRUE, FALSE}
  BatchSize = 1
  MaxRestarts = 1
INVARIANTS
  IncrementalKeepsParity
CHECK_DEADLOCK FALSE
