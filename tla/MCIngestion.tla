---------------------------- MODULE MCIngestion ----------------------------
(***************************************************************************)
(* Two suppliers, two documents and two price lists: one has a line sold    *)
(* out and a nameless code on its second page that a code of the first     *)
(* page repeats, the other shares a code with it.                          *)
(***************************************************************************)
EXTENDS CatalogIngestion, TLC

CONSTANTS j1, j2, p1, p2, general, ofertas, listA, listB, undeclared, x, y, z, noCode

Line(orig, name) == [orig |-> orig, name |-> name, priced |-> TRUE, soldOut |-> FALSE]
SoldOut(orig) == [Line(orig, orig) EXCEPT !.soldOut = TRUE]
Unpriced(orig) == [Line(orig, orig) EXCEPT !.priced = FALSE]

TwoLists ==
  (listA :> << <<Line(x, x), SoldOut(y)>>, <<Line(noCode, x)>> >>)
    @@ (listB :> << <<Unpriced(y), Line(x, x), Line(z, z)>> >>)

Form(pdf, p, d, incremental) ==
  [pdf |-> pdf, prov |-> p, doc |-> d, incremental |-> incremental]

(* Total and incremental replacements of two documents of one supplier,    *)
(* one the page refuses, and another supplier.                             *)
FiveForms ==
  { Form(listA, p1, undeclared, FALSE), Form(listA, p1, undeclared, TRUE),
    Form(listB, p1, ofertas, TRUE), Form(listB, p1, general, TRUE),
    Form(listB, p2, general, FALSE) }

(* A client of the service asks for the table to be recreated.             *)
Recreating ==
  { [pdf |-> listB, prov |-> p2, doc |-> general, scope |-> "proveedor", recreate |-> TRUE] }

=============================================================================
